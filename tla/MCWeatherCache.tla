---------------------------- MODULE MCWeatherCache ----------------------------
(* The instance of WeatherCache that TLC checks. *)
EXTENDS WeatherCache

=============================================================================
