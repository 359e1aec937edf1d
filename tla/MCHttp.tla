------------------------------- MODULE MCHttp -------------------------------
(* An instance of HttpServer: two connections; a page in flash, the status  *)
(* of the firmware update in RAM, and 404, whose length of 13 bytes ends    *)
(* inside its header.                                                       *)
EXTENDS HttpServer

MCEndpoints == {"/", "/404", "/rest/ota_update"}
MCRom == {"/", "/404"}
MCLength == [e \in MCEndpoints |-> CASE e = "/404" -> 1 [] e = "/" -> 3 [] OTHER -> 2]
=============================================================================
