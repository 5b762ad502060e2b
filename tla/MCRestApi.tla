----------------------------- MODULE MCRestApi -----------------------------
(* Instances of RestApi small enough for TLC. *)
EXTENDS RestApi

CONSTANTS connector, api

\* main() starts the services last.
MCOrder == <<connector, api>>
=============================================================================
