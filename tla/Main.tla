-------------------------------- MODULE Main --------------------------------
(***************************************************************************)
(* The program: main (main.go) hands the arguments after "serve" to        *)
(* RunServe and all others to cli.Run.  RunServe is followed from          *)
(* ParseConfig to the calls of its clients; its other parts have modules   *)
(* of their own.                                                           *)
(***************************************************************************)
EXTENDS Command, Upstream

VARIABLE program    \* "serve" or "cli"

mainVars == <<program, jsonVars, commandVars, serveVars>>

MainTypeOK == /\ program \in {"serve", "cli"}
              /\ JSONTypeOK /\ CommandTypeOK /\ UpstreamTypeOK

\* The input of the program that does not run is of no account.
MainInit ==
  /\ program \in {"serve", "cli"}
  /\ JSONInit /\ CommandInit /\ UpstreamInit
  /\ program = "serve" => size = 0 /\ clean /\ usage /\ locale = "en-US"
                          /\ command = "other"
  /\ program = "cli" => inputs = NoInputs

RunServe == program = "serve" /\ UpstreamNext /\ UNCHANGED <<jsonVars, commandVars>>
RunCommand == program = "cli" /\ CommandNext /\ UNCHANGED serveVars

MainNext == (RunServe \/ RunCommand) /\ UNCHANGED program

MainSpec == MainInit /\ [][MainNext]_mainVars
=============================================================================
