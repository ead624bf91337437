------------------------------ MODULE Command ------------------------------
(***************************************************************************)
(* cli.Run: one command from its arguments to the exit code.  Input comes  *)
(* from StrictJSON; what model.Parse makes of an accepted document is the  *)
(* subject of Planner and a choice here.  Every write may fail, after a    *)
(* part of the text or before it: json.Encoder writes once, and a closed   *)
(* pipe or a full disk takes what it can.                                  *)
(***************************************************************************)
EXTENDS StrictJSON

Locales == {"en-US", "zh-TW"}
Commands == {"capabilities", "validate", "plan"}
Written == {"nothing", "part", "whole"}

VARIABLES usage,    \* flags.Parse accepts the arguments
          locale,   \* the value of -locale, valid or not
          command,  \* the only positional argument, or "other"
          pc,       \* "run", "input", "output", "error" or "exit"
          code,     \* the exit code that is decided
          stdout, stderr,   \* how much of a text has been written
          tongue    \* the locale of the message on stderr

argVars == <<usage, locale, command>>
outVars == <<stdout, stderr, tongue>>
commandVars == <<argVars, pc, code, outVars>>

CommandTypeOK == /\ usage \in BOOLEAN
                 /\ locale \in Locales \cup {"other"}
                 /\ command \in Commands \cup {"other"}
                 /\ pc \in {"run", "input", "output", "error", "exit"}
                 /\ code \in 0..2
                 /\ stdout \in Written /\ stderr \in Written
                 /\ tongue \in Locales

CommandInit == /\ usage \in BOOLEAN
               /\ locale \in Locales \cup {"other"}
               /\ command \in Commands \cup {"other"}
               /\ pc = "run"
               /\ code = 0
               /\ stdout = "nothing" /\ stderr = "nothing"
               /\ tongue = "en-US"

ValidUsage == usage /\ locale \in Locales /\ command \in Commands

ChooseLocale == IF locale \in Locales THEN locale ELSE "en-US"

\* writeGenericError is next, then the exit with this code.
Fail(status) == /\ pc' = "error"
                /\ code' = status
                /\ UNCHANGED <<argVars, outVars>>

RefuseUsage == /\ pc = "run" /\ ~ValidUsage
               /\ Fail(2)
               /\ UNCHANGED jsonVars

\* A plausible bug: the input is read before the command is looked at.
DispatchEager == /\ pc = "run" /\ ValidUsage
                 /\ pc' = "input"
                 /\ UNCHANGED <<argVars, code, outVars, jsonVars>>

Dispatch == /\ pc = "run" /\ ValidUsage
            /\ pc' = IF command = "capabilities" THEN "output" ELSE "input"
            /\ UNCHANGED <<argVars, code, outVars, jsonVars>>

ParseStep == pc = "input" /\ Parse /\ UNCHANGED commandVars

InputAccepted == /\ pc = "input" /\ verdict = "accepted"
                 /\ pc' = "output"
                 /\ UNCHANGED <<argVars, code, outVars, jsonVars>>

\* The document, or what model.Parse finds in it, is refused.
InputRefused == /\ pc = "input" /\ verdict \in {"accepted", "rejected"}
                /\ Fail(2)
                /\ UNCHANGED jsonVars

\* A plausible bug: the result of writeJSON is not looked at.
WriteOutputUnchecked(written) ==
  /\ pc = "output"
  /\ stdout' = written
  /\ pc' = "exit"
  /\ UNCHANGED <<argVars, code, stderr, tongue, jsonVars>>

\* writeJSON, and what Run makes of its result.
WriteOutput(written) ==
  /\ pc = "output"
  /\ stdout' = written
  /\ IF written = "whole" THEN pc' = "exit" /\ UNCHANGED code
                          ELSE pc' = "error" /\ code' = 1
  /\ UNCHANGED <<argVars, stderr, tongue, jsonVars>>

\* writeGenericError ignores whether its message can be written.
WriteError(written) ==
  /\ pc = "error"
  /\ stderr' = written
  /\ tongue' = ChooseLocale
  /\ pc' = "exit"
  /\ UNCHANGED <<argVars, code, stdout, jsonVars>>

CommandNext == \/ RefuseUsage \/ Dispatch \/ ParseStep
               \/ InputAccepted \/ InputRefused
               \/ \E written \in Written : WriteOutput(written) \/ WriteError(written)

CommandSpec == /\ JSONInit /\ CommandInit
               /\ [][CommandNext]_<<jsonVars, commandVars>>

-----------------------------------------------------------------------------
(* Properties. *)

\* The exit code can be relied on without looking at the output: 0 means that
\* the input was accepted and all of the answer is on stdout, whatever failed
\* on the way; 2 means that nothing is, and anything else on stdout came with 1.
ExitCodeIsTrue ==
  pc = "exit" =>
    /\ code = 0 <=> stdout = "whole"
    /\ code = 2 => stdout = "nothing"
    /\ code = 0 => /\ stderr = "nothing"
                   /\ command # "capabilities" => verdict = "accepted"

\* "The capabilities command deliberately never touches stdin" (cli.go:65), nor
\* does a command with wrong usage, which might wait there for input for ever.
StdinUntouched == verdict # "unread" => ValidUsage /\ command # "capabilities"
=============================================================================
