------------------------------- MODULE Config -------------------------------
(***************************************************************************)
(* ParseConfig and Config.Validate: what the bridge starts with.  Modelled *)
(* are the settings that depend on each other or on the file system: the   *)
(* issuing token and its file, two durations with their variables, the     *)
(* state path and the URL of an upstream.  Both upstreams are checked in   *)
(* the same way; the other settings are within their limits or not.        *)
(* A setting is chosen when the code first looks at it: before that,       *)
(* nothing depends on it.                                                  *)
(***************************************************************************)
EXTENDS Integers, Sequences, SequencesExt

CONSTANTS Address,           \* addresses that a name can resolve to
          Private,           \* those on a private network (net.IP.IsPrivate...)
          DNSName,           \* a name with a dot
          ServiceName,       \* a name without: localhost, validInternalHostname
          PathPart,          \* names of files and directories, and ".."
          StateRoot,         \* /var/lib/pasturestack
          DefaultStatePath,
          MinTokenTTL, MaxTokenTTL, DefaultTokenTTL,
          MinWrapTTL, MaxWrapTTL, DefaultWrapTTL,
          MaxVaultToken,     \* DefaultMaxVaultToken
          Unset, Malformed,  \* no flag or variable; one that does not parse
          Duration,          \* bound: durations in flags and variables
          MaxPathParts       \* bound: parts of the state path

ASSUME ConfigAssumption ==
  /\ Private \subseteq Address
  /\ DNSName \notin Address /\ ServiceName \notin Address
  /\ DNSName # ServiceName
  /\ Unset \notin Duration /\ Malformed \notin Duration /\ Unset # Malformed
  /\ MaxVaultToken \in Nat /\ MaxPathParts \in Nat
  /\ Duration \subseteq Int /\ DefaultTokenTTL \in Int /\ DefaultWrapTTL \in Int
  /\ MinTokenTTL \in Nat \ {0} /\ MaxTokenTTL \in Nat
  /\ MinWrapTTL \in Nat \ {0} /\ MaxWrapTTL \in Nat
  /\ StateRoot \in Seq(PathPart) /\ DefaultStatePath \in Seq(PathPart)

NoURL == [tls |-> TRUE, host |-> Unset]
Kind == {"none", "regular", "link", "other"}   \* os.FileMode.IsRegular
File == [kind : Kind, size : 0..MaxVaultToken + 2]
Inputs == [flag : {Unset, "", "inline"}, env : {Unset, "inline"}, file : BOOLEAN]
Settings == [ttlFlag : Duration \cup {Unset},
             ttlEnv : Duration \cup {Unset, Malformed},
             wrapFlag : Duration \cup {Unset},
             wrapEnv : Duration \cup {Unset, Malformed},
             path : {Unset} \cup UNION {[1..n -> PathPart] : n \in 1..MaxPathParts}]

VARIABLES stage,    \* "flags", "lstat", "open", "stat", "read", "validate",
                    \* "started", "refused"
                    \* or, in Upstream, "serving"
          inputs,   \* flags and variables that concern the issuing token
          file,     \* what the path of the token file names
          handle,   \* the opened file
          token,    \* bytes that were read from the token file
          settings, \* the other settings, once they have been accepted
          url       \* the validated URL of an upstream

configVars == <<stage, inputs, file, handle, token, settings, url>>
NoInputs == [flag |-> Unset, env |-> Unset, file |-> FALSE]
NoFile == [kind |-> "none", size |-> 0]

ConfigInit == /\ stage = "flags"
              /\ inputs \in Inputs
              /\ file = NoFile /\ handle = NoFile
              /\ token = 0
              /\ settings = Unset
              /\ url = NoURL

Refuse == stage' = "refused" /\ UNCHANGED <<inputs, file, handle, token, settings, url>>
Proceed(next) == /\ stage' = next
                 /\ UNCHANGED <<inputs, file, handle, token, settings, url>>

-----------------------------------------------------------------------------
(* Where a setting comes from. *)

\* A flag, even an empty one, overrides the variable; an empty variable is none.
Inline == IF inputs.flag # Unset THEN inputs.flag = "inline"
                                 ELSE inputs.env = "inline"

\* A plausible bug: a malformed variable counts as one that is not set.
DurationEnvLenient(env, fallback) ==
  IF env \in {Unset, Malformed} THEN fallback ELSE env

\* durationEnv: a malformed variable becomes 0, which no limit admits.
DurationEnv(env, fallback) == IF env = Unset THEN fallback
                              ELSE IF env = Malformed THEN 0 ELSE env

TokenTTL(s) == IF s.ttlFlag # Unset THEN s.ttlFlag
                                    ELSE DurationEnv(s.ttlEnv, DefaultTokenTTL)
WrapTTL(s) == IF s.wrapFlag # Unset THEN s.wrapFlag
                                    ELSE DurationEnv(s.wrapEnv, DefaultWrapTTL)
StatePath(s) == IF s.path = Unset THEN DefaultStatePath ELSE s.path

\* ParseConfig up to the token file.
TokenInput ==
  /\ stage = "flags"
  /\ IF Inline /\ inputs.file THEN Refuse
     ELSE Proceed(IF inputs.file THEN "lstat" ELSE "validate")

-----------------------------------------------------------------------------
(* readSecretFile, while others may replace the file. *)

ReplaceFile(f) == /\ stage \in {"lstat", "open", "stat", "read"}
                  /\ file' = f
                  /\ UNCHANGED <<stage, inputs, handle, token, settings, url>>

\* The path is absolute and clean, or counts as one that names nothing.
LstatFile == /\ stage = "lstat"
             /\ IF file.kind = "regular" THEN Proceed("open") ELSE Refuse

\* os.Open follows a link, to a file of any kind.
OpenFile(f) ==
  /\ stage = "open"
  /\ IF file.kind = "none" THEN f = file /\ Refuse
     ELSE /\ IF file.kind = "link" THEN f.kind # "link" ELSE f = file
          /\ handle' = f
          /\ IF f.kind = "none" THEN stage' = "refused" ELSE stage' = "stat"
          /\ UNCHANGED <<inputs, file, token, settings, url>>

\* A plausible bug: the file was checked before it was opened, and that is all.
StatFileSkipped == stage = "stat" /\ Proceed("read")

StatFile == /\ stage = "stat"
            /\ IF handle.kind = "regular" THEN Proceed("read") ELSE Refuse

\* The opened file is written to or truncated, whether or not the path still
\* leads to it.
ResizeFile(size) == /\ stage \in {"stat", "read"}
                    /\ handle' = [handle EXCEPT !.size = size]
                    /\ UNCHANGED <<stage, inputs, file, token, settings, url>>

\* One read of io.ReadAll.  One byte beyond the limit is asked for.
ReadSome(upto) == /\ stage = "read"
                  /\ token < upto
                  /\ upto <= handle.size /\ upto <= MaxVaultToken + 1
                  /\ token' = upto
                  /\ UNCHANGED <<stage, inputs, file, handle, settings, url>>

\* The next read finds nothing, and no more than the limit was read.
ReadEnds == /\ stage = "read"
            /\ token >= handle.size /\ token <= MaxVaultToken
            /\ Proceed("validate")

\* A read fails, or too much was read.
ReadFails == /\ stage = "read"
             /\ stage' = "refused"
             /\ token' = 0
             /\ UNCHANGED <<inputs, file, handle, settings, url>>

-----------------------------------------------------------------------------
(* Config.Validate. *)

ValidToken == IF inputs.file THEN token > 0 ELSE Inline

\* Of the path relative to the root: ".", "..", or beginning with "../".
Outside(relative) == relative = <<>> \/ Head(relative) = ".."

\* filepath.Rel of clean absolute paths: up to the common directory, then down.
Rel(base, target) ==
  LET common == CHOOSE n \in 0..Len(base) :
        /\ n <= Len(target) /\ SubSeq(base, 1, n) = SubSeq(target, 1, n)
        /\ n < Len(base) /\ n < Len(target) => base[n + 1] # target[n + 1] IN
  [i \in 1..Len(base) - common |-> ".."] \o SubSeq(target, common + 1, Len(target))

\* filepath.Clean leaves no ".." in an absolute path.
ValidStatePath(path) == /\ \A i \in 1..Len(path) : path[i] # ".."
                        /\ ~Outside(Rel(StateRoot, path))

ValidLimits(s) == /\ TokenTTL(s) \in MinTokenTTL..MaxTokenTTL
                  /\ WrapTTL(s) \in MinWrapTTL..MaxWrapTTL
                  /\ WrapTTL(s) <= TokenTTL(s)

\* validateServiceURL: without TLS, only a private address or an internal name.
PrivateHost(host) == host \in Private \cup {ServiceName}
ValidServiceURL(u) == u.tls \/ PrivateHost(u.host)

ValidSettings(s) == ValidStatePath(StatePath(s)) /\ ValidLimits(s)

Validate(s, u) == /\ stage = "validate" /\ ValidToken
                  /\ ValidSettings(s) /\ ValidServiceURL(u)
                  /\ stage' = "started" /\ settings' = s /\ url' = u
                  /\ UNCHANGED <<inputs, file, handle, token>>

\* These or the remaining settings are beyond their limits, or the token has
\* control characters in it.
ValidateFails == stage = "validate" /\ Refuse

URLs == [tls : BOOLEAN, host : Address \cup {DNSName, ServiceName}]

ConfigNext == \/ TokenInput \/ LstatFile \/ StatFile \/ ValidateFails
              \/ \E f \in File : ReplaceFile(f) \/ OpenFile(f)
              \/ \E size \in 0..MaxVaultToken + 2 : ResizeFile(size) \/ ReadSome(size)
              \/ ReadEnds \/ ReadFails
              \/ /\ stage = "validate"
                 /\ \E s \in Settings : /\ ValidSettings(s)
                                       /\ \E u \in URLs : Validate(s, u)

ConfigTypeOK ==
  /\ stage \in {"flags", "lstat", "open", "stat", "read", "validate", "started",
               "refused", "serving"}
  /\ inputs \in Inputs
  /\ file \in File /\ handle \in File
  /\ token \in 0..MaxVaultToken + 1
  /\ settings \in Settings \cup {Unset}
  /\ url \in URLs \cup {NoURL}

-----------------------------------------------------------------------------
(* Properties. *)

\* The bridge starts with the issuing token of one source only, and if that is
\* a file, it has read a regular file to its end: never a directory or a pipe,
\* and never the beginning of what the file held when the reading ended,
\* although the path may have been replaced since Lstat looked at it and the
\* file may be written to while it is read.
TokenFileReadToItsEnd ==
  stage = "started" =>
    /\ Inline <=> ~inputs.file
    /\ inputs.file =>
         handle.kind = "regular" /\ token >= handle.size /\ token > 0

\* The bridge starts only with what was asked for: a malformed variable stops it
\* unless a flag overrides the variable, a wrapping token does not outlive the
\* token in it, and the state file is strictly below the state directory.
StartsAsAsked ==
  stage = "started" =>
    /\ settings.ttlEnv = Malformed => settings.ttlFlag # Unset
    /\ settings.wrapEnv = Malformed => settings.wrapFlag # Unset
    /\ MinWrapTTL <= WrapTTL(settings) /\ WrapTTL(settings) <= TokenTTL(settings)
    /\ TokenTTL(settings) <= MaxTokenTTL
    /\ IsStrictPrefix(StateRoot, StatePath(settings))
=============================================================================
