----------------------------- MODULE MainProofs -----------------------------
(***************************************************************************)
(* What Main guarantees for all documents and arguments, all settings and  *)
(* token files, and any number of addresses and concurrent calls.          *)
(***************************************************************************)
EXTENDS Main, FiniteSetTheorems, SequenceTheorems, TLAPS

\* A set of natural numbers has a least one: how a loop is reasoned about.
LEMMA LeastNatural ==
  ASSUME NEW T \in SUBSET Nat, T # {}
  PROVE  \E m \in T : \A n \in T : m <= n
<1> DEFINE R == OpToRel(<, Nat)
<1>1. \E m \in T : \A n \in T : <<n, m>> \notin R
  <2>1. IsWellFoundedOn(R, Nat)
    BY NatLessThanWellFounded
  <2> HIDE DEF R
  <2>2. QED
    BY <2>1, WFMin
<1>2. \A m, n \in T : n < m => <<n, m>> \in R
  BY DEF OpToRel
<1>3. QED
  <2> HIDE DEF R
  <2>1. PICK m \in T : \A n \in T : <<n, m>> \notin R
    BY <1>1
  <2>2. ASSUME NEW n \in T PROVE m <= n
    <3>1. ~ (n < m)
      BY <1>2, <2>1
    <3>2. m \in Int /\ n \in Int
      OBVIOUS
    <3>3. QED
      BY <3>1, <3>2
  <2>3. QED
    BY <2>2

-----------------------------------------------------------------------------
(* The clients. *)

CallTypes == /\ step \in [Call -> {"none", "lookup", "dial", "send", "wait"}]
             /\ carried \in [Call -> Secret]
             /\ conn \in [Call -> Address \cup {NoAddress}]
             /\ idle \subseteq Address
             /\ \A c \in Call : step[c] \in {"send", "wait"} => conn[c] \in Address

\* Nothing is connected before the URL has been settled, and afterwards every
\* connection leads where the dialer may go, whether idle or in use.
ConnectionsAreAcceptable ==
  /\ ~Serving => idle = {} /\ sent = {} /\ \A c \in Call : step[c] = "none"
  /\ \A a \in idle : Acceptable(a)
  /\ \A c \in Call : step[c] \in {"send", "wait"} => Acceptable(conn[c])
  /\ \A m \in sent : Acceptable(m.to)

\* The token has been read whole or not at all wherever it goes on its way, and
\* elsewhere it has a zero byte in it.
HeadersAreWhole ==
  /\ secret \in {"whole", "mixed", "zeros", "none"}
  /\ \A c \in Call : carried[c] # "part"
  /\ \A c \in Call : step[c] \in {"dial", "send", "wait"} => HeaderAllowed(carried[c])
  /\ \A m \in sent : m.token \in {"whole", "none"}

ClientInv == CallTypes /\ ConnectionsAreAcceptable /\ HeadersAreWhole

\* While the configuration is read, no client exists.
LEMMA ConfigLeavesClients ==
  ASSUME ClientInv, ConfigNext, UNCHANGED upstreamVars
  PROVE  ClientInv'
<1>1. ~Serving /\ ~Serving'
  BY DEF ConfigNext, TokenInput, LstatFile, StatFile, ValidateFails, ReplaceFile,
     OpenFile, ResizeFile, ReadSome, ReadEnds, ReadFails, Validate, Refuse,
     Proceed, Serving
<1>2. CallTypes' /\ HeadersAreWhole'
  BY DEF ClientInv, CallTypes, HeadersAreWhole, upstreamVars, callVars, HeaderAllowed
<1>3. ConnectionsAreAcceptable'
  BY <1>1 DEF ClientInv, ConnectionsAreAcceptable, upstreamVars, callVars
<1>4. QED
  BY <1>2, <1>3 DEF ClientInv

\* Every step of a client keeps its invariant.
LEMMA ClientStep ==
  ASSUME ClientInv, [UpstreamNext]_serveVars
  PROVE  ClientInv'
<1> USE DEF ClientInv, CallTypes, ConnectionsAreAcceptable, HeadersAreWhole, Serving,
        Acceptable, HeaderAllowed, Secret, configVars, callVars
<1>1. CASE ConfigNext /\ UNCHANGED upstreamVars
  BY <1>1, ConfigLeavesClients
<1>2. CASE NewClients
  BY <1>2 DEF NewClients, upstreamVars
<1>3. CASE ZeroBytes
  BY <1>3 DEF ZeroBytes
<1>4. CASE DropToken
  BY <1>4 DEF DropToken
<1>5. CASE CloseIdle
  BY <1>5 DEF CloseIdle
<1>6. ASSUME NEW addresses \in SUBSET Address, ChangeAnswer(addresses)
      PROVE  ClientInv'
  BY <1>6 DEF ChangeAnswer
<1>7. ASSUME NEW a \in Address, DropIdle(a) PROVE ClientInv'
  BY <1>7 DEF DropIdle
<1>8. ASSUME NEW c \in Call, Begin(c) PROVE ClientInv'
  BY <1>8 DEF Begin
<1>9. ASSUME NEW c \in Call, Reuse(c) PROVE ClientInv'
  <2>1. PICK a \in idle : conn' = [conn EXCEPT ![c] = a] /\ idle' = idle \ {a}
    BY <1>9 DEF Reuse
  <2>2. a \in Address \cup {NoAddress}
    BY <2>1
  <2>3. QED
    BY <1>9, <2>1, <2>2 DEF Reuse
<1>10. ASSUME NEW c \in Call, Lookup(c) PROVE ClientInv'
  BY <1>10 DEF Lookup
<1>11. ASSUME NEW c \in Call, Send(c) PROVE ClientInv'
  <2>2. carried[c] \in {"whole", "none"} /\ Acceptable(conn[c]) /\ Serving
    BY <1>11 DEF Send
  <2>3. \A m \in sent' : Acceptable(m.to) /\ m.token \in {"whole", "none"}
    BY <1>11, <2>2 DEF Send
  <2>4. QED
    BY <1>11, <2>2, <2>3 DEF Send
<1>12. ASSUME NEW c \in Call, Answered(c) PROVE ClientInv'
  BY <1>12 DEF Answered, EndCall
<1>13. ASSUME NEW c \in Call, CallFails(c) PROVE ClientInv'
  BY <1>13 DEF CallFails, EndCall
<1>14. ASSUME NEW c \in Call, NEW a \in Address, Dial(c, a) PROVE ClientInv'
  BY <1>14 DEF Dial, Connect
<1>15. ASSUME NEW c \in Call, NEW a \in Address, PassOver(c, a) PROVE ClientInv'
  BY <1>15 DEF PassOver
<1>16. CASE UNCHANGED serveVars
  BY <1>16 DEF serveVars, upstreamVars
<1>17. QED
  BY <1>1, <1>2, <1>3, <1>4, <1>5, <1>6, <1>7, <1>8, <1>9, <1>10, <1>11, <1>12,
     <1>13, <1>14, <1>15, <1>16 DEF UpstreamNext

\* What is known of the clients holds at all times.
LEMMA ClientInvariant == MainSpec => []ClientInv
<1>1. MainInit => ClientInv
  BY DEF MainInit, UpstreamInit, ConfigInit, ClientInv, CallTypes,
     ConnectionsAreAcceptable, HeadersAreWhole, Serving, Secret
<1>2. ClientInv /\ [MainNext]_mainVars => ClientInv'
  BY ClientStep DEF MainNext, RunServe, RunCommand, mainVars
<1>3. QED
  BY <1>1, <1>2, PTL DEF MainSpec

\* Credentials go over TLS or to a private address, for any number of addresses
\* and concurrent calls and any sequence of DNS answers.
THEOREM CredentialsAlwaysPrivate == MainSpec => []CredentialsStayPrivate
<1>1. ClientInv => CredentialsStayPrivate
  BY DEF ClientInv, ConnectionsAreAcceptable, Acceptable, CredentialsStayPrivate
<1>2. QED
  BY <1>1, ClientInvariant, PTL

\* No request carries a part of the issuing token, whatever close interrupts.
THEOREM TokenAlwaysWhole == MainSpec => []TokenSentWhole
<1>1. ClientInv => TokenSentWhole
  BY DEF ClientInv, HeadersAreWhole, TokenSentWhole
<1>2. QED
  BY <1>1, ClientInvariant, PTL

-----------------------------------------------------------------------------
(* The command line. *)

\* What has been decided and written at each point of Run.
RunInv ==
  /\ verdict # "unread" => ValidUsage /\ command # "capabilities"
  /\ pc = "run" => code = 0 /\ stdout = "nothing" /\ stderr = "nothing"
                   /\ verdict = "unread"
  /\ pc = "input" => code = 0 /\ stdout = "nothing" /\ stderr = "nothing"
                     /\ ValidUsage /\ command # "capabilities"
  /\ pc = "output" => code = 0 /\ stdout = "nothing" /\ stderr = "nothing"
                      /\ (command # "capabilities" => verdict = "accepted")
  /\ pc = "error" => \/ code = 1 /\ stdout # "whole"
                     \/ code = 2 /\ stdout = "nothing"
  /\ ExitCodeIsTrue

\* Every step of the command line keeps what is known at its place.
LEMMA RunStep ==
  ASSUME RunInv, [CommandNext]_<<jsonVars, commandVars>>
  PROVE  RunInv'
<1> USE DEF RunInv, ExitCodeIsTrue, ValidUsage, argVars, outVars, jsonVars
<1>1. CASE RefuseUsage
  BY <1>1 DEF RefuseUsage, Fail
<1>2. CASE Dispatch
  BY <1>2 DEF Dispatch
<1>3. CASE ParseStep
  BY <1>3 DEF ParseStep, commandVars
<1>4. CASE InputAccepted
  BY <1>4 DEF InputAccepted
<1>5. CASE InputRefused
  BY <1>5 DEF InputRefused, Fail
<1>6. ASSUME NEW written \in Written, WriteOutput(written) PROVE RunInv'
  BY <1>6 DEF WriteOutput
<1>7. ASSUME NEW written \in Written, WriteError(written) PROVE RunInv'
  BY <1>7 DEF WriteError
<1>8. CASE UNCHANGED <<jsonVars, commandVars>>
  BY <1>8 DEF commandVars
<1>9. QED
  BY <1>1, <1>2, <1>3, <1>4, <1>5, <1>6, <1>7, <1>8 DEF CommandNext

\* What is known of the command line holds at all times.
LEMMA RunInvariant == MainSpec => []RunInv
<1>1. MainInit => RunInv
  BY DEF MainInit, CommandInit, JSONInit, RunInv, ExitCodeIsTrue
<1>2. RunInv /\ [MainNext]_mainVars => RunInv'
  BY RunStep DEF MainNext, RunServe, RunCommand, mainVars
<1>3. QED
  BY <1>1, <1>2, PTL DEF MainSpec

\* The exit code tells what is on stdout, for every document and every way in
\* which reading and writing can fail.
THEOREM ExitCodeAlwaysTrue == MainSpec => []ExitCodeIsTrue
<1>1. RunInv => ExitCodeIsTrue
  BY DEF RunInv
<1>2. QED
  BY <1>1, RunInvariant, PTL

\* Only commands that need input read any.
THEOREM StdinAlwaysUntouched == MainSpec => []StdinUntouched
<1>1. RunInv => StdinUntouched
  BY DEF RunInv, StdinUntouched
<1>2. QED
  BY <1>1, RunInvariant, PTL

-----------------------------------------------------------------------------
(* The token file. *)

\* What is known of the token at each stage of ParseConfig.
TokenInv ==
  /\ handle \in File
  /\ stage \in {"lstat", "open", "stat", "read"} => inputs.file /\ ~Inline
  /\ stage = "read" => handle.kind = "regular"
  /\ stage = "validate" => ~(Inline /\ inputs.file)
  /\ stage = "validate" /\ inputs.file =>
       handle.kind = "regular" /\ token >= handle.size
  /\ TokenFileReadToItsEnd

\* Every step keeps what has been established about the token file.
LEMMA TokenStep ==
  ASSUME TokenInv, [UpstreamNext]_serveVars
  PROVE  TokenInv'
<1> USE DEF TokenInv, TokenFileReadToItsEnd, Inline
<1>1. CASE TokenInput
  BY <1>1 DEF TokenInput, Refuse, Proceed
<1>2. CASE LstatFile
  BY <1>2 DEF LstatFile, Refuse, Proceed
<1>3. CASE StatFile
  BY <1>3 DEF StatFile, Refuse, Proceed
<1>4. CASE ValidateFails
  BY <1>4 DEF ValidateFails, Refuse
<1>5. ASSUME NEW f \in File, ReplaceFile(f) PROVE TokenInv'
  BY <1>5 DEF ReplaceFile
<1>6. ASSUME NEW f \in File, OpenFile(f) PROVE TokenInv'
  BY <1>6 DEF OpenFile, Refuse
<1>7. ASSUME NEW n \in 0..MaxVaultToken + 2, ResizeFile(n) PROVE TokenInv'
  BY <1>7 DEF ResizeFile, File
<1>8. ASSUME NEW n \in 0..MaxVaultToken + 2, ReadSome(n) PROVE TokenInv'
  BY <1>8 DEF ReadSome
<1>9. CASE ReadEnds
  BY <1>9 DEF ReadEnds, Proceed
<1>10. CASE ReadFails
  BY <1>10 DEF ReadFails
<1>11. ASSUME NEW s \in Settings, NEW u \in URLs, Validate(s, u) PROVE TokenInv'
  BY <1>11 DEF Validate, ValidToken
<1>12. CASE NewClients
  BY <1>12, ConfigAssumption DEF NewClients, NoInputs, NoFile, File, Kind
<1>13. CASE UNCHANGED configVars
  BY <1>13 DEF configVars
<1>14. QED
  BY <1>1, <1>2, <1>3, <1>4, <1>5, <1>6, <1>7, <1>8, <1>9, <1>10, <1>11, <1>12,
     <1>13
     DEF UpstreamNext, ConfigNext, serveVars, ZeroBytes, DropToken, CloseIdle,
         ChangeAnswer, DropIdle, Begin, Reuse, Lookup, Send, Answered, CallFails,
         Dial, Connect, PassOver

\* The bridge never starts with the beginning of a token file or with what is not
\* a file, however the path is replaced and the file is written to meanwhile.
THEOREM TokenFileAlwaysReadToItsEnd == MainSpec => []TokenFileReadToItsEnd
<1>1. MainInit => TokenInv
  BY ConfigAssumption DEF MainInit, UpstreamInit, ConfigInit, TokenInv,
     TokenFileReadToItsEnd, NoFile, File, Kind
<1>2. TokenInv /\ [MainNext]_mainVars => TokenInv'
  <2>1. UNCHANGED serveVars => [UpstreamNext]_serveVars
    OBVIOUS
  <2>2. QED
    BY <2>1, TokenStep DEF MainNext, RunServe, RunCommand, mainVars
<1>3. TokenInv => TokenFileReadToItsEnd
  BY DEF TokenInv
<1>4. QED
  BY <1>1, <1>2, <1>3, PTL DEF MainSpec

-----------------------------------------------------------------------------
(* The settings. *)

\* The parts that two paths have in common.
Common(base, target) ==
  {n \in 0..Len(base) :
     n <= Len(target) /\ SubSeq(base, 1, n) = SubSeq(target, 1, n)}

\* filepath.Rel finds where two paths part: its CHOOSE has something to choose.
LEMMA PathsPart ==
  ASSUME NEW base \in Seq(PathPart), NEW target \in Seq(PathPart)
  PROVE  \E n \in Common(base, target) :
           n < Len(base) /\ n < Len(target) => base[n + 1] # target[n + 1]
<1> DEFINE C == Common(base, target)
           T == {m \in 0..Len(base) : Len(base) - m \in C}
<1>1. 0 \in C
  <2>1. SubSeq(base, 1, 0) = <<>> /\ SubSeq(target, 1, 0) = <<>>
    OBVIOUS
  <2>2. 0 \in 0..Len(base) /\ 0 <= Len(target)
    OBVIOUS
  <2>3. QED
    BY <2>1, <2>2 DEF Common
<1>2. T \in SUBSET Nat /\ T # {}
  <2>1. Len(base) \in T
    BY <1>1
  <2>2. QED
    BY <2>1
<1>3. PICK m \in T : \A n \in T : m <= n
  <2> HIDE DEF T
  <2>1. QED
    BY <1>2, LeastNatural
<1> DEFINE n == Len(base) - m
<1>4. n \in C /\ n \in 0..Len(base) /\ n <= Len(target)
      /\ SubSeq(base, 1, n) = SubSeq(target, 1, n)
  BY <1>3 DEF Common
<1>5. ASSUME n < Len(base), n < Len(target), base[n + 1] = target[n + 1]
      PROVE  FALSE
  <2>1. n + 1 \in 1..Len(base) /\ n + 1 \in 1..Len(target)
    BY <1>4, <1>5
  <2>2. SubSeq(base, 1, n + 1) = Append(SubSeq(base, 1, n), base[n + 1])
    BY <2>1
  <2>3. SubSeq(target, 1, n + 1) = Append(SubSeq(target, 1, n), target[n + 1])
    BY <2>1
  <2>4. n + 1 \in C
    BY <1>4, <1>5, <2>1, <2>2, <2>3 DEF Common
  <2>5. m - 1 \in T
    <3>1. m \in 0..Len(base) /\ m # 0 /\ Len(base) - (m - 1) = n + 1
      BY <1>3, <2>1
    <3>2. QED
      BY <2>4, <3>1
  <2>6. ~ (m <= m - 1)
    BY <1>3
  <2>7. QED
    BY <1>3, <2>5, <2>6
<1>6. QED
  BY <1>4, <1>5

\* A relative path that does not lead outside leads strictly below the root.
LEMMA NotOutsideIsBelow ==
  ASSUME NEW base \in Seq(PathPart), NEW target \in Seq(PathPart),
         ~Outside(Rel(base, target))
  PROVE  IsStrictPrefix(base, target)
<1> DEFINE P(n) ==
      /\ n <= Len(target) /\ SubSeq(base, 1, n) = SubSeq(target, 1, n)
      /\ n < Len(base) /\ n < Len(target) => base[n + 1] # target[n + 1]
    c == CHOOSE n \in 0..Len(base) : P(n)
    up == [i \in 1..Len(base) - c |-> ".."]
    down == SubSeq(target, c + 1, Len(target))
<1>1. c \in 0..Len(base) /\ P(c)
  <2>1. \E n \in 0..Len(base) : P(n)
    BY PathsPart DEF Common
  <2> HIDE DEF P
  <2>2. QED
    BY <2>1
<1>2. Rel(base, target) = up \o down
  BY DEF Rel
<1>3. /\ c \in Nat /\ c <= Len(target) /\ c <= Len(base)
      /\ SubSeq(base, 1, c) = SubSeq(target, 1, c)
  <2> HIDE DEF c
  <2>1. QED
    BY <1>1
<1> HIDE DEF c
<1>4. /\ up \in Seq({".."}) /\ Len(up) = Len(base) - c
      /\ down \in Seq(PathPart) /\ Len(down) = Len(target) - c
  <2>1. Len(base) - c \in Nat
    BY <1>3
  <2>2. up \in Seq({".."}) /\ Len(up) = Len(base) - c
    BY <2>1
  <2>3. down \in Seq(PathPart)
    BY <1>3
  <2>4. Len(down) = Len(target) - c
    BY <1>3
  <2>5. QED
    BY <2>2, <2>3, <2>4
<1>5. c = Len(base)
  <2> SUFFICES ASSUME c < Len(base) PROVE FALSE
    BY <1>3
  <2>1. up # <<>> /\ up[1] = ".."
    <3>1. 1 \in 1..Len(base) - c
      BY <1>3
    <3>2. up[1] = ".."
      BY <3>1
    <3>3. up \in Seq({".."}) /\ Len(up) > 0
      BY <1>3, <1>4
    <3> HIDE DEF up
    <3>4. QED
      BY <3>2, <3>3, EmptySeq
  <2>2. up \o down # <<>> /\ Head(up \o down) = ".."
    <3>1. up \in Seq({".."} \cup PathPart) /\ down \in Seq({".."} \cup PathPart)
          /\ Len(up) >= 1
      BY <1>3, <1>4
    <3> HIDE DEF up, down
    <3>2. QED
      BY <2>1, <3>1
  <2>3. QED
    BY <1>2, <2>2 DEF Outside
<1>6. Len(target) # Len(base)
  <2> SUFFICES ASSUME Len(target) = Len(base) PROVE FALSE
    OBVIOUS
  <2>1. up = <<>> /\ down = <<>>
    BY <1>4, <1>5
  <2> HIDE DEF up, down
  <2>2. up \o down = <<>>
    BY <2>1
  <2>3. QED
    BY <1>2, <2>2 DEF Outside
<1>7. QED
  BY <1>3, <1>5, <1>6 DEF IsStrictPrefix, IsPrefix

\* What was validated is what the bridge starts with.
SettingsInv == stage = "started" => settings \in Settings /\ ValidSettings(settings)

\* Only validation lets the bridge start.
LEMMA SettingsStep ==
  ASSUME SettingsInv, [UpstreamNext]_serveVars
  PROVE  SettingsInv'
<1> USE DEF SettingsInv
<1>1. ASSUME NEW s \in Settings, NEW u \in URLs, Validate(s, u)
      PROVE  SettingsInv'
  BY <1>1 DEF Validate, ValidSettings
<1>2. CASE stage' # "started"
  BY <1>2
<1>3. CASE UNCHANGED configVars
  BY <1>3 DEF configVars
<1>4. ASSUME ConfigNext PROVE SettingsInv'
  BY <1>1, <1>2, <1>4 DEF ConfigNext, TokenInput, LstatFile, StatFile,
     ValidateFails, ReplaceFile, OpenFile, ResizeFile, ReadSome, ReadEnds, ReadFails,
     Refuse, Proceed
<1>5. QED
  BY <1>2, <1>3, <1>4
     DEF UpstreamNext, serveVars, NewClients, ZeroBytes, DropToken, CloseIdle,
         ChangeAnswer, DropIdle, Begin, Reuse, Lookup, Send, Answered, CallFails,
         Dial, Connect, PassOver

\* Valid settings are those that were asked for.
LEMMA ValidIsAsked ==
  ASSUME NEW s \in Settings, ValidSettings(s)
  PROVE  /\ s.ttlEnv = Malformed => s.ttlFlag # Unset
         /\ s.wrapEnv = Malformed => s.wrapFlag # Unset
         /\ MinWrapTTL <= WrapTTL(s) /\ WrapTTL(s) <= TokenTTL(s)
         /\ TokenTTL(s) <= MaxTokenTTL
         /\ IsStrictPrefix(StateRoot, StatePath(s))
<1>1. /\ TokenTTL(s) \in MinTokenTTL..MaxTokenTTL
      /\ WrapTTL(s) \in MinWrapTTL..MaxWrapTTL
      /\ WrapTTL(s) <= TokenTTL(s)
      /\ ~Outside(Rel(StateRoot, StatePath(s)))
  BY DEF ValidSettings, ValidLimits, ValidStatePath
<1>2. TokenTTL(s) # 0 /\ WrapTTL(s) # 0
  BY <1>1, ConfigAssumption
<1>3. s.ttlEnv = Malformed => s.ttlFlag # Unset
  BY <1>2, ConfigAssumption DEF TokenTTL, DurationEnv
<1>4. s.wrapEnv = Malformed => s.wrapFlag # Unset
  BY <1>2, ConfigAssumption DEF WrapTTL, DurationEnv
<1>5. StatePath(s) \in Seq(PathPart)
  <2>1. s.path \in {Unset} \cup UNION {[1..n -> PathPart] : n \in 1..MaxPathParts}
    BY DEF Settings
  <2>2. CASE s.path = Unset
    BY <2>2, ConfigAssumption DEF StatePath
  <2>3. CASE s.path # Unset
    <3>1. PICK n \in 1..MaxPathParts : s.path \in [1..n -> PathPart]
      BY <2>1, <2>3
    <3>2. n \in Nat /\ StatePath(s) = s.path
      BY <2>3, ConfigAssumption DEF StatePath
    <3>3. QED
      BY <3>1, <3>2
  <2>4. QED
    BY <2>2, <2>3
<1>6. StateRoot \in Seq(PathPart)
  BY ConfigAssumption
<1>7. IsStrictPrefix(StateRoot, StatePath(s))
  BY <1>1, <1>5, <1>6, NotOutsideIsBelow
<1>8. QED
  BY <1>1, <1>3, <1>4, <1>7, ConfigAssumption

\* The bridge starts only with what was asked for, for all settings, limits and
\* paths.
THEOREM AlwaysStartsAsAsked == MainSpec => []StartsAsAsked
<1>1. MainInit => SettingsInv
  BY DEF MainInit, UpstreamInit, ConfigInit, SettingsInv
<1>2. SettingsInv /\ [MainNext]_mainVars => SettingsInv'
  <2>1. UNCHANGED serveVars => [UpstreamNext]_serveVars
    OBVIOUS
  <2>2. QED
    BY <2>1, SettingsStep DEF MainNext, RunServe, RunCommand, mainVars
<1>3. SettingsInv => StartsAsAsked
  BY ValidIsAsked DEF SettingsInv, StartsAsAsked
<1>4. QED
  BY <1>1, <1>2, <1>3, PTL DEF MainSpec

-----------------------------------------------------------------------------
(* Type correctness, and with it the bound on the nesting. *)

\* Taking a token leaves the input alone.
LEMMA TakeType ==
  ASSUME JSONTypeOK, NEW t \in Token, Take(t)
  PROVE  /\ doc' \in Seq(Token)
         /\ UNCHANGED <<size, clean, taken>>
  BY DEF JSONTypeOK, Take, inputVars

\* The innermost frame may be replaced by another.
LEMMA TopType ==
  ASSUME NEW s \in Seq(Frame), s # <<>>, NEW f \in Frame
  PROVE  /\ [s EXCEPT ![Len(s)] = f] \in Seq(Frame)
         /\ Len([s EXCEPT ![Len(s)] = f]) = Len(s)
         /\ s[Len(s)] \in Frame
  OBVIOUS

\* When a call returns, its frame is taken off.
LEMMA FrontType ==
  ASSUME NEW s \in Seq(Frame), s # <<>>
  PROVE  /\ Front(s) \in Seq(Frame)
         /\ Len(Front(s)) = Len(s) - 1
         /\ \A i \in 1..Len(s) - 1 : Front(s)[i] = s[i]
<1>1. Len(s) \in Nat /\ Len(s) # 0
  OBVIOUS
<1>2. Front(s) = SubSeq(s, 1, Len(s) - 1)
  BY DEF Front
<1>3. \A i \in 1..Len(s) - 1 : s[i] \in Frame
  BY <1>1
<1>4. 1 \in Int /\ Len(s) - 1 \in Int
  BY <1>1
<1>5. Front(s) \in Seq(Frame)
  BY <1>2, <1>3, <1>4, SubSeqProperties
<1>6. Len(Front(s)) = Len(s) - 1
  <2> DEFINE n == Len(s) - 1
  <2>1. Front(s) = SubSeq(s, 1, n) /\ n \in Nat /\ \A i \in 1..n : s[i] \in Frame
    BY <1>1, <1>2, <1>3
  <2> HIDE DEF n
  <2>2. Len(Front(s)) = IF 1 <= n THEN n - 1 + 1 ELSE 0
    BY <2>1, SubSeqProperties
  <2>3. (IF 1 <= n THEN n - 1 + 1 ELSE 0) = n
    BY <2>1
  <2>4. Len(Front(s)) = n
    BY <2>2, <2>3
  <2>5. QED
    BY <2>4 DEF n
<1>7. \A i \in 1..Len(s) - 1 : Front(s)[i] = s[i]
  BY <1>1, <1>2
<1>8. QED
  BY <1>5, <1>6, <1>7

\* The value that a call returns is recorded in the frame below it.
LEMMA ReturnType ==
  ASSUME NEW frames \in Seq(Frame), Len(frames) <= MaxDepth, Return(frames)
  PROVE  /\ open' \in Seq(Frame) /\ Len(open') <= MaxDepth
         /\ verdict' \in {"end", "value"}
<1>1. CASE frames = <<>>
  BY <1>1 DEF Return
<1>2. CASE frames # <<>>
  <2> DEFINE top == [frames[Len(frames)] EXCEPT
                       !.next = First(frames[Len(frames)].bracket)]
  <2>1. frames[Len(frames)] \in Frame
    BY <1>2
  <2>2. top \in Frame
    BY <2>1 DEF Frame, First
  <2>3. open' = [frames EXCEPT ![Len(frames)] = top]
    BY <1>2 DEF Return, Last
  <2>4. open' \in Seq(Frame) /\ Len(open') = Len(frames)
    BY <1>2, <2>2, <2>3, TopType
  <2>5. QED
    BY <1>2, <2>4 DEF Return
<1>3. QED
  BY <1>1, <1>2

\* Each call of parseToken nests at most one level deeper, and TooDeep stops it.
LEMMA ParseType ==
  ASSUME JSONTypeOK, Parse
  PROVE  JSONTypeOK'
<1>n. MaxDepth \in Nat /\ MaxInputBytes \in Nat
  BY StrictJSONAssumption
<1> DEFINE InputType == /\ size' \in 0..MaxInputBytes + 2
                        /\ clean' \in BOOLEAN
                        /\ taken' \in 0..MaxInputBytes + 1
           StackType == open' \in Seq(Frame) /\ Len(open') <= MaxDepth
           VerdictType == verdict' \in {"unread", "value", "end", "accepted",
                                        "rejected"}
<1>0. Scalars \subseteq Token /\ Values \subseteq Token /\ Brackets \subseteq Token
      /\ Ends \subseteq Token /\ "error" \in Token /\ Name \subseteq Token
  BY DEF Token, Values
<1>a. /\ size \in 0..MaxInputBytes + 2 /\ doc \in Seq(Token)
      /\ open \in Seq(Frame) /\ Len(open) <= MaxDepth
  BY DEF JSONTypeOK
<1>b. Len(open) \in Nat
  BY <1>a
<1>1. ASSUME NEW t \in Token, Take(t) PROVE InputType /\ doc' \in Seq(Token)
  BY <1>1, TakeType DEF JSONTypeOK
<1>2. ASSUME Reject PROVE StackType /\ VerdictType
  BY <1>2 DEF Reject, JSONTypeOK
<1>3. InputType /\ StackType /\ VerdictType /\ doc' \in Seq(Token) => JSONTypeOK'
  BY DEF JSONTypeOK
<1> HIDE DEF InputType, StackType, VerdictType
<1>4. CASE ReadAll
  <2>1. InputType /\ doc' \in Seq(Token)
    <3>1. clean' \in BOOLEAN
      BY <1>4 DEF ReadAll, JSONTypeOK
    <3>2. size' \in 0..MaxInputBytes + 2 /\ taken' \in 0..MaxInputBytes + 1
          /\ doc' \in Seq(Token)
      <4>1. /\ size' = size /\ doc' = doc
            /\ taken' = IF size > MaxInputBytes THEN MaxInputBytes + 1 ELSE size
        BY <1>4 DEF ReadAll
      <4>2. QED
        BY <1>a, <1>n, <4>1
    <3>3. QED
      BY <3>1, <3>2 DEF InputType
  <2>2. CASE Reject
    BY <1>2, <1>3, <2>1, <2>2
  <2>3. CASE verdict' = "value" /\ UNCHANGED open
    <3>1. StackType /\ VerdictType
      BY <2>3 DEF StackType, VerdictType, JSONTypeOK
    <3>2. QED
      BY <1>3, <2>1, <3>1
  <2>4. QED
    BY <1>4, <2>2, <2>3 DEF ReadAll
<1>5. CASE PlainValue
  <2>1. Take("plain") /\ Return(open) /\ "plain" \in Token
    BY <1>5, <1>0 DEF PlainValue, Scalars
  <2>2. StackType /\ VerdictType
    BY <2>1, ReturnType DEF JSONTypeOK, StackType, VerdictType
  <2>3. QED
    BY <1>1, <1>3, <2>1, <2>2
<1>6. CASE EndOfInput
  <2>1. InputType /\ doc' \in Seq(Token)
    BY <1>6 DEF EndOfInput, JSONTypeOK, inputVars, InputType
  <2>2. StackType /\ VerdictType
    BY <1>6 DEF EndOfInput, JSONTypeOK, StackType, VerdictType
  <2>3. QED
    BY <1>3, <2>1, <2>2
<1>7. CASE DecoderFails
  BY <1>0, <1>1, <1>2, <1>3, <1>7 DEF DecoderFails
<1>8. ASSUME NEW t \in Brackets, BeginValue(t) PROVE JSONTypeOK'
  <2>1. [bracket |-> t, keys |-> {}, next |-> First(t)] \in Frame
    BY DEF Frame, First
  <2>2. open' = Append(open, [bracket |-> t, keys |-> {}, next |-> First(t)])
        /\ Len(open) + 1 <= MaxDepth /\ verdict' = "value"
    BY <1>8, <1>b, <1>n DEF BeginValue, TooDeep, ExpectsValue
  <2>4. StackType /\ VerdictType
    BY <1>a, <1>b, <1>n, <2>1, <2>2 DEF StackType, VerdictType
  <2>3. QED
    BY <1>0, <1>1, <1>3, <1>8, <2>4 DEF BeginValue
<1>9. ASSUME NEW t \in Values, RefusedValue(t) \/ TrailingToken(t) PROVE JSONTypeOK'
  BY <1>0, <1>1, <1>2, <1>3, <1>9 DEF RefusedValue, TrailingToken
<1>10. ASSUME NEW t \in Ends, EndValue(t) PROVE JSONTypeOK'
  <2>1. Take(t) /\ Return(Front(open)) /\ t \in Token /\ open # <<>>
    BY <1>0, <1>10 DEF EndValue
  <2>2. Front(open) \in Seq(Frame) /\ Len(Front(open)) <= MaxDepth
    <3>1. Front(open) \in Seq(Frame) /\ Len(Front(open)) <= Len(open)
      BY <1>a, <2>1, FrontType
    <3>2. Len(Front(open)) \in Nat
      BY <3>1
    <3>3. QED
      BY <1>a, <1>b, <1>n, <3>1, <3>2
  <2>3. StackType /\ VerdictType
    BY <2>1, <2>2, ReturnType DEF StackType, VerdictType
  <2>4. QED
    BY <1>1, <1>3, <2>1, <2>3
<1>11. ASSUME NEW k \in Name, NewKey(k) PROVE JSONTypeOK'
  <2> DEFINE top == [open[Len(open)] EXCEPT !.keys = @ \cup {k}, !.next = "value"]
  <2>1. open # <<>> /\ open[Len(open)] \in Frame
    BY <1>11, <1>a DEF NewKey, ExpectsKey
  <2>2. top \in Frame
    BY <2>1 DEF Frame
  <2>3. open' = [open EXCEPT ![Len(open)] = top]
    BY <1>11, <2>1 DEF NewKey, JSONTypeOK
  <2>4. StackType /\ VerdictType
    BY <1>11, <2>1, <2>2, <2>3, TopType DEF JSONTypeOK, NewKey, StackType, VerdictType
  <2>5. QED
    BY <1>0, <1>1, <1>3, <1>11, <2>4 DEF NewKey
<1>12. ASSUME NEW k \in Name, DuplicateKey(k) PROVE JSONTypeOK'
  BY <1>0, <1>1, <1>2, <1>3, <1>12 DEF DuplicateKey
<1>13. QED
  BY <1>4, <1>5, <1>6, <1>7, <1>8, <1>9, <1>10, <1>11, <1>12 DEF Parse

\* The command line keeps its types.
LEMMA CommandType ==
  ASSUME JSONTypeOK, CommandTypeOK, CommandNext
  PROVE  JSONTypeOK' /\ CommandTypeOK'
<1>1. usage' \in BOOLEAN
  BY DEF CommandNext, RefuseUsage, Dispatch, ParseStep, InputAccepted, InputRefused,
     WriteOutput, WriteError, Fail, argVars, commandVars, CommandTypeOK
<1>2. CommandTypeOK'
  BY <1>1 DEF CommandNext, RefuseUsage, Dispatch, ParseStep, InputAccepted,
     InputRefused, WriteOutput, WriteError, Fail, argVars, outVars, commandVars,
     CommandTypeOK, ChooseLocale, Written, Locales
<1>3. CASE ParseStep
  BY <1>2, <1>3, ParseType DEF ParseStep
<1>4. CASE UNCHANGED jsonVars
  BY <1>2, <1>4 DEF JSONTypeOK, jsonVars, inputVars
<1>5. QED
  BY <1>3, <1>4 DEF CommandNext, RefuseUsage, Dispatch, InputAccepted, InputRefused,
     WriteOutput, WriteError

\* The configuration keeps its types.
LEMMA ConfigType ==
  ASSUME ConfigTypeOK, ConfigNext
  PROVE  ConfigTypeOK'
<1> USE ConfigAssumption DEF ConfigTypeOK
<1>1. CASE TokenInput
  BY <1>1 DEF TokenInput, Refuse, Proceed
<1>2. CASE LstatFile
  BY <1>2 DEF LstatFile, Refuse, Proceed
<1>3. CASE StatFile
  BY <1>3 DEF StatFile, Refuse, Proceed
<1>4. CASE ValidateFails
  BY <1>4 DEF ValidateFails, Refuse
<1>5. ASSUME NEW f \in File, ReplaceFile(f) PROVE ConfigTypeOK'
  BY <1>5 DEF ReplaceFile
<1>6. ASSUME NEW f \in File, OpenFile(f) PROVE ConfigTypeOK'
  BY <1>6 DEF OpenFile, Refuse
<1>7. ASSUME NEW n \in 0..MaxVaultToken + 2, ResizeFile(n) PROVE ConfigTypeOK'
  <2>1. handle' \in File
    BY <1>7 DEF ResizeFile, File
  <2>2. QED
    BY <1>7, <2>1 DEF ResizeFile
<1>8. ASSUME NEW n \in 0..MaxVaultToken + 2, ReadSome(n) PROVE ConfigTypeOK'
  <2>1. token' \in 0..MaxVaultToken + 1
    BY <1>8 DEF ReadSome
  <2>2. QED
    BY <1>8, <2>1 DEF ReadSome
<1>9. CASE ReadEnds
  BY <1>9 DEF ReadEnds, Proceed
<1>10. CASE ReadFails
  BY <1>10 DEF ReadFails
<1>11. ASSUME NEW s \in Settings, NEW u \in URLs, Validate(s, u) PROVE ConfigTypeOK'
  BY <1>11 DEF Validate
<1>12. QED
  BY <1>1, <1>2, <1>3, <1>4, <1>5, <1>6, <1>7, <1>8, <1>9, <1>10, <1>11
     DEF ConfigNext

\* The clients keep their types.
LEMMA UpstreamType ==
  ASSUME UpstreamTypeOK, ClientInv, UpstreamNext
  PROVE  UpstreamTypeOK'
<1> USE DEF UpstreamTypeOK, callVars
<1>1. CASE ConfigNext /\ UNCHANGED upstreamVars
  BY <1>1, ConfigType DEF upstreamVars
<1>2. CASE NewClients
  <2>1. NoInputs \in Inputs /\ NoFile \in File /\ 0 \in 0..MaxVaultToken + 1
    BY ConfigAssumption DEF NoInputs, Inputs, NoFile, File, Kind
  <2>2. QED
    BY <1>2, <2>1 DEF NewClients, upstreamVars, ConfigTypeOK
<1>3. CASE UNCHANGED configVars
  <2>1. ConfigTypeOK'
    BY <1>3 DEF ConfigTypeOK, configVars
  <2>2. ASSUME NEW c \in Call, Send(c) PROVE UpstreamTypeOK'
    <3>1. conn[c] \in Address /\ carried[c] \in Secret
      BY <2>2 DEF Send, ClientInv, CallTypes
    <3>2. QED
      BY <2>1, <2>2, <3>1 DEF Send
  <2>3. ASSUME NEW c \in Call, Answered(c) PROVE UpstreamTypeOK'
    <3>1. conn[c] \in Address
      BY <2>3 DEF Answered, ClientInv, CallTypes
    <3>2. QED
      BY <2>1, <2>3, <3>1 DEF Answered, EndCall, Secret
  <2>4. ASSUME NEW c \in Call, Begin(c) \/ Reuse(c) \/ Lookup(c) PROVE UpstreamTypeOK'
    BY <2>1, <2>4 DEF Begin, Reuse, Lookup
  <2>5. ASSUME NEW c \in Call, CallFails(c) PROVE UpstreamTypeOK'
    BY <2>1, <2>5 DEF CallFails, EndCall, Secret
  <2>6. ASSUME NEW c \in Call, NEW a \in Address, Dial(c, a) \/ PassOver(c, a)
        PROVE  UpstreamTypeOK'
    BY <2>1, <2>6 DEF Dial, Connect, PassOver
  <2>7. CASE \/ ZeroBytes \/ DropToken \/ CloseIdle
            \/ \E addresses \in SUBSET Address : ChangeAnswer(addresses)
            \/ \E a \in Address : DropIdle(a)
    BY <2>1, <2>7 DEF ZeroBytes, DropToken, CloseIdle, ChangeAnswer, DropIdle, Secret
  <2>8. CASE ConfigNext /\ UNCHANGED upstreamVars
    BY <1>1, <2>8
  <2>9. CASE NewClients
    BY <1>2, <2>9
  <2>10. QED
    BY <2>2, <2>3, <2>4, <2>5, <2>6, <2>7, <2>8, <2>9 DEF UpstreamNext
<1>4. QED
  BY <1>1, <1>2, <1>3 DEF UpstreamNext, ZeroBytes, DropToken, CloseIdle, ChangeAnswer,
     DropIdle, Begin, Reuse, Lookup, Send, Answered, CallFails, Dial, Connect, PassOver

\* Type correctness of the whole program; in particular parseToken never nests
\* deeper than MaxDepth, for documents of any length.
THEOREM MainTypeCorrect == MainSpec => []MainTypeOK
<1>1. MainInit => MainTypeOK
  <2>1. MainInit => JSONTypeOK
    BY StrictJSONAssumption DEF MainInit, JSONInit, JSONTypeOK
  <2>2. MainInit => CommandTypeOK
    BY DEF MainInit, CommandInit, CommandTypeOK, Written, Locales
  <2>3. NoInputs \in Inputs /\ NoFile \in File /\ 0 \in 0..MaxVaultToken + 1
    BY ConfigAssumption DEF NoInputs, Inputs, NoFile, File, Kind
  <2>4. MainInit => UpstreamTypeOK
    BY <2>3 DEF MainInit, UpstreamInit, ConfigInit, UpstreamTypeOK, ConfigTypeOK, Secret
  <2>5. QED
    BY <2>1, <2>2, <2>4 DEF MainInit, MainTypeOK
<1>2. MainTypeOK /\ ClientInv /\ [MainNext]_mainVars => MainTypeOK'
  <2> SUFFICES ASSUME MainTypeOK, ClientInv, [MainNext]_mainVars PROVE MainTypeOK'
    OBVIOUS
  <2>1. ASSUME UNCHANGED <<jsonVars, commandVars>>
        PROVE  JSONTypeOK' /\ CommandTypeOK'
    BY <2>1 DEF MainTypeOK, JSONTypeOK, CommandTypeOK, jsonVars, inputVars,
       commandVars, argVars, outVars
  <2>2. ASSUME UNCHANGED serveVars PROVE UpstreamTypeOK'
    BY <2>2 DEF MainTypeOK, UpstreamTypeOK, ConfigTypeOK, serveVars, configVars,
       upstreamVars, callVars
  <2>3. CASE RunServe /\ UNCHANGED program
    BY <2>1, <2>3, UpstreamType DEF RunServe, MainTypeOK
  <2>4. CASE RunCommand /\ UNCHANGED program
    BY <2>2, <2>4, CommandType DEF RunCommand, MainTypeOK
  <2>5. CASE UNCHANGED mainVars
    BY <2>1, <2>2, <2>5 DEF mainVars, MainTypeOK
  <2>6. QED
    BY <2>3, <2>4, <2>5 DEF MainNext
<1>3. QED
  BY <1>1, <1>2, ClientInvariant, PTL DEF MainSpec

-----------------------------------------------------------------------------
(* Documents. *)

Before(s, K, i) == {j \in 1..i - 1 : s[j] \in K}

\* Level, for any sequence of tokens.
Nesting(s, i) == Cardinality(Before(s, Brackets, i)) - Cardinality(Before(s, Ends, i))

\* The keys so far of the object that the tokens leave open at depth d.
KeysAt(s, d) ==
  {s[i] : i \in {j \in 1..Len(s) : /\ s[j] \in Name /\ Nesting(s, j) = d
                                   /\ \A n \in j..Len(s) + 1 : Nesting(s, n) >= d}}

\* Admissible, for any sequence of tokens.
Fitting(s) ==
  /\ \A i \in 1..Len(s) : /\ s[i] \notin {"refused", "error"}
                          /\ s[i] \in Values => Nesting(s, i) < MaxDepth
                          /\ i > 1 => Nesting(s, i) > 0
  /\ \A i, j \in 1..Len(s) :
       /\ i < j /\ s[i] \in Name /\ Nesting(s, i) = Nesting(s, j)
       /\ \A n \in i..j : Nesting(s, n) >= Nesting(s, i)
       => s[i] # s[j]

\* One token more counts at most once.
LEMMA CountNext ==
  ASSUME NEW s, NEW K, NEW i \in Nat \ {0}
  PROVE  /\ Cardinality(Before(s, K, i)) \in Nat
         /\ s[i] \in K => Cardinality(Before(s, K, i + 1))
                            = Cardinality(Before(s, K, i)) + 1
         /\ s[i] \notin K => Cardinality(Before(s, K, i + 1))
                               = Cardinality(Before(s, K, i))
<1>1. IsFiniteSet(Before(s, K, i))
  <2>1. IsFiniteSet(1..i - 1)
    BY FS_Interval
  <2>2. Before(s, K, i) \subseteq 1..i - 1
    BY DEF Before
  <2>3. QED
    BY <2>1, <2>2, FS_Subset
<1>2. Cardinality(Before(s, K, i)) \in Nat
  BY <1>1, FS_CardinalityType
<1>3. s[i] \in K => Before(s, K, i + 1) = Before(s, K, i) \cup {i}
  BY DEF Before
<1>4. s[i] \notin K => Before(s, K, i + 1) = Before(s, K, i)
  BY DEF Before
<1>5. i \notin Before(s, K, i)
  BY DEF Before
<1>6. Cardinality(Before(s, K, i) \cup {i}) = Cardinality(Before(s, K, i)) + 1
  BY <1>1, <1>5, FS_AddElement
<1>7. QED
  BY <1>2, <1>3, <1>4, <1>6

\* A bracket goes one level in, its end one level out.
LEMMA NestingNext ==
  ASSUME NEW s, NEW i \in Nat \ {0}
  PROVE  /\ Nesting(s, i) \in Int
         /\ s[i] \in Brackets => Nesting(s, i + 1) = Nesting(s, i) + 1
         /\ s[i] \in Ends => Nesting(s, i + 1) = Nesting(s, i) - 1
         /\ s[i] \notin Brackets \cup Ends => Nesting(s, i + 1) = Nesting(s, i)
<1>1. s[i] \in Brackets => s[i] \notin Ends
  BY DEF Brackets, Ends
<1>2. QED
  BY <1>1, CountNext DEF Nesting

\* Nothing is nested at the beginning.
LEMMA NestingFirst ==
  ASSUME NEW s
  PROVE  Nesting(s, 1) = 0
<1>1. Before(s, Brackets, 1) = {} /\ Before(s, Ends, 1) = {}
  BY DEF Before
<1>2. QED
  BY <1>1, FS_EmptySet DEF Nesting

\* What follows does not change how deep a token is nested.
LEMMA NestingKept ==
  ASSUME NEW s \in Seq(Token), NEW t \in Token, NEW i \in 1..Len(s) + 1
  PROVE  Nesting(Append(s, t), i) = Nesting(s, i)
<1>1. \A j \in 1..i - 1 : Append(s, t)[j] = s[j]
  OBVIOUS
<1>2. /\ Before(Append(s, t), Brackets, i) = Before(s, Brackets, i)
      /\ Before(Append(s, t), Ends, i) = Before(s, Ends, i)
  BY <1>1 DEF Before
<1>3. QED
  BY <1>2 DEF Nesting

\* A key is added to the object it is in, and one that ends loses its keys.
LEMMA KeysGrow ==
  ASSUME NEW s \in Seq(Token), NEW t \in Token, NEW d \in Nat
  PROVE  /\ Nesting(Append(s, t), Len(s) + 2) < d => KeysAt(Append(s, t), d) = {}
         /\ Nesting(Append(s, t), Len(s) + 2) >= d =>
              KeysAt(Append(s, t), d) =
                KeysAt(s, d) \cup {k \in {t} : k \in Name /\ Nesting(s, Len(s) + 1) = d}
<1> DEFINE u == Append(s, t)
    P(v, i) == /\ v[i] \in Name /\ Nesting(v, i) = d
               /\ \A n \in i..Len(v) + 1 : Nesting(v, n) >= d
<1>1. Len(s) \in Nat /\ Len(u) = Len(s) + 1 /\ u[Len(s) + 1] = t
      /\ \A i \in 1..Len(s) : u[i] = s[i]
  OBVIOUS
<1>2. \A i \in 1..Len(s) + 1 : Nesting(u, i) = Nesting(s, i)
  BY NestingKept
<1>3. \A i \in 1..Len(s) + 2 : Nesting(u, i) \in Int
  BY <1>1, NestingNext
<1>4. \A k : k \in KeysAt(s, d) <=> \E i \in 1..Len(s) : P(s, i) /\ s[i] = k
  BY DEF KeysAt
<1>5. \A k : k \in KeysAt(u, d) <=> \E i \in 1..Len(u) : P(u, i) /\ u[i] = k
  BY DEF KeysAt
<1> HIDE DEF u
<1>6. ASSUME NEW i \in 1..Len(s), Nesting(u, Len(s) + 2) >= d
      PROVE  P(u, i) <=> P(s, i)
  <2>1. ASSUME P(s, i), NEW n \in i..Len(u) + 1 PROVE Nesting(u, n) >= d
    BY <1>1, <1>2, <1>6, <2>1
  <2>2. ASSUME P(u, i), NEW n \in i..Len(s) + 1 PROVE Nesting(s, n) >= d
    BY <1>1, <1>2, <2>2
  <2>3. QED
    BY <1>1, <1>2, <2>1, <2>2
<1>7. Nesting(u, Len(s) + 2) >= d =>
        (P(u, Len(s) + 1) <=> t \in Name /\ Nesting(s, Len(s) + 1) = d)
  BY <1>1, <1>2
<1>8. ASSUME Nesting(u, Len(s) + 2) < d, NEW i \in 1..Len(u) PROVE ~P(u, i)
  BY <1>1, <1>3, <1>8
<1> HIDE DEF P
<1>9. Nesting(u, Len(s) + 2) < d => KeysAt(u, d) = {}
  BY <1>5, <1>8
<1>10. Nesting(u, Len(s) + 2) >= d =>
         KeysAt(u, d) =
           KeysAt(s, d) \cup {k \in {t} : k \in Name /\ Nesting(s, Len(s) + 1) = d}
  <2> SUFFICES ASSUME Nesting(u, Len(s) + 2) >= d, NEW k
               PROVE  k \in KeysAt(u, d) <=>
                        \/ k \in KeysAt(s, d)
                        \/ k = t /\ t \in Name /\ Nesting(s, Len(s) + 1) = d
    OBVIOUS
  <2>1. k \in KeysAt(u, d) <=> \/ \E i \in 1..Len(s) : P(u, i) /\ u[i] = k
                               \/ P(u, Len(s) + 1) /\ t = k
    BY <1>1, <1>5
  <2>2. (\E i \in 1..Len(s) : P(u, i) /\ u[i] = k) <=> k \in KeysAt(s, d)
    BY <1>1, <1>4, <1>6
  <2>3. QED
    BY <1>7, <2>1, <2>2
<1>11. QED
  BY <1>9, <1>10 DEF u

\* What makes the next token acceptable.
LEMMA FittingGrows ==
  ASSUME NEW s \in Seq(Token), NEW t \in Token, Fitting(s)
  PROVE  Fitting(Append(s, t)) <=>
           /\ t \notin {"refused", "error"}
           /\ t \in Values => Nesting(s, Len(s) + 1) < MaxDepth
           /\ s # <<>> => Nesting(s, Len(s) + 1) > 0
           /\ t \notin KeysAt(s, Nesting(s, Len(s) + 1))
<1> DEFINE u == Append(s, t)
    last == Len(s) + 1
    Good(v, i) == /\ v[i] \notin {"refused", "error"}
                  /\ v[i] \in Values => Nesting(v, i) < MaxDepth
                  /\ i > 1 => Nesting(v, i) > 0
    Same(v, i, j) == /\ i < j /\ v[i] \in Name /\ Nesting(v, i) = Nesting(v, j)
                     /\ \A n \in i..j : Nesting(v, n) >= Nesting(v, i)
<1>1. Len(s) \in Nat /\ Len(u) = last /\ u[last] = t
      /\ (s # <<>> <=> last > 1) /\ \A i \in 1..Len(s) : u[i] = s[i]
  OBVIOUS
<1>2. \A i \in 1..last : Nesting(u, i) = Nesting(s, i)
  BY NestingKept
<1>3. \A v : Fitting(v) <=> /\ \A i \in 1..Len(v) : Good(v, i)
                            /\ \A i, j \in 1..Len(v) : Same(v, i, j) => v[i] # v[j]
  BY DEF Fitting
<1> HIDE DEF u
<1>4. \A i \in 1..Len(s) : Good(u, i) <=> Good(s, i)
  BY <1>1, <1>2
<1>5. Good(u, last) <=> /\ t \notin {"refused", "error"}
                        /\ t \in Values => Nesting(s, last) < MaxDepth
                        /\ s # <<>> => Nesting(s, last) > 0
  BY <1>1, <1>2
<1>6. ASSUME NEW i \in 1..Len(s), NEW j \in 1..Len(s)
      PROVE  Same(u, i, j) <=> Same(s, i, j)
  BY <1>1, <1>2
<1>7. ASSUME NEW i \in 1..Len(u) PROVE ~Same(u, last, i)
  BY <1>1
<1>8. t \in KeysAt(s, Nesting(s, last)) <=>
        \E i \in 1..Len(s) : Same(u, i, last) /\ u[i] = t
  <2>1. t \in KeysAt(s, Nesting(s, last)) <=>
          \E i \in 1..Len(s) : /\ s[i] \in Name /\ Nesting(s, i) = Nesting(s, last)
                               /\ \A n \in i..last : Nesting(s, n) >= Nesting(s, last)
                               /\ s[i] = t
    BY DEF KeysAt
  <2>2. \A i \in 1..Len(s) :
          Same(u, i, last) <=>
            /\ s[i] \in Name /\ Nesting(s, i) = Nesting(s, last)
            /\ \A n \in i..last : Nesting(s, n) >= Nesting(s, last)
    BY <1>1, <1>2
  <2>3. QED
    BY <1>1, <2>1, <2>2
<1> HIDE DEF Good, Same
<1>9. (\A i \in 1..Len(u) : Good(u, i)) <=> Good(u, last)
  BY <1>1, <1>3, <1>4
<1>10. (\A i, j \in 1..Len(u) : Same(u, i, j) => u[i] # u[j]) <=>
         t \notin KeysAt(s, Nesting(s, last))
  BY <1>1, <1>3, <1>6, <1>7, <1>8
<1>11. QED
  BY <1>3, <1>5, <1>9, <1>10 DEF u

\* The calls of parseToken stand where the tokens say, and each knows the keys
\* of its own object.
StackFits ==
  /\ Nesting(doc, Len(doc) + 1) = Len(open)
  /\ \A d \in 1..Len(open) : open[d].keys = KeysAt(doc, d)
  /\ verdict = "value" => doc = <<>> \/ open # <<>>
  /\ verdict # "value" => doc # <<>> /\ open = <<>>

ReadWhole == clean /\ taken = size /\ size \in 1..MaxInputBytes

DocumentInv ==
  /\ verdict = "unread" => doc = <<>> /\ open = <<>>
  /\ verdict \in {"value", "end", "accepted"} => ReadWhole /\ Fitting(doc) /\ StackFits
  /\ verdict = "rejected" => ~clean \/ size \notin 1..MaxInputBytes \/ ~Fitting(doc)

\* A call that returns leaves the keys of the others alone.
LEMMA ReturnKeeps ==
  ASSUME NEW frames \in Seq(Frame), Return(frames)
  PROVE  /\ Len(open') = Len(frames)
         /\ \A d \in 1..Len(frames) : open'[d].keys = frames[d].keys
         /\ \/ verdict' = "value" /\ open' # <<>>
            \/ verdict' = "end" /\ open' = <<>>
<1>1. CASE frames = <<>>
  BY <1>1 DEF Return
<1>2. CASE frames # <<>>
  <2>1. open' = [frames EXCEPT ![Len(frames)].next = First(Last(frames).bracket)]
        /\ verdict' = "value"
    BY <1>2 DEF Return
  <2>2. \A d \in 1..Len(frames) : frames[d] \in Frame
    OBVIOUS
  <2>3. Len(open') = Len(frames) /\ open' # <<>>
    BY <1>2, <2>1
  <2>4. \A d \in 1..Len(frames) : open'[d].keys = frames[d].keys
    BY <2>1, <2>2 DEF Frame
  <2>5. QED
    BY <2>1, <2>3, <2>4
<1>3. QED
  BY <1>1, <1>2

\* A token that fits is followed by the calls that it makes or ends.
LEMMA FitsAfter ==
  ASSUME JSONTypeOK, DocumentInv, verdict = "value", NEW t \in Token, Take(t),
         t \notin {"refused", "error"},
         t \in Values => ~TooDeep,
         t \in Name => t \notin Last(open).keys
  PROVE  ReadWhole' /\ Fitting(doc') /\ doc' # <<>>
<1>1. doc' = Append(doc, t) /\ UNCHANGED <<size, clean, taken>>
  BY DEF Take, inputVars
<1>2. doc \in Seq(Token) /\ open \in Seq(Frame)
  BY DEF JSONTypeOK
<1>3. /\ ReadWhole /\ Fitting(doc) /\ Nesting(doc, Len(doc) + 1) = Len(open)
      /\ \A d \in 1..Len(open) : open[d].keys = KeysAt(doc, d)
  BY DEF DocumentInv, StackFits
<1>4. ReadWhole'
  BY <1>1, <1>3 DEF ReadWhole
<1>5. t \notin KeysAt(doc, Len(open))
  <2>1. CASE t \notin Name
    BY <2>1 DEF KeysAt
  <2>2. CASE doc = <<>>
    BY <2>2 DEF KeysAt
  <2>3. CASE t \in Name /\ doc # <<>>
    <3>1. open # <<>>
      BY <2>3 DEF DocumentInv, StackFits
    <3>2. Len(open) \in 1..Len(open) /\ Last(open) = open[Len(open)]
      BY <1>2, <3>1 DEF Last
    <3>3. QED
      BY <1>3, <2>3, <3>2
  <2>4. QED
    BY <2>1, <2>2, <2>3
<1>6. Fitting(Append(doc, t))
  <2>1. doc # <<>> => Len(open) > 0
    BY <1>2 DEF DocumentInv, StackFits
  <2>2. t \in Values => Len(open) < MaxDepth
    BY <1>2, StrictJSONAssumption DEF TooDeep
  <2>3. QED
    BY <1>2, <1>3, <1>5, <2>1, <2>2, FittingGrows
<1>7. QED
  BY <1>1, <1>2, <1>4, <1>6

\* A token that is refused does not fit.
LEMMA RefusedAfter ==
  ASSUME JSONTypeOK, DocumentInv, verdict \in {"value", "end"}, NEW t \in Token, Take(t),
         \/ t \in {"refused", "error"}
         \/ t \in Values /\ TooDeep
         \/ doc # <<>> /\ open = <<>>
         \/ open # <<>> /\ t \in Last(open).keys
  PROVE  ~Fitting(doc')
<1>1. doc' = Append(doc, t)
  BY DEF Take
<1>2. doc \in Seq(Token) /\ open \in Seq(Frame)
  BY DEF JSONTypeOK
<1>3. /\ Fitting(doc) /\ Nesting(doc, Len(doc) + 1) = Len(open)
      /\ \A d \in 1..Len(open) : open[d].keys = KeysAt(doc, d)
  BY DEF DocumentInv, StackFits
<1>4. CASE t \in {"refused", "error"}
  BY <1>1, <1>2, <1>3, <1>4, FittingGrows
<1>5. CASE t \in Values /\ TooDeep
  <2>1. ~(Len(open) < MaxDepth)
    BY <1>2, <1>5, StrictJSONAssumption DEF TooDeep
  <2>2. QED
    BY <1>1, <1>2, <1>3, <1>5, <2>1, FittingGrows
<1>6. CASE doc # <<>> /\ open = <<>>
  <2>1. ~(Len(open) > 0)
    BY <1>6
  <2>2. QED
    BY <1>1, <1>2, <1>3, <1>6, <2>1, FittingGrows
<1>7. CASE open # <<>> /\ t \in Last(open).keys
  <2>1. t \in KeysAt(doc, Len(open))
    BY <1>2, <1>3, <1>7 DEF Last
  <2>2. QED
    BY <1>1, <1>2, <1>3, <2>1, FittingGrows
<1>8. QED
  BY <1>4, <1>5, <1>6, <1>7

\* What a token does to the nesting and to the keys of the open objects.
LEMMA StackAfter ==
  ASSUME JSONTypeOK, DocumentInv, verdict = "value", NEW t \in Token, Take(t)
  PROVE  /\ doc' # <<>>
         /\ t \in Brackets => Nesting(doc', Len(doc') + 1) = Len(open) + 1
         /\ t \in Ends => Nesting(doc', Len(doc') + 1) = Len(open) - 1
         /\ t \notin Brackets \cup Ends => Nesting(doc', Len(doc') + 1) = Len(open)
         /\ \A d \in 1..Len(open) :
              d <= Nesting(doc', Len(doc') + 1) =>
                KeysAt(doc', d) = IF t \in Name /\ d = Len(open)
                                  THEN open[d].keys \cup {t} ELSE open[d].keys
         /\ t \in Brackets => KeysAt(doc', Len(open) + 1) = {}
<1>1. doc' = Append(doc, t) /\ doc \in Seq(Token) /\ open \in Seq(Frame)
  BY DEF Take, JSONTypeOK
<1>2. /\ Nesting(doc, Len(doc) + 1) = Len(open)
      /\ \A d \in 1..Len(open) : open[d].keys = KeysAt(doc, d)
  BY DEF DocumentInv, StackFits
<1>3. /\ Len(doc) \in Nat /\ Len(doc') = Len(doc) + 1 /\ doc' # <<>>
      /\ doc'[Len(doc) + 1] = t
  BY <1>1
<1>4. Nesting(doc', Len(doc) + 1) = Len(open)
  BY <1>1, <1>2, NestingKept
<1>5. /\ Nesting(doc', Len(doc) + 2) \in Int
      /\ t \in Brackets => Nesting(doc', Len(doc) + 2) = Len(open) + 1
      /\ t \in Ends => Nesting(doc', Len(doc) + 2) = Len(open) - 1
      /\ t \notin Brackets \cup Ends => Nesting(doc', Len(doc) + 2) = Len(open)
  BY <1>3, <1>4, NestingNext
<1>6. ASSUME NEW d \in 1..Len(open), d <= Nesting(doc', Len(doc) + 2)
      PROVE  KeysAt(doc', d) = IF t \in Name /\ d = Len(open)
                               THEN open[d].keys \cup {t} ELSE open[d].keys
  <2>1. d \in Nat /\ Nesting(doc', Len(doc) + 2) >= d
    BY <1>5, <1>6
  <2>2. KeysAt(doc', d) =
          KeysAt(doc, d) \cup {k \in {t} : k \in Name /\ Nesting(doc, Len(doc) + 1) = d}
    BY <1>1, <2>1, KeysGrow
  <2>3. KeysAt(doc, d) = open[d].keys
    BY <1>2, <1>6
  <2>4. {k \in {t} : k \in Name /\ Nesting(doc, Len(doc) + 1) = d} =
          IF t \in Name /\ d = Len(open) THEN {t} ELSE {}
    BY <1>2
  <2>5. QED
    BY <2>2, <2>3, <2>4
<1>7. ASSUME t \in Brackets PROVE KeysAt(doc', Len(open) + 1) = {}
  <2>1. KeysAt(doc, Len(open) + 1) = {}
    BY <1>1, <1>2 DEF KeysAt
  <2>2. t \notin Name
    BY <1>7, StrictJSONAssumption DEF Values
  <2>3. Len(open) + 1 \in Nat /\ Nesting(doc', Len(doc) + 2) >= Len(open) + 1
    BY <1>1, <1>5, <1>7
  <2>4. QED
    BY <1>1, <2>1, <2>2, <2>3, KeysGrow
<1>8. Len(doc') + 1 = Len(doc) + 2
  BY <1>3
<1>9. QED
  BY <1>3, <1>5, <1>6, <1>7, <1>8

\* Every step of Parse takes the token that the document has next, or refuses
\* for one of the reasons there are.
LEMMA ParseFits ==
  ASSUME JSONTypeOK, DocumentInv, Parse
  PROVE  DocumentInv'
<1> DEFINE Next == Nesting(doc', Len(doc') + 1)
<1>0. /\ Values \subseteq Token /\ Ends \subseteq Token /\ "error" \in Token
      /\ Name \subseteq Token /\ Brackets \subseteq Values
      /\ "plain" \in Values /\ "plain" \notin Brackets \cup Ends
  BY DEF Token, Values, Scalars, Brackets, Ends
<1>a. /\ Name \cap Values = {} /\ Name \cap Ends = {} /\ Values \cap Ends = {}
      /\ \A t \in Brackets \cup Ends \cup Name \cup {"plain"} :
           t \notin {"refused", "error"}
  BY StrictJSONAssumption DEF Values, Scalars, Brackets, Ends
<1>b. open \in Seq(Frame)
  BY DEF JSONTypeOK
<1>1. ASSUME Reject, ~Fitting(doc') PROVE DocumentInv'
  BY <1>1 DEF Reject, DocumentInv
<1>2. ASSUME verdict' \in {"value", "end"}, ReadWhole', Fitting(doc'), StackFits'
      PROVE  DocumentInv'
  BY <1>2 DEF DocumentInv
<1>3. verdict = "value" /\ doc # <<>> => open # <<>>
  BY DEF DocumentInv, StackFits
<1>4. CASE ReadAll
  <2>1. doc = <<>> /\ open = <<>> /\ verdict = "unread"
    BY <1>4 DEF ReadAll, DocumentInv
  <2>2. /\ UNCHANGED <<size, clean, doc>> /\ size \in Nat /\ MaxInputBytes \in Nat
        /\ taken' = IF size > MaxInputBytes THEN MaxInputBytes + 1 ELSE size
    BY <1>4, StrictJSONAssumption DEF ReadAll, JSONTypeOK
  <2>3. CASE clean /\ taken' \in 1..MaxInputBytes
    <3>1. verdict' = "value" /\ doc' = <<>> /\ open' = <<>>
      BY <1>4, <2>1, <2>3 DEF ReadAll
    <3>2. taken' = size /\ size \in 1..MaxInputBytes
      BY <2>2, <2>3
    <3>3. ReadWhole'
      BY <2>2, <2>3, <3>2 DEF ReadWhole
    <3>4. Fitting(doc')
      BY <3>1 DEF Fitting
    <3>5. StackFits'
      BY <3>1, NestingFirst DEF StackFits
    <3>6. QED
      BY <1>2, <3>1, <3>3, <3>4, <3>5
  <2>4. CASE ~(clean /\ taken' \in 1..MaxInputBytes)
    <3>1. verdict' = "rejected"
      BY <1>4, <2>4 DEF ReadAll, Reject
    <3>2. taken' \notin 1..MaxInputBytes => size \notin 1..MaxInputBytes
      BY <2>2
    <3>3. ~clean' \/ size' \notin 1..MaxInputBytes
      BY <2>2, <2>4, <3>2
    <3>4. QED
      BY <3>1, <3>3 DEF DocumentInv
  <2>5. QED
    BY <2>3, <2>4
<1>5. CASE PlainValue
  <2>1. /\ verdict = "value" /\ ~TooDeep /\ Take("plain") /\ Return(open)
        /\ "plain" \in Token
    BY <1>0, <1>5 DEF PlainValue, ExpectsValue
  <2>2. ReadWhole' /\ Fitting(doc') /\ doc' # <<>>
    BY <1>0, <1>a, <2>1, FitsAfter
  <2>3. Next = Len(open) /\ \A d \in 1..Len(open) : KeysAt(doc', d) = open[d].keys
    BY <1>0, <1>a, <1>b, <2>1, StackAfter
  <2>4. StackFits'
    BY <1>b, <2>1, <2>2, <2>3, ReturnKeeps DEF StackFits
  <2>5. verdict' \in {"value", "end"}
    BY <1>b, <2>1, ReturnKeeps
  <2>6. QED
    BY <1>2, <2>2, <2>4, <2>5
<1>6. ASSUME NEW t \in Brackets, BeginValue(t) PROVE DocumentInv'
  <2>1. verdict = "value" /\ ~TooDeep /\ Take(t) /\ t \in Token
    BY <1>0, <1>6 DEF BeginValue, ExpectsValue
  <2>2. ReadWhole' /\ Fitting(doc') /\ doc' # <<>>
    BY <1>0, <1>a, <2>1, FitsAfter
  <2>3. /\ Next = Len(open) + 1 /\ KeysAt(doc', Len(open) + 1) = {}
        /\ \A d \in 1..Len(open) : KeysAt(doc', d) = open[d].keys
    BY <1>0, <1>a, <1>b, <2>1, StackAfter
  <2>4. /\ verdict' = "value"
        /\ open' = Append(open, [bracket |-> t, keys |-> {}, next |-> First(t)])
    BY <1>6, <2>1 DEF BeginValue
  <2>5. /\ Len(open') = Len(open) + 1 /\ open' # <<>>
        /\ open'[Len(open) + 1].keys = {}
        /\ \A d \in 1..Len(open) : open'[d] = open[d]
    BY <1>b, <2>4
  <2>6. ASSUME NEW d \in 1..Len(open') PROVE open'[d].keys = KeysAt(doc', d)
    <3>1. d \in 1..Len(open) \/ d = Len(open) + 1
      BY <1>b, <2>5
    <3>2. QED
      BY <2>3, <2>5, <3>1
  <2>7. StackFits'
    BY <2>2, <2>3, <2>4, <2>5, <2>6 DEF StackFits
  <2>8. QED
    BY <1>2, <2>2, <2>4, <2>7
<1>7. ASSUME NEW k \in Name, NewKey(k) PROVE DocumentInv'
  <2>1. /\ verdict = "value" /\ k \notin Last(open).keys /\ Take(k) /\ k \in Token
        /\ open # <<>>
    BY <1>0, <1>7 DEF NewKey, ExpectsKey
  <2>2. ReadWhole' /\ Fitting(doc') /\ doc' # <<>>
    BY <1>0, <1>a, <2>1, FitsAfter
  <2>3. /\ Next = Len(open)
        /\ \A d \in 1..Len(open) :
             KeysAt(doc', d) = IF d = Len(open) THEN open[d].keys \cup {k}
                                                ELSE open[d].keys
    BY <1>0, <1>a, <1>b, <2>1, StackAfter
  <2>4. /\ verdict' = "value"
        /\ open' = [open EXCEPT ![Len(open)].keys = @ \cup {k},
                                ![Len(open)].next = "value"]
    BY <1>7, <2>1 DEF NewKey
  <2>5. Len(open') = Len(open) /\ open' # <<>>
    BY <1>b, <2>1, <2>4
  <2>6. \A d \in 1..Len(open) :
          open'[d].keys = IF d = Len(open) THEN open[d].keys \cup {k}
                                           ELSE open[d].keys
    <3> DEFINE top == [open[Len(open)] EXCEPT !.keys = @ \cup {k}, !.next = "value"]
    <3>1. open[Len(open)] \in Frame
      BY <1>b, <2>1
    <3>2. top.keys = open[Len(open)].keys \cup {k}
      BY <3>1 DEF Frame
    <3>3. open' = [open EXCEPT ![Len(open)] = top]
      BY <1>b, <2>1, <2>4
    <3> HIDE DEF top
    <3>4. \A d \in 1..Len(open) : open'[d] = IF d = Len(open) THEN top ELSE open[d]
      BY <1>b, <3>3
    <3>5. QED
      BY <3>2, <3>4
  <2>7. StackFits'
    BY <2>2, <2>3, <2>4, <2>5, <2>6 DEF StackFits
  <2>8. QED
    BY <1>2, <2>2, <2>4, <2>7
<1>8. ASSUME NEW t \in Ends, EndValue(t) PROVE DocumentInv'
  <2>1. /\ verdict = "value" /\ open # <<>> /\ Take(t) /\ t \in Token
        /\ Return(Front(open))
    BY <1>0, <1>8 DEF EndValue
  <2>2. ReadWhole' /\ Fitting(doc') /\ doc' # <<>>
    BY <1>0, <1>a, <2>1, FitsAfter
  <2>3. /\ Front(open) \in Seq(Frame) /\ Len(Front(open)) = Len(open) - 1
        /\ \A d \in 1..Len(open) - 1 : Front(open)[d] = open[d]
    BY <1>b, <2>1, FrontType
  <2>4. /\ Next = Len(open) - 1
        /\ \A d \in 1..Len(open) - 1 : KeysAt(doc', d) = open[d].keys
    BY <1>0, <1>a, <1>b, <2>1, StackAfter
  <2>5. StackFits'
    BY <2>1, <2>2, <2>3, <2>4, ReturnKeeps DEF StackFits
  <2>6. verdict' \in {"value", "end"}
    BY <2>1, <2>3, ReturnKeeps
  <2>7. QED
    BY <1>2, <2>2, <2>5, <2>6
<1>9. CASE EndOfInput
  <2>1. UNCHANGED <<size, clean, taken, doc, open>>
    BY <1>9 DEF EndOfInput, inputVars
  <2>2. verdict = "end" /\ verdict' = "accepted"
    BY <1>9 DEF EndOfInput
  <2>3. QED
    BY <2>1, <2>2 DEF DocumentInv, StackFits, ReadWhole
<1>10. ASSUME NEW t \in Values, RefusedValue(t) PROVE DocumentInv'
  <2>1. ~Fitting(doc')
    BY <1>0, <1>10, RefusedAfter DEF RefusedValue, ExpectsValue
  <2>2. QED
    BY <1>1, <1>10, <2>1 DEF RefusedValue
<1>11. ASSUME NEW k \in Name, DuplicateKey(k) PROVE DocumentInv'
  <2>1. ~Fitting(doc')
    BY <1>0, <1>11, RefusedAfter DEF DuplicateKey, ExpectsKey
  <2>2. QED
    BY <1>1, <1>11, <2>1 DEF DuplicateKey
<1>12. ASSUME NEW t \in Values, TrailingToken(t) PROVE DocumentInv'
  <2>1. doc # <<>> /\ open = <<>>
    BY <1>12 DEF TrailingToken, DocumentInv, StackFits
  <2>2. ~Fitting(doc')
    BY <1>0, <1>12, <2>1, RefusedAfter DEF TrailingToken
  <2>3. QED
    BY <1>1, <1>12, <2>2 DEF TrailingToken
<1>13. CASE DecoderFails
  <2>1. ~Fitting(doc')
    BY <1>0, <1>13, RefusedAfter DEF DecoderFails
  <2>2. QED
    BY <1>1, <1>13, <2>1 DEF DecoderFails
<1>14. QED
  BY <1>4, <1>5, <1>6, <1>7, <1>8, <1>9, <1>10, <1>11, <1>12, <1>13 DEF Parse

\* Parse accepts exactly what a document may be, for any bounds on depth and size,
\* any set of keys and documents of any length.
THEOREM VerdictAlwaysFits == MainSpec => []VerdictFitsDocument
<1>1. MainInit => DocumentInv
  BY DEF MainInit, JSONInit, DocumentInv
<1>2. JSONTypeOK /\ DocumentInv /\ [MainNext]_mainVars => DocumentInv'
  <2> SUFFICES ASSUME JSONTypeOK, DocumentInv, [MainNext]_mainVars PROVE DocumentInv'
    OBVIOUS
  <2>1. CASE Parse
    BY <2>1, ParseFits
  <2>2. CASE UNCHANGED jsonVars
    BY <2>2 DEF jsonVars, inputVars, DocumentInv, StackFits, ReadWhole
  <2>3. QED
    BY <2>1, <2>2
       DEF MainNext, RunServe, RunCommand, mainVars, CommandNext, ParseStep,
           RefuseUsage, Dispatch, InputAccepted, InputRefused, WriteOutput, WriteError
<1>3. Fitting(doc) <=> Admissible
  BY DEF Fitting, Admissible, SameObject, Level, Nesting, Before
<1>4. Level(Len(doc) + 1) = Nesting(doc, Len(doc) + 1)
  BY DEF Level, Nesting, Before
<1>5. JSONTypeOK /\ DocumentInv => VerdictFitsDocument
  BY <1>3, <1>4 DEF JSONTypeOK, DocumentInv, StackFits, ReadWhole, VerdictFitsDocument
<1>6. MainTypeOK => JSONTypeOK
  BY DEF MainTypeOK
<1>7. QED
  BY <1>1, <1>2, <1>5, <1>6, MainTypeCorrect, PTL DEF MainSpec
=============================================================================
