------------------------------ MODULE Upstream ------------------------------
(***************************************************************************)
(* How the bridge reaches Vault and the control plane: the HTTP client of  *)
(* secureHTTPClient with the dialer of privateDialContext (platform.go),   *)
(* and vaultClient.do and close (vault.go).  Calls run concurrently and    *)
(* share a pool of idle connections; the DNS gives another answer whenever *)
(* it likes, and servers begin and stop to listen.                         *)
(*                                                                         *)
(* close overwrites the token without a lock.  RunServe calls it when      *)
(* Shutdown has given up waiting, so that handlers and the renewal may     *)
(* still be reading it: what they read is then any mixture.                *)
(***************************************************************************)
EXTENDS Config

CONSTANTS Call, NoAddress

ASSUME UpstreamAssumption == NoAddress \notin Address

VARIABLES answer,    \* the addresses that the DNS has for the host of the URL
          secret,    \* vaultClient.token: "whole", "mixed" with zero bytes,
                     \* "zeros" or "none"; never a "part" without zero bytes
          idle,      \* addresses of idle connections
          step,      \* calls: "none", "lookup", "dial", "send" or "wait"
          carried,   \* the value of a call's X-Vault-Token
          todo,      \* resolved addresses that a call has not tried
          conn,      \* the address that a call's connection leads to
          sent       \* history: what was sent, and where to

callVars == <<step, carried, todo, conn>>
upstreamVars == <<answer, secret, idle, callVars, sent>>
serveVars == <<configVars, upstreamVars>>

Secret == {"whole", "mixed", "part", "zeros", "none"}

UpstreamTypeOK == /\ ConfigTypeOK
                  /\ answer \subseteq Address
                  /\ secret \in Secret
                  /\ idle \subseteq Address
                  /\ step \in [Call -> {"none", "lookup", "dial", "send", "wait"}]
                  /\ carried \in [Call -> Secret]
                  /\ todo \in [Call -> SUBSET Address]
                  /\ conn \in [Call -> Address \cup {NoAddress}]
                  /\ sent \subseteq [to : Address, token : Secret]

UpstreamInit == /\ ConfigInit
                /\ answer = {}
                /\ secret = "whole"
                /\ idle = {}
                /\ step = [c \in Call |-> "none"]
                /\ carried = [c \in Call |-> "none"]
                /\ todo = [c \in Call |-> {}]
                /\ conn = [c \in Call |-> NoAddress]
                /\ sent = {}

Serving == stage = "serving"

\* newPlatformClient, newVaultClient.  Of the configuration only the URL is used
\* from here on, and RunServe forgets the token.
NewClients == /\ stage = "started"
              /\ stage' = "serving"
              /\ inputs' = NoInputs
              /\ file' = NoFile /\ handle' = NoFile
              /\ token' = 0
              /\ settings' = Unset
              /\ UNCHANGED <<url, upstreamVars>>

\* The DNS changes its answer.
ChangeAnswer(addresses) ==
  /\ Serving /\ answer' = addresses
  /\ UNCHANGED <<configVars, secret, idle, callVars, sent>>

-----------------------------------------------------------------------------
(* vaultClient.close. *)

\* A plausible bug: the token is overwritten with blanks.
ZeroBytesBlank == /\ Serving
                  /\ \/ secret = "whole" /\ secret' = "part"
                     \/ secret = "part" /\ secret' = "zeros"
                  /\ UNCHANGED <<configVars, answer, idle, callVars, sent>>

\* zeroBytes, byte by byte.
ZeroBytes == /\ Serving
             /\ \/ secret = "whole" /\ secret' = "mixed"
                \/ secret = "mixed" /\ secret' = "zeros"
             /\ UNCHANGED <<configVars, answer, idle, callVars, sent>>

DropToken == /\ secret = "zeros"
             /\ secret' = "none"
             /\ UNCHANGED <<configVars, answer, idle, callVars, sent>>

CloseIdle == /\ secret = "none"
             /\ idle' = {}
             /\ UNCHANGED <<configVars, answer, secret, callVars, sent>>

-----------------------------------------------------------------------------
(* A call of vaultClient.do. *)

EndCall(c) == /\ step' = [step EXCEPT ![c] = "none"]
              /\ carried' = [carried EXCEPT ![c] = "none"]
              /\ todo' = [todo EXCEPT ![c] = {}]
              /\ conn' = [conn EXCEPT ![c] = NoAddress]

\* The header is set from the token as it is now, whatever that is.
Begin(c) == /\ Serving /\ step[c] = "none"
            /\ step' = [step EXCEPT ![c] = "lookup"]
            /\ carried' = [carried EXCEPT ![c] = secret]
            /\ UNCHANGED <<configVars, answer, secret, idle, todo, conn, sent>>

\* net/http sends no header value with a zero byte in it: the call fails.
HeaderAllowed(value) == value \notin {"mixed", "zeros"}

\* Any idle connection serves, also one that becomes idle during the dialling.
Reuse(c) == /\ step[c] \in {"lookup", "dial"} /\ HeaderAllowed(carried[c])
            /\ \E a \in idle : conn' = [conn EXCEPT ![c] = a] /\ idle' = idle \ {a}
            /\ step' = [step EXCEPT ![c] = "send"]
            /\ todo' = [todo EXCEPT ![c] = {}]
            /\ UNCHANGED <<configVars, answer, secret, carried, sent>>

\* LookupIPAddr; an address stands for itself.
Lookup(c) == /\ step[c] = "lookup" /\ HeaderAllowed(carried[c])
             /\ step' = [step EXCEPT ![c] = "dial"]
             /\ todo' = [todo EXCEPT ![c] = IF url.host \in Address THEN {url.host}
                                            ELSE answer]
             /\ UNCHANGED <<configVars, answer, secret, idle, carried, conn,
                            sent>>

\* With TLS, net.Dialer; without, privateDialContext, which passes over others.
Acceptable(a) == url.tls \/ a \in Private

Connect(c, a) == /\ conn' = [conn EXCEPT ![c] = a]
                 /\ step' = [step EXCEPT ![c] = "send"]
                 /\ todo' = [todo EXCEPT ![c] = {}]
                 /\ UNCHANGED <<configVars, answer, secret, idle, carried, sent>>

\* A plausible bug: the name is dialled, and so resolved again.
DialByName(c, a) == /\ step[c] = "dial" /\ a \in todo[c] /\ Acceptable(a)
                    /\ \E b \in answer : Connect(c, b)

\* The address that was looked at is dialled, and accepts.
Dial(c, a) == /\ step[c] = "dial" /\ a \in todo[c] /\ Acceptable(a)
              /\ Connect(c, a)

\* It is passed over, or does not accept.
PassOver(c, a) == /\ step[c] = "dial" /\ a \in todo[c]
                  /\ todo' = [todo EXCEPT ![c] = @ \ {a}]
                  /\ UNCHANGED <<configVars, answer, secret, idle, step, carried,
                                 conn, sent>>

Send(c) == /\ step[c] = "send"
           /\ step' = [step EXCEPT ![c] = "wait"]
           /\ sent' = sent \cup {[to |-> conn[c], token |-> carried[c]]}
           /\ UNCHANGED <<configVars, answer, secret, idle, carried, todo, conn>>

\* The whole response has been read: the connection can be used again.
Answered(c) == /\ step[c] = "wait"
               /\ idle' = idle \cup {conn[c]}
               /\ EndCall(c)
               /\ UNCHANGED <<configVars, answer, secret, sent>>

\* The header is refused, no address accepts, the time is over, the connection
\* breaks, or the response redirects or is too long.
CallFails(c) == /\ step[c] # "none"
                /\ EndCall(c)
                /\ UNCHANGED <<configVars, answer, secret, idle, sent>>

DropIdle(a) == /\ idle' = idle \ {a} /\ a \in idle
               /\ UNCHANGED <<configVars, answer, secret, callVars, sent>>

UpstreamNext ==
  \/ ConfigNext /\ UNCHANGED upstreamVars
  \/ NewClients \/ ZeroBytes \/ DropToken \/ CloseIdle
  \/ \E addresses \in SUBSET Address : ChangeAnswer(addresses)
  \/ \E a \in Address : DropIdle(a)
  \/ \E c \in Call : \/ Begin(c) \/ Reuse(c) \/ Lookup(c) \/ Send(c)
                     \/ Answered(c) \/ CallFails(c)
                     \/ \E a \in Address : Dial(c, a) \/ PassOver(c, a)

UpstreamSpec == UpstreamInit /\ [][UpstreamNext]_serveVars
-----------------------------------------------------------------------------
(* Properties. *)

\* What carries a credential without TLS only goes to a private address: also
\* when the name resolved to another when the configuration was checked, when
\* the DNS changes its answer between the lookup and the connection, mixes
\* private with public addresses, or has changed since the connection was made
\* that is used again.
CredentialsStayPrivate == \A m \in sent : url.tls \/ m.to \in Private

\* A request carries the issuing token or none, but never a part of it, although
\* close overwrites the token while calls are reading it.
TokenSentWhole == \A m \in sent : m.token \in {"whole", "none"}
=============================================================================
