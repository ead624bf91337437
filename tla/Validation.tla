----------------------------- MODULE Validation -----------------------------
(***************************************************************************)
(* What a lease request must look like: decodeStrict, the two validate     *)
(* methods and their helpers (types.go).  A name is a number; 0 is a name  *)
(* that validName refuses, the empty one among them, and the order of the  *)
(* numbers is that of the strings.  A path is the sequence of its parts    *)
(* between slashes; an ordinary part is a string as long as the name it    *)
(* stands for.  Time stamps and nonces are in Admission.                   *)
(***************************************************************************)
EXTENDS FiniteSets, Integers, Sequences, SequencesExt

CONSTANTS Policy,          \* well-formed policy names
          AllowedPolicies, \* config.AllowedPolicies
          Part,            \* ordinary parts of a path
          MaxPolicies,     \* 16 in the code
          MaxParts,        \* 16 in the code
          MaxPathBytes,    \* 240 in the code
          MaxInt32         \* the largest user or group number

\* What stands between two slashes, before the first or after the last.
NoName == ""

ASSUME ValidationAssumption ==
  /\ Policy \subseteq Nat \ {0} /\ AllowedPolicies \subseteq Policy
  /\ Part \cap {NoName, ".", "..", "?"} = {}
  /\ MaxPolicies \in Nat /\ MaxInt32 \in Nat
  /\ MaxParts \in Nat /\ MaxPathBytes \in Nat

\* Bound: lists and paths of one more than the limit.
Upto(S, n) == UNION {[1..m -> S] : m \in 0..n}

\* strings.Split never returns an empty list; the empty path is <<NoName>>.
\* "?" has a character that validName refuses, or more than 64 of them.
Paths == Upto(Part \cup {NoName, ".", "..", "?"}, MaxParts + 1) \ {<<>>}

\* head: decodeStrict reads the document, its version is 1, and the host and the
\* volume have valid names.
Request == [kind : {"issue", "revoke"}, head : BOOLEAN, fresh : BOOLEAN,
            file : Paths,
            owner : {-1, 0, MaxInt32, MaxInt32 + 1},
            mode : {"0400", "0644"}, policies : Upto(Policy \cup {0},
                                                     MaxPolicies + 1)]

VARIABLES request,  \* the request
          pc,       \* "fields", "policies" or "done"
          next,     \* index of the next policy
          previous, \* the policy before it
          valid     \* the result

vars == <<request, pc, next, previous, valid>>

TypeOK == /\ request \in Request
          /\ pc \in {"fields", "policies", "done"}
          /\ next \in 1..MaxPolicies + 1
          /\ previous \in Policy \cup {0}
          /\ valid \in BOOLEAN

Init == /\ request \in Request
        /\ pc = "fields"
        /\ next = 1
        /\ previous = 0
        /\ valid = FALSE

-----------------------------------------------------------------------------
(* Paths. *)

\* path.IsAbs.
Rooted(file) == Len(file) > 1 /\ file[1] = NoName

\* What path.Clean does with the next part of a path.
AddPart(out, part, rooted) ==
  CASE part \in {NoName, "."} -> out
    [] part = ".." /\ out # <<>> /\ Last(out) # ".." -> Front(out)
    [] part = ".." /\ rooted -> out
    [] OTHER -> Append(out, part)

\* What path.Clean has kept of a path after each of its parts.
Kept(file) ==
  LET kept[i \in 0..Len(file)] ==
        IF i = 0 THEN <<>> ELSE AddPart(kept[i - 1], file[i], Rooted(file))
  IN  kept

\* path.Clean, on the parts of a path.
Clean(file) ==
  LET body == Kept(file)[Len(file)]
  IN  CASE Rooted(file) -> <<NoName>> \o (IF body = <<>> THEN <<NoName>> ELSE body)
        [] ~Rooted(file) /\ body = <<>> -> <<".">>
        [] OTHER -> body

\* A plausible bug: path.Clean is trusted to leave no "..".
ValidPartUnlessEmpty(part) == part \notin {NoName, ".", "?"}

\* validName on a part, and the comparisons that follow it.
ValidPart(part) == part \notin {NoName, ".", "..", "?"}

\* len of a path: its parts, and the slashes between them.
PathBytes(file) ==
  MapThenSumSet(LAMBDA i : Len(file[i]), DOMAIN file) + Len(file) - 1

ValidRelativePath(file) == /\ file # <<NoName>>
                           /\ PathBytes(file) <= MaxPathBytes
                           /\ ~Rooted(file)
                           /\ Clean(file) = file
                           /\ Len(file) <= MaxParts
                           /\ \A i \in DOMAIN file : ValidPart(file[i])

ValidOwnership(n) == n \in 0..MaxInt32

ValidReadOnlyMode(mode) == mode \in {"0400", "0440", "0444"}

-----------------------------------------------------------------------------
(* Validation. *)

Finish(result) == /\ pc' = "done"
                  /\ valid' = result
                  /\ UNCHANGED <<request, next, previous>>

\* sort.StringsAreSorted: equal neighbours are in order.
StringsAreSorted(s) == \A i \in 1..Len(s) - 1 : s[i] <= s[i + 1]

\* A plausible bug: the number of policies has no upper limit.
PolicyCountOKUnlimited(n) == n > 0

PolicyCountOK(n) == n > 0 /\ n <= MaxPolicies

\* The conditions of issueRequest.validate before its loop.  The user and the
\* group number are checked alike; owner stands for either.
IssueFields == /\ request.head
               /\ ValidRelativePath(request.file)
               /\ ValidOwnership(request.owner)
               /\ ValidReadOnlyMode(request.mode)
               /\ request.fresh
               /\ PolicyCountOK(Len(request.policies))
               /\ StringsAreSorted(request.policies)

ValidateIssue == /\ pc = "fields" /\ request.kind = "issue"
                 /\ IssueFields
                 /\ pc' = "policies"
                 /\ UNCHANGED <<request, next, previous, valid>>

ValidateIssueFails == /\ pc = "fields" /\ request.kind = "issue"
                      /\ ~IssueFields
                      /\ Finish(FALSE)

\* A plausible bug: a policy may be repeated.
PolicyOKRepeated(policy) == policy # 0 /\ policy \in AllowedPolicies

PolicyOK(policy) == /\ policy # 0
                    /\ policy # previous
                    /\ policy \in AllowedPolicies

More == next <= Len(request.policies)

\* One turn of the loop.
CheckPolicy == /\ pc = "policies" /\ More
               /\ PolicyOK(request.policies[next])
               /\ next' = next + 1
               /\ previous' = request.policies[next]
               /\ UNCHANGED <<request, pc, valid>>

CheckPolicyFails == /\ pc = "policies" /\ More
                    /\ ~PolicyOK(request.policies[next])
                    /\ Finish(FALSE)

PoliciesDone == pc = "policies" /\ ~More /\ Finish(TRUE)

ValidateRevoke ==
  /\ pc = "fields" /\ request.kind = "revoke"
  /\ Finish(request.head /\ request.fresh)

Next == \/ ValidateIssue \/ ValidateIssueFails
        \/ CheckPolicy \/ CheckPolicyFails \/ PoliciesDone
        \/ ValidateRevoke

Spec == Init /\ [][Next]_vars

-----------------------------------------------------------------------------
(* Properties. *)

\* The policies of a request are an allowed set, written in the one way that
\* the bridge accepts.
CanonicalPolicies(s) ==
  /\ ToSet(s) \subseteq AllowedPolicies
  /\ Cardinality(ToSet(s)) \in 1..MaxPolicies
  /\ \A i, j \in DOMAIN s : i < j => s[i] < s[j]

\* The loop over the policies, which compares neighbours only, and the checks
\* before it accept exactly the requests that are meant: a set of allowed
\* policies in its canonical order, a path made of ordinary names and not too
\* long as a whole, a number of 31 bits and a read-only mode; nothing of this
\* is asked of a revocation.
VerdictIsRight ==
  pc = "done" =>
    (valid <=> /\ request.head /\ request.fresh
               /\ request.kind = "issue" =>
                    /\ CanonicalPolicies(request.policies)
                    /\ request.file \in Upto(Part, MaxParts) \ {<<>>}
                    /\ PathBytes(request.file) <= MaxPathBytes
                    /\ request.owner >= 0 /\ request.owner <= MaxInt32
                    /\ request.mode # "0644")

\* How far below the volume a path has led after its first n parts.
Depth(file, n) ==
  Cardinality({i \in 1..n : file[i] \in Part})
    - Cardinality({i \in 1..n : file[i] = ".."})

\* The file of an accepted request lies below the volume, and so does every
\* directory on the way to it.
AcceptedStaysInside ==
  valid /\ request.kind = "issue" =>
    \A n \in 1..Len(request.file) : Depth(request.file, n) >= 1
=============================================================================
