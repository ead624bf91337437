-------------------------- MODULE ValidationProofs --------------------------
(***************************************************************************)
(* The validation accepts exactly the requests that are meant, for any     *)
(* limits, any set of allowed policies and any names in a path.            *)
(***************************************************************************)
EXTENDS Validation, FiniteSetTheorems, SequenceTheorems, FunctionTheorems, TLAPS

USE ValidationAssumption

-----------------------------------------------------------------------------
(* Numbers and sequences. *)

\* A set of natural numbers has a least one: how a loop is reasoned about.
LEMMA LeastNatural ==
  ASSUME NEW T \in SUBSET Nat, T # {}
  PROVE  \E m \in T : \A n \in T : m <= n
<1> DEFINE R == OpToRel(<, Nat)
<1>1. \E m \in T : \A n \in T : <<n, m>> \notin R
  <2>1. IsWellFoundedOn(R, Nat)
    BY NatLessThanWellFounded
  <2> HIDE DEF R
  <2>2. QED
    BY <2>1, WFMin
<1>2. \A m, n \in T : n < m => <<n, m>> \in R
  BY DEF OpToRel
<1>3. QED
  <2> HIDE DEF R
  <2>1. PICK m \in T : \A n \in T : <<n, m>> \notin R
    BY <1>1
  <2>2. ASSUME NEW n \in T PROVE m <= n
    <3>1. ~ (n < m)
      BY <1>2, <2>1
    <3>2. m \in Int /\ n \in Int
      OBVIOUS
    <3>3. QED
      BY <3>1, <3>2
  <2>3. QED
    BY <2>2

\* A list of bounded length is a sequence.
LEMMA UptoSeq ==
  ASSUME NEW S, NEW n \in Nat, NEW s \in Upto(S, n)
  PROVE  s \in Seq(S) /\ Len(s) \in 0..n
<1>1. PICK m \in 0..n : s \in [1..m -> S]
  BY DEF Upto
<1>2. s \in Seq(S) /\ Len(s) = m
  BY <1>1
<1>3. QED
  BY <1>2

\* A sequence of bounded length is such a list.
LEMMA SeqUpto ==
  ASSUME NEW S, NEW n \in Nat, NEW s \in Seq(S), Len(s) <= n
  PROVE  s \in Upto(S, n)
<1>1. Len(s) \in 0..n /\ s \in [1..Len(s) -> S]
  OBVIOUS
<1>2. QED
  BY <1>1 DEF Upto

-----------------------------------------------------------------------------
(* Paths. *)

\* path.Clean leaves a path of ordinary parts as it is.
LEMMA CleanKeepsOrdinary ==
  ASSUME NEW file \in Seq(Part), file # <<>>
  PROVE  Clean(file) = file
<1>1. ~Rooted(file)
  BY DEF Rooted
<1> DEFINE N == Len(file)
           Step(f, i) == IF i = 0 THEN <<>>
                         ELSE AddPart(f[i - 1], file[i], Rooted(file))
           prefixes == [i \in 0..N |-> SubSeq(file, 1, i)]
<1>2. N \in Nat /\ N # 0
  OBVIOUS
<1>3. ASSUME NEW i \in 1..N
      PROVE  AddPart(SubSeq(file, 1, i - 1), file[i], Rooted(file))
               = SubSeq(file, 1, i)
  <2>1. file[i] \in Part
    OBVIOUS
  <2>2. AddPart(SubSeq(file, 1, i - 1), file[i], Rooted(file))
          = Append(SubSeq(file, 1, i - 1), file[i])
    BY <2>1 DEF AddPart
  <2>3. SubSeq(file, 1, i) = Append(SubSeq(file, 1, i - 1), file[i])
    OBVIOUS
  <2>4. QED
    BY <2>2, <2>3
<1>4. prefixes = [i \in 0..N |-> Step(prefixes, i)]
  <2>1. ASSUME NEW i \in 0..N PROVE SubSeq(file, 1, i) = Step(prefixes, i)
    <3>1. CASE i = 0
      BY <3>1
    <3>2. CASE i # 0
      <4>1. i \in 1..N /\ prefixes[i - 1] = SubSeq(file, 1, i - 1)
        BY <1>2, <3>2
      <4>2. QED
        BY <1>3, <3>2, <4>1
    <3>3. QED
      BY <3>1, <3>2
  <2>2. QED
    BY <2>1
<1>5. \A i \in 0..N : Kept(file)[i] = Step(Kept(file), i)
  <2> DEFINE K == Kept(file)
  <2>1. K = [i \in 0..N |-> Step(K, i)]
    BY <1>4 DEF Kept
  <2> HIDE DEF K, Step
  <2>2. \A i \in 0..N : K[i] = Step(K, i)
    BY <2>1
  <2>3. QED
    BY <2>2 DEF K
<1>6. \A i \in 0..N : Kept(file)[i] = SubSeq(file, 1, i)
  <2> DEFINE K == Kept(file)
             T == {i \in 0..N : K[i] # SubSeq(file, 1, i)}
  <2>1. SUFFICES ASSUME T # {} PROVE FALSE
    OBVIOUS
  <2>2. PICK m \in T : \A n \in T : m <= n
    <3>1. T \in SUBSET Nat
      BY <1>2
    <3> HIDE DEF T
    <3>2. QED
      BY <2>1, <3>1, LeastNatural
  <2>3. m \in 0..N /\ K[m] = Step(K, m)
    BY <1>5, <2>2
  <2>4. m # 0
    <3>1. SubSeq(file, 1, 0) = <<>>
      BY SubSeqEmpty
    <3>2. QED
      BY <2>2, <2>3, <3>1
  <2>5. m - 1 \in 0..N /\ m - 1 \notin T
    BY <2>2, <2>3, <2>4
  <2>6. K[m - 1] = SubSeq(file, 1, m - 1)
    BY <2>5
  <2>7. K[m] = SubSeq(file, 1, m)
    BY <1>3, <2>3, <2>4, <2>6
  <2>8. QED
    BY <2>2, <2>7
<1>7. Kept(file)[N] = file
  BY <1>2, <1>6
<1>8. QED
  BY <1>1, <1>7 DEF Clean

\* validRelativePath accepts the paths of ordinary parts within the limits.
LEMMA RelativePaths ==
  ASSUME NEW file \in Paths
  PROVE  ValidRelativePath(file) <=> /\ file \in Upto(Part, MaxParts) \ {<<>>}
                                     /\ PathBytes(file) <= MaxPathBytes
<1> DEFINE All == Part \cup {NoName, ".", "..", "?"}
<1>1. file \in Seq(All) /\ file # <<>> /\ MaxParts + 1 \in Nat
  BY UptoSeq, MaxParts + 1 \in Nat DEF Paths
<1>2. ASSUME ValidRelativePath(file)
      PROVE  /\ file \in Upto(Part, MaxParts) \ {<<>>}
             /\ PathBytes(file) <= MaxPathBytes
  <2>1. Len(file) <= MaxParts /\ \A i \in 1..Len(file) : file[i] \in Part
    BY <1>1, <1>2 DEF ValidRelativePath, ValidPart
  <2>2. file \in Seq(Part)
    BY <1>1, <2>1
  <2>3. file \in Upto(Part, MaxParts) \ {<<>>}
    BY <1>1, <2>1, <2>2, SeqUpto
  <2>4. PathBytes(file) <= MaxPathBytes
    BY <1>2 DEF ValidRelativePath
  <2>5. QED
    BY <2>3, <2>4
<1>3. ASSUME file \in Upto(Part, MaxParts) \ {<<>>},
             PathBytes(file) <= MaxPathBytes
      PROVE  ValidRelativePath(file)
  <2>1. file \in Seq(Part) /\ Len(file) <= MaxParts
    BY <1>3, UptoSeq
  <2>2. Clean(file) = file
    BY <1>1, <2>1, CleanKeepsOrdinary
  <2>3. \A i \in DOMAIN file : file[i] \in Part
    BY <2>1
  <2>4. file # <<NoName>> /\ ~Rooted(file)
    BY <2>1 DEF Rooted
  <2>5. QED
    BY <1>3, <2>1, <2>2, <2>3, <2>4 DEF ValidRelativePath, ValidPart
<1>4. QED
  BY <1>2, <1>3

-----------------------------------------------------------------------------
(* Policies. *)

\* A list whose neighbours increase increases.
LEMMA NeighboursDecide ==
  ASSUME NEW s \in Seq(Nat), \A i \in 1..Len(s) - 1 : s[i] < s[i + 1]
  PROVE  \A i, j \in DOMAIN s : i < j => s[i] < s[j]
<1> SUFFICES ASSUME NEW i \in 1..Len(s) PROVE \A j \in i + 1..Len(s) : s[i] < s[j]
  OBVIOUS
<1> DEFINE T == {j \in i + 1..Len(s) : ~ (s[i] < s[j])}
<1>1. SUFFICES ASSUME T # {} PROVE FALSE
  OBVIOUS
<1>2. PICK m \in T : \A n \in T : m <= n
  <2>1. T \in SUBSET Nat
    OBVIOUS
  <2> HIDE DEF T
  <2>2. QED
    BY <1>1, <2>1, LeastNatural
<1>3. m \in i + 1..Len(s) /\ ~ (s[i] < s[m])
  BY <1>2
<1>4. m - 1 \in 1..Len(s) - 1 /\ s[m - 1] < s[m]
  BY <1>3
<1>5. CASE m = i + 1
  BY <1>3, <1>4, <1>5
<1>6. CASE m # i + 1
  <2>1. m - 1 \in i + 1..Len(s) /\ ~ (m <= m - 1)
    BY <1>3, <1>6
  <2>2. s[i] < s[m - 1]
    BY <1>2, <2>1
  <2>3. s[i] \in Nat /\ s[m - 1] \in Nat /\ s[m] \in Nat
    BY <1>3, <1>4
  <2>4. QED
    BY <1>3, <1>4, <2>2, <2>3
<1>7. QED
  BY <1>5, <1>6

\* An increasing list names as many policies as it is long.
LEMMA IncreasingCardinality ==
  ASSUME NEW s \in Seq(Nat), \A i, j \in DOMAIN s : i < j => s[i] < s[j]
  PROVE  Cardinality(ToSet(s)) = Len(s)
<1>1. Len(s) \in Nat /\ s \in [1..Len(s) -> ToSet(s)]
  BY DEF ToSet
<1>2. \A t \in ToSet(s) : \E i \in 1..Len(s) : s[i] = t
  BY DEF ToSet
<1>3. ASSUME NEW i \in 1..Len(s), NEW j \in 1..Len(s), s[i] = s[j]
      PROVE  i = j
  <2>1. s[i] \in Nat /\ s[j] \in Nat
    OBVIOUS
  <2>2. ~ (i < j) /\ ~ (j < i)
    BY <1>3, <2>1
  <2>3. QED
    BY <2>2
<1>4. s \in Bijection(1..Len(s), ToSet(s))
  BY <1>1, <1>2, <1>3, Fun_IsBij
<1>5. ExistsBijection(1..Len(s), ToSet(s))
  BY <1>4, Fun_ExistsBij
<1>6. QED
  BY <1>1, <1>5, FS_CountingElements

\* The policies of a request.
PolicyList == Upto(Policy \cup {0}, MaxPolicies + 1)

\* The policies of a request are a sequence.
LEMMA PolicySeq ==
  ASSUME NEW s \in PolicyList
  PROVE  s \in Seq(Nat) /\ Len(s) \in 0..MaxPolicies + 1
<1>1. MaxPolicies + 1 \in Nat
  OBVIOUS
<1>2. s \in Seq(Policy \cup {0}) /\ Len(s) \in 0..MaxPolicies + 1
  BY <1>1, UptoSeq DEF PolicyList
<1>3. Policy \cup {0} \subseteq Nat
  OBVIOUS
<1>4. QED
  BY <1>2, <1>3, SeqMonotonic

\* What the loop has to find, for the list to be canonical.
GoodPolicies(s) ==
  /\ PolicyCountOK(Len(s)) /\ StringsAreSorted(s)
  /\ \A i \in 1..Len(s) : s[i] # 0 /\ s[i] \in AllowedPolicies
  /\ \A i \in 2..Len(s) : s[i] # s[i - 1]

\* Neighbours are enough: the loop accepts exactly the canonical lists.
LEMMA LoopDecidesCanonical ==
  ASSUME NEW s \in PolicyList
  PROVE  CanonicalPolicies(s) <=> GoodPolicies(s)
<1>1. s \in Seq(Nat) /\ Len(s) \in Nat /\ DOMAIN s = 1..Len(s)
  BY PolicySeq
<1>2. ASSUME CanonicalPolicies(s) PROVE GoodPolicies(s)
  <2>1. \A i, j \in DOMAIN s : i < j => s[i] < s[j]
    BY <1>2 DEF CanonicalPolicies
  <2>2. Len(s) \in 1..MaxPolicies
    BY <1>1, <1>2, <2>1, IncreasingCardinality DEF CanonicalPolicies
  <2>3. ASSUME NEW i \in 1..Len(s)
        PROVE  s[i] # 0 /\ s[i] \in AllowedPolicies
    BY <1>1, <1>2 DEF CanonicalPolicies, ToSet
  <2>4. ASSUME NEW i \in 2..Len(s) PROVE s[i] # s[i - 1]
    <3>1. i \in 1..Len(s) /\ i - 1 \in 1..Len(s) /\ i - 1 < i
      BY <1>1
    <3>2. s[i - 1] < s[i] /\ s[i] \in Nat /\ s[i - 1] \in Nat
      BY <1>1, <2>1, <3>1
    <3>3. QED
      BY <3>2
  <2>5. StringsAreSorted(s)
    <3> SUFFICES ASSUME NEW i \in 1..Len(s) - 1 PROVE s[i] <= s[i + 1]
      BY DEF StringsAreSorted
    <3>1. i \in 1..Len(s) /\ i + 1 \in 1..Len(s) /\ i < i + 1
      BY <1>1
    <3>2. s[i] < s[i + 1] /\ s[i] \in Nat /\ s[i + 1] \in Nat
      BY <1>1, <2>1, <3>1
    <3>3. QED
      BY <3>2
  <2>6. QED
    BY <1>1, <2>2, <2>3, <2>4, <2>5 DEF GoodPolicies, PolicyCountOK
<1>3. ASSUME GoodPolicies(s) PROVE CanonicalPolicies(s)
  <2>1. ASSUME NEW i \in 1..Len(s) - 1 PROVE s[i] < s[i + 1]
    <3>1. i \in 1..Len(s) /\ i + 1 \in 2..Len(s) /\ (i + 1) - 1 = i
      BY <1>1
    <3>2. s[i] <= s[i + 1] /\ s[i + 1] # s[i]
      BY <1>3, <3>1 DEF GoodPolicies, StringsAreSorted
    <3>3. s[i] \in Nat /\ s[i + 1] \in Nat
      BY <1>1, <3>1
    <3>4. QED
      BY <3>2, <3>3
  <2>2. \A i, j \in DOMAIN s : i < j => s[i] < s[j]
    BY <1>1, <2>1, NeighboursDecide
  <2>3. Cardinality(ToSet(s)) = Len(s)
    BY <1>1, <2>2, IncreasingCardinality
  <2>4. Len(s) \in 1..MaxPolicies
    BY <1>1, <1>3 DEF GoodPolicies, PolicyCountOK
  <2>5. ToSet(s) \subseteq AllowedPolicies
    BY <1>1, <1>3 DEF GoodPolicies, ToSet
  <2>6. QED
    BY <2>2, <2>3, <2>4, <2>5 DEF CanonicalPolicies
<1>4. QED
  BY <1>2, <1>3

-----------------------------------------------------------------------------
(* The loop over the policies. *)

\* What is asked of a request.
Meant(r) == /\ r.head /\ r.fresh
            /\ r.kind = "issue" =>
                 /\ CanonicalPolicies(r.policies)
                 /\ r.file \in Upto(Part, MaxParts) \ {<<>>}
                 /\ PathBytes(r.file) <= MaxPathBytes
                 /\ r.owner >= 0 /\ r.owner <= MaxInt32
                 /\ r.mode # "0644"

\* The policies before the next one have passed, and previous is the last.
Checked == LET s == request.policies
           IN  /\ next <= Len(s) + 1
               /\ previous = IF next = 1 THEN 0 ELSE s[next - 1]
               /\ \A i \in 1..next - 1 : s[i] # 0 /\ s[i] \in AllowedPolicies
               /\ \A i \in 2..next - 1 : s[i] # s[i - 1]

LoopInv == /\ TypeOK
           /\ pc = "fields" => next = 1 /\ previous = 0
           /\ pc # "done" => ~valid
           /\ pc = "policies" => request.kind = "issue" /\ IssueFields /\ Checked
           /\ pc = "done" => (valid <=> Meant(request))

\* The fields of a request have their types.
LEMMA RequestFields ==
  ASSUME TypeOK
  PROVE  /\ request.kind \in {"issue", "revoke"}
         /\ request.file \in Paths
         /\ request.owner \in {-1, 0, MaxInt32, MaxInt32 + 1}
         /\ request.mode \in {"0400", "0644"}
         /\ request.policies \in PolicyList
  BY DEF TypeOK, Request, PolicyList

\* The checks before the loop and those of the loop ask what is meant.
LEMMA ChecksAskWhatIsMeant ==
  ASSUME TypeOK, request.kind = "issue"
  PROVE  Meant(request) <=> IssueFields /\ GoodPolicies(request.policies)
<1>1. ValidRelativePath(request.file)
        <=> /\ request.file \in Upto(Part, MaxParts) \ {<<>>}
            /\ PathBytes(request.file) <= MaxPathBytes
  BY RequestFields, RelativePaths
<1>2. CanonicalPolicies(request.policies) <=> GoodPolicies(request.policies)
  BY RequestFields, LoopDecidesCanonical
<1>3. ValidOwnership(request.owner)
        <=> request.owner >= 0 /\ request.owner <= MaxInt32
  BY RequestFields DEF ValidOwnership
<1>4. ValidReadOnlyMode(request.mode) <=> request.mode # "0644"
  BY RequestFields DEF ValidReadOnlyMode
<1>5. GoodPolicies(request.policies)
        => /\ PolicyCountOK(Len(request.policies))
           /\ StringsAreSorted(request.policies)
  BY DEF GoodPolicies
<1>6. QED
  BY <1>1, <1>2, <1>3, <1>4, <1>5 DEF Meant, IssueFields

\* A request begins with its fields unchecked.
LEMMA ValidationInit == Init => LoopInv
<1> SUFFICES ASSUME Init PROVE LoopInv
  OBVIOUS
<1>1. next \in 1..MaxPolicies + 1 /\ previous \in Policy \cup {0}
  BY DEF Init
<1>2. valid \in BOOLEAN
  BY Zenon DEF Init
<1>3. TypeOK
  BY <1>1, <1>2 DEF Init, TypeOK
<1>4. QED
  BY <1>3 DEF Init, LoopInv

\* A verdict that is right ends the validation.
LEMMA FinishInv ==
  ASSUME LoopInv, NEW result \in BOOLEAN, Finish(result),
         result <=> Meant(request)
  PROVE  LoopInv'
<1>1. /\ pc' = "done" /\ valid' = result
      /\ UNCHANGED <<request, next, previous>>
  BY DEF Finish
<1>2. TypeOK'
  BY <1>1 DEF LoopInv, TypeOK
<1>3. valid' <=> Meant(request')
  <2>1. request' = request
    BY <1>1
  <2>2. Meant(request') <=> Meant(request)
    BY <2>1
  <2>3. QED
    BY <1>1, <2>2, Zenon
<1>4. QED
  BY <1>1, <1>2, <1>3 DEF LoopInv

\* A policy that is refused makes the list one that is not meant.
LEMMA RefusedPolicy ==
  ASSUME LoopInv, pc = "policies", More, ~PolicyOK(request.policies[next])
  PROVE  ~Meant(request)
<1> DEFINE s == request.policies
<1>1. TypeOK /\ request.kind = "issue" /\ Checked
  BY DEF LoopInv
<1>2. next \in 1..Len(s) /\ next \in Nat
  BY <1>1 DEF TypeOK, More
<1>3. ~GoodPolicies(s)
  <2>1. CASE s[next] = 0 \/ s[next] \notin AllowedPolicies
    BY <1>2, <2>1 DEF GoodPolicies
  <2>2. CASE s[next] # 0 /\ s[next] = previous
    <3>1. next # 1 /\ s[next] = s[next - 1]
      BY <1>1, <1>2, <2>2 DEF Checked
    <3>2. next \in 2..Len(s)
      BY <1>2, <3>1
    <3>3. QED
      BY <3>1, <3>2 DEF GoodPolicies
  <2>3. QED
    BY <2>1, <2>2 DEF PolicyOK
<1>4. QED
  BY <1>1, <1>3, ChecksAskWhatIsMeant

\* A policy that passes belongs to those before the next.
LEMMA CheckPolicyInv == ASSUME LoopInv, CheckPolicy PROVE LoopInv'
<1> DEFINE s == request.policies
<1>1. /\ pc = "policies" /\ TypeOK /\ request.kind = "issue" /\ IssueFields
      /\ Checked /\ ~valid /\ PolicyOK(s[next])
      /\ next' = next + 1 /\ previous' = s[next]
      /\ UNCHANGED <<request, pc, valid>>
  BY DEF LoopInv, CheckPolicy
<1>2. /\ s \in Seq(Nat) /\ Len(s) \in Nat /\ Len(s) <= MaxPolicies
      /\ next \in Nat /\ next \in 1..Len(s)
  <2>1. s \in Seq(Nat)
    BY <1>1, RequestFields, PolicySeq
  <2>2. next \in Nat /\ next >= 1 /\ next <= Len(s) /\ Len(s) <= MaxPolicies
    BY <1>1 DEF TypeOK, CheckPolicy, More, IssueFields, PolicyCountOK
  <2>3. QED
    BY <2>1, <2>2
<1>3. s[next] # 0 /\ s[next] # previous /\ s[next] \in AllowedPolicies
  BY <1>1 DEF PolicyOK
<1>4. next' \in 1..MaxPolicies + 1 /\ previous' \in Policy \cup {0}
  BY <1>1, <1>2, <1>3
<1>5. TypeOK'
  BY <1>1, <1>4 DEF TypeOK
<1>6. Checked'
  <2>1. next' <= Len(s) + 1 /\ next' # 1 /\ previous' = s[next' - 1]
    BY <1>1, <1>2
  <2>2. \A i \in 1..next' - 1 : s[i] # 0 /\ s[i] \in AllowedPolicies
    <3>1. \A i \in 1..next' - 1 : i \in 1..next - 1 \/ i = next
      BY <1>1, <1>2
    <3>2. QED
      BY <1>1, <1>3, <3>1 DEF Checked
  <2>3. \A i \in 2..next' - 1 : s[i] # s[i - 1]
    <3>1. \A i \in 2..next' - 1 : i \in 2..next - 1 \/ (i = next /\ next # 1)
      BY <1>1, <1>2
    <3>2. next # 1 => s[next] # s[next - 1]
      BY <1>1, <1>3 DEF Checked
    <3>3. QED
      BY <1>1, <3>1, <3>2 DEF Checked
  <2>4. QED
    BY <1>1, <2>1, <2>2, <2>3 DEF Checked
<1>7. IssueFields'
  BY <1>1 DEF IssueFields
<1>8. QED
  BY <1>1, <1>5, <1>6, <1>7 DEF LoopInv

\* Every step keeps the loop invariant.
LEMMA ValidationStep == LoopInv /\ [Next]_vars => LoopInv'
<1> SUFFICES ASSUME LoopInv, [Next]_vars PROVE LoopInv'
  OBVIOUS
<1>1. TypeOK
  BY DEF LoopInv
<1>2. CASE ValidateIssue
  <2>1. /\ pc = "fields" /\ request.kind = "issue" /\ IssueFields
        /\ pc' = "policies"
        /\ UNCHANGED <<request, next, previous, valid>>
    BY <1>2 DEF ValidateIssue
  <2>2. next = 1 /\ previous = 0 /\ ~valid
    BY <2>1 DEF LoopInv
  <2>3. TypeOK' /\ IssueFields'
    BY <1>1, <2>1 DEF TypeOK, IssueFields
  <2>4. Checked'
    <3>1. request.policies \in Seq(Nat)
      BY <1>1, RequestFields, PolicySeq
    <3>2. QED
      BY <2>1, <2>2, <3>1 DEF Checked
  <2>5. QED
    BY <2>1, <2>2, <2>3, <2>4 DEF LoopInv
<1>3. CASE ValidateIssueFails
  <2>1. request.kind = "issue" /\ ~IssueFields /\ Finish(FALSE)
    BY <1>3 DEF ValidateIssueFails
  <2>2. ~Meant(request)
    BY <1>1, <2>1, ChecksAskWhatIsMeant
  <2>3. QED
    BY <2>1, <2>2, FinishInv
<1>4. CASE CheckPolicy
  BY <1>4, CheckPolicyInv
<1>5. CASE CheckPolicyFails
  <2>1. Finish(FALSE) /\ ~Meant(request)
    BY <1>5, RefusedPolicy DEF CheckPolicyFails
  <2>2. QED
    BY <2>1, FinishInv
<1>6. CASE PoliciesDone
  <2> DEFINE s == request.policies
  <2>1. /\ pc = "policies" /\ request.kind = "issue" /\ IssueFields /\ Checked
        /\ ~More /\ Finish(TRUE)
    BY <1>6 DEF PoliciesDone, LoopInv
  <2>2. next - 1 = Len(s)
    <3>1. s \in Seq(Nat) /\ next \in Nat
      BY <1>1, RequestFields, PolicySeq DEF TypeOK
    <3>2. QED
      BY <2>1, <3>1 DEF Checked, More
  <2>3. GoodPolicies(s)
    BY <2>1, <2>2 DEF Checked, GoodPolicies, IssueFields
  <2>4. Meant(request)
    BY <1>1, <2>1, <2>3, ChecksAskWhatIsMeant
  <2>5. QED
    BY <2>1, <2>4, FinishInv
<1>7. CASE ValidateRevoke
  <2>1. request.kind = "revoke" /\ Finish(request.head /\ request.fresh)
    BY <1>7 DEF ValidateRevoke
  <2>2. Meant(request) <=> request.head /\ request.fresh
    BY <2>1 DEF Meant
  <2>3. (request.head /\ request.fresh) \in BOOLEAN
    BY Zenon
  <2>4. QED
    BY <2>1, <2>2, <2>3, FinishInv
<1>8. CASE UNCHANGED vars
  BY <1>8 DEF vars, LoopInv, TypeOK, IssueFields, Checked, More
<1>9. QED
  BY <1>2, <1>3, <1>4, <1>5, <1>6, <1>7, <1>8 DEF Next

-----------------------------------------------------------------------------
(* The results. *)

\* The loop's invariant holds in every reachable state.
THEOREM ValidationInvariant == Spec => []LoopInv
  BY ValidationInit, ValidationStep, PTL DEF Spec

\* The variables of the validation keep their types.
THEOREM ValidationTypeCorrect == Spec => []TypeOK
<1>1. LoopInv => TypeOK
  BY DEF LoopInv
<1>2. QED
  BY <1>1, ValidationInvariant, PTL

\* The validation accepts exactly the requests that are meant.
THEOREM VerdictsAreRight == Spec => []VerdictIsRight
<1>1. LoopInv => VerdictIsRight
  BY DEF LoopInv, VerdictIsRight, Meant
<1>2. QED
  BY <1>1, ValidationInvariant, PTL

\* An ordinary path only leads down.
LEMMA OrdinaryDepth ==
  ASSUME NEW file \in Seq(Part), NEW n \in 1..Len(file)
  PROVE  Depth(file, n) = n
<1>1. {i \in 1..n : file[i] \in Part} = 1..n
  OBVIOUS
<1>2. {i \in 1..n : file[i] = ".."} = {}
  OBVIOUS
<1>3. Cardinality(1..n) = n
  <2>1. n \in Nat /\ n >= 1
    OBVIOUS
  <2>2. Cardinality(1..n) = IF 1 > n THEN 0 ELSE n - 1 + 1
    BY <2>1, FS_Interval
  <2>3. QED
    BY <2>1, <2>2
<1>4. Cardinality({}) = 0
  BY FS_EmptySet
<1>5. Depth(file, n) = Cardinality(1..n) - Cardinality({})
  BY <1>1, <1>2, Zenon DEF Depth
<1>6. n - 0 = n
  OBVIOUS
<1>7. QED
  BY <1>3, <1>4, <1>5, <1>6, Zenon

\* The file of an accepted request lies below the volume.
THEOREM AcceptedFilesStayInside == Spec => []AcceptedStaysInside
<1>1. LoopInv => AcceptedStaysInside
  <2> SUFFICES ASSUME LoopInv, valid, request.kind = "issue",
                      NEW n \in 1..Len(request.file)
               PROVE  Depth(request.file, n) >= 1
    BY DEF AcceptedStaysInside
  <2>1. Meant(request)
    BY DEF LoopInv, TypeOK
  <2>2. request.file \in Upto(Part, MaxParts)
    BY <2>1 DEF Meant
  <2>3. request.file \in Seq(Part)
    BY <2>2, UptoSeq
  <2>4. QED
    BY <2>3, OrdinaryDepth
<1>2. QED
  BY <1>1, ValidationInvariant, PTL
=============================================================================
