----------------------------- MODULE StrictJSON -----------------------------
(***************************************************************************)
(* strictjson.Parse: the recursion of parseToken over the tokens of        *)
(* encoding/json's Decoder, with the values that are still open on a       *)
(* stack.  The Decoder sees to the grammar: a token out of place, a wrong  *)
(* closing bracket and an early end are one of its errors.  The bounds on  *)
(* depth, repeated keys, null, numbers and a second document are left to   *)
(* parseToken and Parse.                                                   *)
(***************************************************************************)
EXTENDS FiniteSets, Integers, Sequences, SequencesExt

CONSTANTS Name,           \* keys of objects
          MaxDepth,       \* strictjson.MaxDepth
          MaxInputBytes,  \* strictjson.MaxInputBytes
          MaxTokens       \* bound: tokens of a document

\* "plain" is a string, a boolean or a canonical number; "refused" is null or
\* any other number (canonicalUnsignedNumber).
Brackets == {"object", "array"}
Ends == {"endObject", "endArray"}
Scalars == {"plain", "refused"}
Values == Brackets \cup Scalars
Token == Values \cup Ends \cup {"error"} \cup Name

ASSUME StrictJSONAssumption ==
  /\ Name \cap (Values \cup Ends \cup {"error"}) = {}
  /\ MaxDepth \in Nat \ {0} /\ MaxInputBytes \in Nat \ {0} /\ MaxTokens \in Nat

VARIABLES size,     \* bytes in the input
          clean,    \* it can be read, and is UTF-8 without a byte order mark
          taken,    \* bytes that ReadAll has returned
          doc,      \* history: the tokens read
          open,     \* the values that calls of parseToken are in, outermost first
          verdict   \* "unread", "value", "end", "accepted" or "rejected"

inputVars == <<size, clean, taken>>
jsonVars == <<inputVars, doc, open, verdict>>

\* A value under construction: the bracket that began it, the keys of an object
\* so far, and what is to follow unless it ends.
Frame == [bracket : Brackets, keys : SUBSET Name, next : {"key", "value"}]

JSONTypeOK == /\ size \in 0..MaxInputBytes + 2
              /\ clean \in BOOLEAN
              /\ taken \in 0..MaxInputBytes + 1
              /\ doc \in Seq(Token)
              /\ open \in Seq(Frame)
              /\ Len(open) <= MaxDepth
              /\ verdict \in {"unread", "value", "end", "accepted", "rejected"}

JSONInit == /\ size \in 0..MaxInputBytes + 2
            /\ clean \in BOOLEAN
            /\ taken = 0
            /\ doc = <<>>
            /\ open = <<>>
            /\ verdict = "unread"

Reject == verdict' = "rejected" /\ UNCHANGED open

\* A plausible bug: the reader is limited to what is allowed.
ReadAllToLimit == /\ verdict = "unread"
                  /\ taken' = IF size > MaxInputBytes THEN MaxInputBytes ELSE size
                  /\ IF clean /\ taken' > 0 THEN verdict' = "value" /\ UNCHANGED open
                                            ELSE Reject
                  /\ UNCHANGED <<size, clean, doc>>

\* io.ReadAll of a LimitReader, one byte beyond the limit.
ReadAll == /\ verdict = "unread"
           /\ taken' = IF size > MaxInputBytes THEN MaxInputBytes + 1 ELSE size
           /\ IF clean /\ taken' \in 1..MaxInputBytes
              THEN verdict' = "value" /\ UNCHANGED open
              ELSE Reject
           /\ UNCHANGED <<size, clean, doc>>

-----------------------------------------------------------------------------
(* parseToken. *)

Take(t) == /\ Len(doc) < MaxTokens
           /\ doc' = Append(doc, t)
           /\ UNCHANGED inputVars

\* A plausible bug: the depth is compared before it is counted up.
TooDeepOffByOne == Len(open) > MaxDepth

\* The call for the next value, at depth Len(open) + 1, refuses at once.
TooDeep == Len(open) + 1 > MaxDepth

ExpectsValue == verdict = "value" /\ (open # <<>> => Last(open).next = "value")
ExpectsKey == verdict = "value" /\ open # <<>> /\ Last(open).next = "key"

\* An object goes on with a key, an array with a value.
First(bracket) == IF bracket = "object" THEN "key" ELSE "value"

\* A call returns its value to the call that the given frames leave innermost.
Return(frames) ==
  /\ verdict' = IF frames = <<>> THEN "end" ELSE "value"
  /\ open' = IF frames = <<>> THEN frames
             ELSE [frames EXCEPT ![Len(frames)].next = First(Last(frames).bracket)]

BeginValue(t) ==
  /\ ExpectsValue /\ ~TooDeep /\ Take(t)
  /\ open' = Append(open, [bracket |-> t, keys |-> {}, next |-> First(t)])
  /\ UNCHANGED verdict

PlainValue == ExpectsValue /\ ~TooDeep /\ Take("plain") /\ Return(open)

RefusedValue(t) == /\ ExpectsValue /\ Take(t)
                   /\ TooDeep \/ t = "refused"
                   /\ Reject

NewKey(k) ==
  /\ ExpectsKey /\ k \notin Last(open).keys /\ Take(k)
  /\ open' = [open EXCEPT ![Len(open)].keys = @ \cup {k}, ![Len(open)].next = "value"]
  /\ UNCHANGED verdict

DuplicateKey(k) == ExpectsKey /\ k \in Last(open).keys /\ Take(k) /\ Reject

\* decoder.More is false: the closing bracket follows.
EndValue(t) == /\ verdict = "value" /\ open # <<>>
               /\ IF t = "endObject" THEN ExpectsKey ELSE Last(open).bracket = "array"
               /\ Take(t) /\ Return(Front(open))

-----------------------------------------------------------------------------
(* Parse, after the value. *)

EndOfInput == /\ verdict = "end"
              /\ verdict' = "accepted"
              /\ UNCHANGED <<inputVars, doc, open>>

TrailingToken(t) == verdict = "end" /\ Take(t) /\ Reject

\* The Decoder fails, on a malformed token or because the input ends.
DecoderFails == verdict \in {"value", "end"} /\ Take("error") /\ Reject

Parse == \/ ReadAll \/ PlainValue \/ EndOfInput \/ DecoderFails
         \/ \E t \in Brackets : BeginValue(t)
         \/ \E t \in Values : RefusedValue(t) \/ TrailingToken(t)
         \/ \E t \in Ends : EndValue(t)
         \/ \E k \in Name : NewKey(k) \/ DuplicateKey(k)

-----------------------------------------------------------------------------
(* What a document must be, read off its tokens without a stack. *)

Level(i) == Cardinality({j \in 1..i - 1 : doc[j] \in Brackets})
              - Cardinality({j \in 1..i - 1 : doc[j] \in Ends})

SameObject(i, j) == /\ Level(i) = Level(j)
                    /\ \A n \in i..j : Level(n) >= Level(i)

Admissible ==
  /\ \A i \in 1..Len(doc) :
       /\ doc[i] \notin {"refused", "error"}
       /\ doc[i] \in Values => Level(i) < MaxDepth
       /\ i > 1 => Level(i) > 0
  /\ \A i, j \in 1..Len(doc) :
       i < j /\ doc[i] \in Name /\ SameObject(i, j) => doc[i] # doc[j]

\* Parse accepts an input if and only if all of it was read, it is one complete
\* document and nothing else, no value is nested deeper than MaxDepth, no object
\* names a key twice, although equal keys in different objects are none of its
\* business, and no value is null or an unusual number.
VerdictFitsDocument ==
  /\ verdict = "accepted" => /\ clean /\ taken = size
                             /\ doc # <<>> /\ Admissible /\ Level(Len(doc) + 1) = 0
  /\ verdict = "rejected" => ~clean \/ size \notin 1..MaxInputBytes \/ ~Admissible
=============================================================================
