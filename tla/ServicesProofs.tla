--------------------------- MODULE ServicesProofs ---------------------------
(***************************************************************************)
(* Proofs about a call under retryWithBackoff(), for any calls, any limits *)
(* of the attempts, any statuses and lists of any length.                  *)
(*                                                                         *)
(* The loop comes first: its proofs use of an answer only what a call can  *)
(* make of it (AnswerKinds), whatever the readers of module Json return.   *)
(* Then the readers themselves: how elements are picked, what each reader  *)
(* returns at the bodies the server sends, and from that the completeness  *)
(* of lists and the types of results.                                      *)
(***************************************************************************)
EXTENDS Services, FiniteSetTheorems, TLAPS

Verdicts == {"done", "garbled", "refused", "failed", "nothing"}
Doubts == {"failed", "garbled", "nothing"}

\* The bounds of the loop: never more attempts than maxRetries, one request and at
\* most one effect per attempt, and none for refused arguments.
LoopInv ==
    /\ pc \in {"idle", "check", "sent", "backoff", "done"}
    /\ call.maxRetries \in Nat /\ call.valid \in BOOLEAN
    /\ attempt \in Nat /\ sent \in Nat /\ executed \in Nat
    /\ attempt <= call.maxRetries
    /\ pc \in {"check", "sent", "backoff"} => attempt < call.maxRetries
    /\ sent = IF ~call.valid THEN 0 ELSE IF pc = "sent" THEN attempt + 1 ELSE attempt
    /\ executed <= attempt
    /\ executed > 0 => call.valid
    /\ pc = "sent" => call.valid

\* What the attempts were told: doubt, but for the last one.
ToldInv ==
    /\ told \in Seq(Verdicts) /\ Len(told) = attempt
    /\ \A i \in 1..attempt : (pc = "done" /\ i = attempt) \/ told[i] \in Doubts

\* What the result says of the last attempt.
ResultInv ==
    /\ pc = "idle" => result.kind = "internal" /\ attempt = 0
    /\ result.kind = "validation" => ~call.valid
    /\ attempt = 0 => result.kind = "internal"
    /\ attempt > 0 =>
        /\ result.kind = "value" => executed > 0 /\ told[attempt] = "done"
        /\ result.kind = "api" =>
               \/ told[attempt] = Told(result.status, result)
               \/ (call.op = "getQuote" /\ result.status = 404 /\ told[attempt] = "done")
    /\ attempt = 1 /\ told[1] = "refused" => executed = 0

CallInv == LoopInv /\ ToldInv /\ ResultInv

-----------------------------------------------------------------------------
\* What a call makes of an answer, whatever its reader read.
LEMMA AnswerKinds ==
    ASSUME NEW op, NEW status, NEW body, NEW r, r = Answer(op, status, body)
    PROVE  \/ ~success(status) /\ r.kind = "api" /\ r.status = status
           \/ success(status) /\ r.kind \in {"internal", "value"} /\ r.status = 0
           \/ success(status) /\ r.kind = "api" /\ r.status = 404 /\ op = "getQuote"
BY DEF Answer, Error, Value

\* An attempt that ends with result r and verdict v is counted; the loop goes on
\* only in doubt and within maxRetries.
LEMMA ReturnStep ==
    ASSUME LoopInv, ToldInv, pc \in {"check", "sent"}, NEW r, NEW v \in Verdicts, Return(r),
           told' = Append(told, v), call' = call, GoesOn(r) => v \in Doubts
    PROVE  /\ attempt' = attempt + 1 /\ result' = r
           /\ \/ pc' = "done" /\ attempt' <= call'.maxRetries
              \/ pc' = "backoff" /\ attempt' < call'.maxRetries
           /\ told'[attempt'] = v
           /\ ToldInv'
<1>1. /\ attempt \in Nat /\ call.maxRetries \in Nat /\ attempt < call.maxRetries
      /\ attempt' = attempt + 1 /\ result' = r
      /\ told \in Seq(Verdicts) /\ Len(told) = attempt
    BY DEF LoopInv, ToldInv, Return
<1>2. (GoesOn(r) /\ pc' = "backoff" /\ attempt + 1 < call.maxRetries) \/ pc' = "done"
    BY DEF Return, GoesOn
<1>3. /\ told' \in Seq(Verdicts) /\ Len(told') = attempt + 1
      /\ \A i \in 1..attempt : told'[i] = told[i]
      /\ told'[attempt + 1] = v
    BY <1>1
<1>4. \A i \in 1..attempt : told[i] \in Doubts
    BY DEF ToldInv
<1>5. \A i \in 1..(attempt + 1) : (pc' = "done" /\ i = attempt + 1) \/ told'[i] \in Doubts
    BY <1>1, <1>2, <1>3, <1>4
<1> QED
    BY <1>1, <1>2, <1>3, <1>5 DEF ToldInv

\* The verdict of an answer is a doubt whenever the loop goes on after it.
LEMMA ToldOfAnswer ==
    ASSUME NEW op, NEW status \in Nat, NEW body, NEW r, r = Answer(op, status, body)
    PROVE  /\ Told(status, r) \in Verdicts
           /\ GoesOn(r) => Told(status, r) \in Doubts
           /\ r.kind # "validation"
           /\ r.kind = "value" => success(status) /\ Told(status, r) = "done"
           /\ r.kind = "api" => \/ Told(status, r) = Told(r.status, r)
                                \/ op = "getQuote" /\ r.status = 404 /\ Told(status, r) = "done"
           /\ Told(status, r) = "refused" => status \in 400..499
<1>1. \/ ~success(status) /\ r.kind = "api" /\ r.status = status
      \/ success(status) /\ r.kind \in {"internal", "value"} /\ r.status = 0
      \/ success(status) /\ r.kind = "api" /\ r.status = 404 /\ op = "getQuote"
    BY AnswerKinds
<1>2. Told(status, r) = IF success(status)
                        THEN IF r.kind = "internal" THEN "garbled" ELSE "done"
                        ELSE IF status \in 400..499 THEN "refused" ELSE "failed"
    BY DEF Told, success
<1> QED
    BY <1>1, <1>2 DEF GoesOn, Verdicts, Doubts

-----------------------------------------------------------------------------
\* A call begins with nothing sent and nothing told.
LEMMA BeginStep == ASSUME CallInv, NEW op \in Ops, Begin(op) PROVE CallInv'
<1>1. PICK a \in Arguments, n \in RetryCounts :
        /\ call' = [op |-> op, valid |-> Valid(op, a), maxRetries |-> n]
        /\ pc' = IF n > 0 THEN "check" ELSE "done"
    BY DEF Begin
<1>2. /\ call'.maxRetries = n /\ n \in Nat
      /\ pc' \in {"check", "done"} /\ (pc' = "check" => n > 0)
    BY <1>1, ServicesAssumption
<1>3. call'.valid \in BOOLEAN
  <2>1. call'.valid = Valid(op, a)
    BY <1>1
  <2>2. Valid(op, a) \in BOOLEAN
    BY Zenon DEF Valid
  <2> QED
    BY <2>1, <2>2
<1>4. attempt = 0 /\ sent = 0 /\ executed = 0 /\ Len(told) = 0 /\ result.kind = "internal"
    BY DEF Begin, CallInv, LoopInv, ToldInv, ResultInv
<1>5. UNCHANGED <<attempt, result, sent, executed, told>>
    BY DEF Begin
<1>6. LoopInv'
    BY <1>2, <1>3, <1>4, <1>5 DEF LoopInv
<1>7. ToldInv'
    BY <1>4, <1>5 DEF CallInv, ToldInv
<1>8. ResultInv'
    BY <1>2, <1>4, <1>5 DEF ResultInv
<1> QED
    BY <1>6, <1>7, <1>8 DEF CallInv

\* The checks: refused arguments end the attempt, good ones send the request.
LEMMA CheckStep == ASSUME CallInv, Check PROVE CallInv'
<1>0. LoopInv /\ ToldInv /\ ResultInv /\ pc = "check" /\ call' = call /\ executed' = executed
    BY DEF CallInv, Check
<1>1. CASE call.valid
  <2>1. pc' = "sent" /\ sent' = sent + 1 /\ UNCHANGED <<attempt, result, told>>
    BY <1>1 DEF Check
  <2>2. LoopInv'
    BY <1>0, <1>1, <2>1 DEF LoopInv
  <2>3. ToldInv'
    BY <1>0, <2>1 DEF ToldInv
  <2>4. ResultInv'
    BY <1>0, <2>1 DEF ResultInv
  <2> QED
    BY <2>2, <2>3, <2>4 DEF CallInv
<1>2. CASE ~call.valid
  <2>1. /\ Return(Error("validation", 0)) /\ told' = Append(told, "nothing") /\ sent' = sent
    BY <1>2 DEF Check
  <2>2. /\ attempt' = attempt + 1 /\ result' = Error("validation", 0)
        /\ \/ pc' = "done" /\ attempt' <= call'.maxRetries
           \/ pc' = "backoff" /\ attempt' < call'.maxRetries
        /\ told'[attempt'] = "nothing"
        /\ ToldInv'
    BY <1>0, <2>1, ReturnStep DEF Verdicts, Doubts
  <2>3. executed = 0 /\ sent = 0
    BY <1>0, <1>2 DEF LoopInv
  <2>4. LoopInv'
    BY <1>0, <1>2, <2>1, <2>2, <2>3 DEF LoopInv
  <2>5. ResultInv'
    <3>1. result'.kind = "validation" /\ attempt' # 0 /\ pc' # "idle" /\ attempt \in Nat
      BY <1>0, <2>2 DEF Error, LoopInv
    <3> QED
      BY <1>0, <1>2, <2>2, <2>3, <3>1 DEF ResultInv
  <2> QED
    BY <2>2, <2>4, <2>5 DEF CallInv
<1> QED
    BY <1>1, <1>2

\* An answer, or its absence, ends the attempt: what every such end keeps.
LEMMA EndStep ==
    ASSUME CallInv, pc = "sent", NEW r, NEW v \in Verdicts, Return(r), told' = Append(told, v),
           UNCHANGED <<call, sent>>, executed' \in {executed, executed + 1},
           GoesOn(r) => v \in Doubts,
           r.kind # "validation",
           r.kind = "value" => executed' = executed + 1 /\ v = "done",
           r.kind = "api" => \/ v = Told(r.status, r)
                             \/ call.op = "getQuote" /\ r.status = 404 /\ v = "done",
           v = "refused" => executed' = executed
    PROVE  CallInv'
<1>0. LoopInv /\ ToldInv /\ ResultInv
    BY DEF CallInv
<1>1. /\ attempt' = attempt + 1 /\ result' = r
      /\ \/ pc' = "done" /\ attempt' <= call'.maxRetries
         \/ pc' = "backoff" /\ attempt' < call'.maxRetries
      /\ told'[attempt'] = v
      /\ ToldInv'
    BY <1>0, ReturnStep
<1>2. attempt \in Nat /\ executed \in Nat /\ executed <= attempt /\ call.valid
    BY <1>0 DEF LoopInv
<1>3. LoopInv'
    BY <1>0, <1>1, <1>2 DEF LoopInv
<1>4. attempt' = 1 => executed = 0
    BY <1>1, <1>2
<1>5. attempt' \in Nat /\ attempt' > 0 /\ pc' # "idle"
    BY <1>1, <1>2
<1>6. executed' \in Nat /\ (executed' = executed + 1 => executed' > 0)
    BY <1>2
<1>7. ResultInv'
    BY <1>1, <1>4, <1>5, <1>6 DEF ResultInv
<1> QED
    BY <1>1, <1>3, <1>7 DEF CallInv

\* The server's answer.
LEMMA AnsweredStep ==
    ASSUME CallInv, NEW status \in Statuses, NEW body, Answered(status, body) PROVE CallInv'
<1> DEFINE r == Answer(call.op, status, body)
           v == Told(status, r)
<1>1. /\ v \in Verdicts
      /\ GoesOn(r) => v \in Doubts
      /\ r.kind # "validation"
      /\ r.kind = "value" => success(status) /\ v = "done"
      /\ r.kind = "api" => \/ v = Told(r.status, r)
                           \/ call.op = "getQuote" /\ r.status = 404 /\ v = "done"
      /\ v = "refused" => status \in 400..499
    BY ServicesAssumption, ToldOfAnswer
<1>2. pc = "sent" /\ Return(r) /\ told' = Append(told, v) /\ UNCHANGED <<call, sent>>
    BY DEF Answered
<1>3. /\ executed' \in {executed, executed + 1}
      /\ success(status) => executed' = executed + 1
      /\ status \in 400..499 => executed' = executed
    BY DEF Answered
<1> HIDE DEF r, v
<1> QED
    BY <1>1, <1>2, <1>3, EndStep, ZenonT(60)

\* No answer.
LEMMA NoAnswerStep == ASSUME CallInv, NoAnswer PROVE CallInv'
<1> DEFINE r == Error("network", 0)
<1>1. r.kind = "network"
    BY DEF Error
<1>2. pc = "sent" /\ Return(r) /\ told' = Append(told, "nothing") /\ UNCHANGED <<call, sent>>
    BY DEF NoAnswer
<1>3. executed' \in {executed, executed + 1}
    BY DEF NoAnswer
<1> HIDE DEF r
<1> QED
    BY <1>1, <1>2, <1>3, EndStep DEF Verdicts, Doubts

\* Every step keeps the invariant.
LEMMA CallStep == CallInv /\ [Next]_vars => CallInv'
<1> SUFFICES ASSUME CallInv, [Next]_vars PROVE CallInv'
    OBVIOUS
<1>1. CASE \E op \in Ops : Begin(op)
    BY <1>1, BeginStep
<1>2. CASE Check
    BY <1>2, CheckStep
<1>3. CASE Receive
    BY <1>3, AnsweredStep DEF Receive
<1>4. CASE NoAnswer
    BY <1>4, NoAnswerStep
<1>5. CASE BackoffOver
    BY <1>5 DEF BackoffOver, CallInv, LoopInv, ToldInv, ResultInv
<1>6. CASE NextCall
  <2>1. /\ pc' = "idle" /\ call' = NoCall /\ attempt' = 0 /\ result' = Error("internal", 0)
        /\ sent' = 0 /\ executed' = 0 /\ told' = <<>>
    BY <1>6 DEF NextCall
  <2>2. call'.maxRetries = 0 /\ call'.valid = FALSE /\ result'.kind = "internal"
    BY <2>1 DEF NoCall, Error
  <2>3. LoopInv'
    <3>1. ~call'.valid /\ call'.valid \in BOOLEAN
        BY <2>2, Zenon
    <3>2. 0 \in Nat /\ 0 <= 0 /\ ~(0 > 0)
        OBVIOUS
    <3> QED
        BY <2>1, <2>2, <3>1, <3>2, Zenon DEF LoopInv
  <2>4. ToldInv'
    BY <2>1 DEF ToldInv
  <2>5. ResultInv'
    BY <2>1, <2>2 DEF ResultInv
  <2> QED
    BY <2>3, <2>4, <2>5 DEF CallInv
<1>7. CASE UNCHANGED vars
    BY <1>7 DEF vars, CallInv, LoopInv, ToldInv, ResultInv
<1> QED
    BY <1>1, <1>2, <1>3, <1>4, <1>5, <1>6, <1>7 DEF Next, Step

\* Nothing has been called at first.
LEMMA CallInitially == Init => CallInv
<1> SUFFICES ASSUME Init PROVE CallInv
    OBVIOUS
<1>1. /\ pc = "idle" /\ attempt = 0 /\ sent = 0 /\ executed = 0 /\ told = <<>>
      /\ call.maxRetries = 0 /\ call.valid = FALSE /\ result.kind = "internal"
    BY DEF Init, NoCall, Error
<1>2. LoopInv
  <2>1. ~call.valid /\ call.valid \in BOOLEAN
    BY <1>1, Zenon
  <2>2. 0 \in Nat /\ 0 <= 0 /\ ~(0 > 0)
    OBVIOUS
  <2> QED
    BY <1>1, <2>1, <2>2, Zenon DEF LoopInv
<1>3. ToldInv
    BY <1>1 DEF ToldInv
<1>4. ResultInv
    BY <1>1 DEF ResultInv
<1> QED
    BY <1>2, <1>3, <1>4 DEF CallInv

\* The invariant of a call under retryWithBackoff() holds in every state.
THEOREM CallInvariant == Spec => []CallInv
BY CallInitially, CallStep, PTL DEF Spec

\* retryWithBackoff() makes at most maxRetries attempts, sends one request per
\* attempt and none with refused arguments, and the server carries out at most
\* one of each attempt.
THEOREM LoopIsBounded == Spec => []LoopInv
<1>1. CallInv => LoopInv
    BY DEF CallInv
<1> QED
    BY <1>1, CallInvariant, PTL

\* A request is sent again only after attempts that left the outcome in doubt.
THEOREM RepeatsInDoubt == Spec => []RepeatedOnlyInDoubt
<1>1. CallInv => RepeatedOnlyInDoubt
  <2> SUFFICES ASSUME CallInv, NEW i \in 1..Len(told) - 1 PROVE told[i] \in Doubts
    BY DEF RepeatedOnlyInDoubt, Doubts
  <2>1. attempt \in Nat /\ Len(told) = attempt
    BY DEF CallInv, LoopInv, ToldInv
  <2>2. i \in 1..attempt /\ i # attempt
    BY <2>1
  <2> QED
    BY <2>1, <2>2 DEF CallInv, ToldInv
<1> QED
    BY <1>1, CallInvariant, PTL

\* The result a caller is given tells what became of its call.
THEOREM ResultsTellEffects == Spec => []ResultTellsEffect
<1>1. CallInv => ResultTellsEffect
  <2> SUFFICES ASSUME CallInv, pc = "done" PROVE ResultTellsEffect
    BY DEF ResultTellsEffect
  <2>1. attempt \in Nat /\ Len(told) = attempt /\ Last(told) = told[attempt]
    BY DEF CallInv, LoopInv, ToldInv, Last
  <2>2. result.kind = "validation" => sent = 0
    BY DEF CallInv, LoopInv, ResultInv
  <2>3. CASE attempt = 0
    BY <2>1, <2>2, <2>3 DEF CallInv, ResultInv, ResultTellsEffect
  <2>4. CASE attempt > 0
    BY <2>1, <2>2, <2>4 DEF CallInv, ResultInv, ResultTellsEffect
  <2> QED
    BY <2>1, <2>3, <2>4
<1> QED
    BY <1>1, CallInvariant, PTL

-----------------------------------------------------------------------------
(* Sequences of which some elements are left out.                          *)

\* The number of positions in `at' up to i.
Rank(at, i) == Cardinality({k \in at : k <= i})

\* Ranks of a finite set of positions are in 1..Cardinality(at), and grow with
\* the positions.
LEMMA RankGrows ==
    ASSUME NEW at \in SUBSET Nat, IsFiniteSet(at)
    PROVE  /\ Cardinality(at) \in Nat
           /\ \A i \in at : Rank(at, i) \in 1..Cardinality(at)
           /\ \A i, k \in at : i < k => Rank(at, i) < Rank(at, k)
<1> DEFINE upTo(i) == {k \in at : k <= i}
<1>1. Cardinality(at) \in Nat
    BY FS_CardinalityType
<1>2. ASSUME NEW i \in at
      PROVE  IsFiniteSet(upTo(i)) /\ Cardinality(upTo(i)) \in 1..Cardinality(at)
  <2>1. IsFiniteSet(upTo(i)) /\ Cardinality(upTo(i)) <= Cardinality(at)
    BY FS_Subset
  <2>2. Cardinality(upTo(i)) \in Nat
    BY <2>1, FS_CardinalityType
  <2>3. i \in upTo(i)
    OBVIOUS
  <2>4. Cardinality(upTo(i)) # 0
    BY <2>1, <2>3, FS_EmptySet
  <2> QED
    BY <1>1, <2>1, <2>2, <2>4
<1>3. ASSUME NEW i \in at, NEW k \in at, i < k
      PROVE  Cardinality(upTo(i)) < Cardinality(upTo(k))
  <2>1. upTo(i) \subseteq upTo(k) /\ k \in upTo(k) /\ k \notin upTo(i)
    <3>1. i \in Nat /\ k \in Nat /\ i < k
        BY <1>3
    <3>2. \A x \in at : x <= i => x <= k
        BY <3>1
    <3>3. k <= k /\ ~(k <= i)
        BY <3>1
    <3> QED
        BY <3>2, <3>3
  <2>2. IsFiniteSet(upTo(k)) /\ Cardinality(upTo(k)) \in Nat /\ Cardinality(upTo(i)) \in Nat
    BY <1>1, <1>2
  <2>3. /\ Cardinality(upTo(i)) <= Cardinality(upTo(k))
        /\ Cardinality(upTo(k)) = Cardinality(upTo(i)) => upTo(k) = upTo(i)
    BY <2>1, <2>2, FS_Subset
  <2> QED
    BY <2>1, <2>2, <2>3
<1> QED
    BY <1>1, <1>2, <1>3 DEF Rank

\* Every rank up to the number of positions is the rank of one of them.
LEMMA RankReached ==
    ASSUME NEW at \in SUBSET Nat, IsFiniteSet(at), NEW n \in 1..Cardinality(at)
    PROVE  \E i \in at : Rank(at, i) = n
<1> DEFINE m == Cardinality(at)
           f == [i \in at |-> Rank(at, i)]
<1>1. /\ m \in Nat /\ f \in [at -> 1..m]
      /\ \A i, k \in at : i < k => f[i] < f[k]
    BY RankGrows
<1>2. f \in Injection(at, 1..m)
  <2>1. ASSUME NEW i \in at, NEW k \in at, f[i] = f[k] PROVE i = k
    <3>1. f[i] \in Nat /\ ~(f[i] < f[k]) /\ ~(f[k] < f[i])
        BY <1>1, <2>1
    <3>2. ~(i < k) /\ ~(k < i)
        BY <1>1, <3>1
    <3> QED
        BY <3>2
  <2> QED
    BY <1>1, <2>1 DEF Injection, IsInjective
<1>3. IsFiniteSet(1..m) /\ Cardinality(1..m) = m
    BY <1>1, FS_Interval
<1>4. f \in Surjection(at, 1..m)
    BY <1>2, <1>3, FS_Injection
<1> QED
    BY <1>4 DEF Surjection

\* Picked(s, at), by which the readers leave out null elements, takes each element
\* at a position in `at' once and keeps their order: there is a strictly increasing
\* enumeration of `at' along which it reads s.
THEOREM PickedInOrder ==
    ASSUME NEW S, NEW s \in Seq(S), NEW at \in SUBSET (DOMAIN s)
    PROVE  /\ Picked(s, at) \in Seq(S)
           /\ Len(Picked(s, at)) = Cardinality(at)
           /\ \E p \in [1..Cardinality(at) -> at] :
                /\ \A n \in 1..Cardinality(at) : Picked(s, at)[n] = s[p[n]]
                /\ \A n, k \in 1..Cardinality(at) : n < k => p[n] < p[k]
                /\ \A i \in at : \E n \in 1..Cardinality(at) : p[n] = i
<1> DEFINE m == Cardinality(at)
           p == [n \in 1..m |-> CHOOSE i \in at : Rank(at, i) = n]
<1>1. at \in SUBSET Nat /\ IsFiniteSet(at)
  <2>1. DOMAIN s = 1..Len(s) /\ Len(s) \in Nat
    OBVIOUS
  <2>2. IsFiniteSet(1..Len(s))
    BY <2>1, FS_Interval
  <2> QED
    BY <2>1, <2>2, FS_Subset
<1>2. m \in Nat
    BY <1>1, RankGrows
<1>3. \A n \in 1..m : p[n] \in at /\ Rank(at, p[n]) = n
    BY <1>1, RankReached
<1>4. Picked(s, at) = [n \in 1..m |-> s[p[n]]]
    BY DEF Picked, Rank
<1>5. Picked(s, at) \in Seq(S) /\ Len(Picked(s, at)) = m
  <2>1. \A n \in 1..m : s[p[n]] \in S
    BY <1>3
  <2> HIDE DEF m, p
  <2> QED
    BY <1>2, <1>4, <2>1
<1>6. ASSUME NEW n \in 1..m, NEW k \in 1..m, n < k PROVE p[n] < p[k]
  <2>1. p[n] \in at /\ p[k] \in at /\ Rank(at, p[n]) < Rank(at, p[k])
    BY <1>3, <1>6
  <2>2. Rank(at, p[n]) \in Nat /\ Rank(at, p[k]) \in Nat
    BY <1>3
  <2>3. \A i, j \in at : i < j => Rank(at, i) < Rank(at, j)
    BY <1>1, RankGrows
  <2> HIDE DEF m, p
  <2>4. ~(p[k] < p[n]) /\ p[k] # p[n]
    BY <2>1, <2>2, <2>3
  <2> QED
    BY <1>1, <2>1, <2>4
<1>7. ASSUME NEW i \in at PROVE \E n \in 1..m : p[n] = i
  <2>1. Rank(at, i) \in 1..m
    BY <1>1, RankGrows
  <2>2. PICK n \in 1..m : n = Rank(at, i)
    BY <2>1
  <2>3. p[n] \in at /\ Rank(at, p[n]) = Rank(at, i)
    BY <1>3, <2>2
  <2>4. ~(p[n] < i) /\ ~(i < p[n])
    BY <1>1, <2>1, <2>3, RankGrows
  <2> QED
    BY <1>1, <2>3, <2>4
<1>8. p \in [1..m -> at]
    BY <1>3
<1> QED
    BY <1>4, <1>5, <1>6, <1>7, <1>8

\* Where nothing is left out, the sequence stays as it is.
LEMMA PickedAll == ASSUME NEW S, NEW s \in Seq(S) PROVE Picked(s, DOMAIN s) = s
<1> DEFINE at == DOMAIN s
           rank(i) == Cardinality({k \in at : k <= i})
           nth(n) == CHOOSE i \in at : rank(i) = n
<1>1. Len(s) \in Nat /\ at = 1..Len(s) /\ s = [n \in 1..Len(s) |-> s[n]]
    OBVIOUS
<1>2. \A b \in Nat : Cardinality(1..b) = b
  <2>1. \A b \in Nat : Cardinality(1..b) = IF 1 > b THEN 0 ELSE b - 1 + 1
    BY FS_Interval
  <2> QED
    BY <2>1
<1>3. Picked(s, at) = [n \in 1..Cardinality(at) |-> s[nth(n)]]
    BY DEF Picked
<1>4. ASSUME NEW i \in at PROVE rank(i) = i
  <2>1. {k \in at : k <= i} = 1..i
    BY <1>1
  <2>2. i \in Nat
    BY <1>1
  <2> QED
    BY <1>2, <2>1, <2>2, Zenon
<1> HIDE DEF at, rank
<1>5. \A n \in at : nth(n) = n
    BY <1>4
<1> HIDE DEF nth
<1> QED
    BY <1>1, <1>2, <1>3, <1>5 DEF at

-----------------------------------------------------------------------------
(* Documents and what is found in them.                                    *)

\* A content is a value without elements, an object, or an array of elements.
LEMMA ContentShape ==
    ASSUME NEW j \in Contents
    PROVE  \/ j \in {Absent, Null, Odd, Good}
           \/ j.t = "object" /\ j \in ElementValues
           \/ j.t = "array" /\ j.a \in Seq(ElementValues)
<1>1. CASE j = Absent
    BY <1>1
<1>2. CASE j \in ElementValues
  <2>1. j \in {Null, Odd, Good} \/ \E f : j = Obj(f)
    BY <1>2 DEF ElementValues
  <2> QED
    BY <1>2, <2>1 DEF Obj
<1>3. CASE \E s \in BoundedSeq(ElementValues, MaxItems) : j = Arr(s)
  <2>1. PICK m \in 0..MaxItems : \E s \in [1..m -> ElementValues] : j = Arr(s)
    BY <1>3 DEF BoundedSeq, SeqOf
  <2>2. m \in Nat
    BY ServicesAssumption
  <2>3. PICK s \in [1..m -> ElementValues] : j = Arr(s)
    BY <2>1
  <2> HIDE DEF Contents
  <2>4. s \in Seq(ElementValues)
    BY <2>2
  <2> QED
    BY <2>3, <2>4 DEF Arr
<1> QED
    BY <1>1, <1>2, <1>3 DEF Contents

\* The elements of a content, without its nulls, are in the order of the document.
LEMMA ElementsType ==
    ASSUME NEW j \in Contents PROVE Elements(j) \in Seq(ElementValues)
<1>1. CASE j \in {Absent, Null, Odd, Good}
    BY <1>1 DEF Elements, Absent, Null, Odd, Good
<1>2. CASE j.t = "object" /\ j \in ElementValues
    BY <1>2 DEF Elements
<1>3. CASE j.t = "array" /\ j.a \in Seq(ElementValues)
  <2>1. Picked(j.a, {i \in DOMAIN j.a : j.a[i] # Null}) \in Seq(ElementValues)
    BY <1>3, PickedInOrder
  <2> QED
    BY <1>3, <2>1 DEF Elements, NotNull
<1> QED
    BY <1>1, <1>2, <1>3, ContentShape

\* What an envelope of two keys holds is found under them.
LEMMA Found ==
    ASSUME NEW key, NEW j PROVE At(In(key, j), key) = j
BY DEF At, In, Obj, NoMembers, Absent

LEMMA FoundInside ==
    ASSUME NEW outer, NEW inner, NEW j PROVE Path(In2(outer, inner, j), outer, inner) = j
<1>1. At(In(outer, In(inner, j)), outer) = In(inner, j) /\ At(In(inner, j), inner) = j
    BY Found
<1> QED
    BY <1>1 DEF Path, In2

\* A body that is no object holds nothing.
LEMMA NothingFound ==
    ASSUME NEW body \in {Null, Odd}, NEW outer, NEW inner
    PROVE  At(body, outer) = Absent /\ Path(body, outer, inner) = Absent
BY DEF At, Path, Null, Odd, Absent

-----------------------------------------------------------------------------
(* Members and whole answers.                                              *)

AnyMembers == [Classes -> {"got", "default", "throw"}]

\* A default object throws nothing.
LEMMA BlankType == Blank \in AnyMembers
BY DEF Blank, AnyMembers

\* Whatever the document, a member is got, left at its default, or throws.
LEMMA TakeType ==
    ASSUME NEW classes, NEW j
    PROVE  Take(classes, j) \in AnyMembers /\ TakeIfObject(classes, j) \in AnyMembers
<1>1. \A c \in Classes : Member(c, j) \in {"got", "default", "throw"}
    BY DEF Classes, Member, Plain, Checked, Nullable, Nested
<1>2. Take(classes, j) \in AnyMembers
    BY <1>1 DEF Take, AnyMembers
<1> QED
    BY <1>2, BlankType DEF TakeIfObject

\* An answer that was read has members that were got or are at their defaults.
Sound(p) == p.ok => p.head \in Members /\ p.items \in Seq(Members)

LEMMA ReadSound ==
    ASSUME NEW head \in AnyMembers, NEW items \in Seq(AnyMembers)
    PROVE  /\ Sound(Read(head, items))
           /\ Read(head, items).ok => /\ Read(head, items).items = items
                                      /\ \A c \in Classes : \A i \in DOMAIN items : items[i][c] # "throw"
<1> DEFINE thrown == \E c \in Classes : head[c] = "throw" \/ \E i \in DOMAIN items : items[i][c] = "throw"
<1>1. CASE thrown
  <2>1. Read(head, items) = Thrown
    BY <1>1 DEF Read
  <2>2. ~Thrown.ok
    BY DEF Thrown
  <2> QED
    BY <2>1, <2>2 DEF Sound
<1>2. CASE ~thrown
  <2>1. Read(head, items) = [ok |-> TRUE, head |-> head, items |-> items]
    BY <1>2 DEF Read
  <2>2. Read(head, items).items = items /\ Read(head, items).head = head
    BY <2>1
  <2>3. head \in Members
    BY <1>2 DEF AnyMembers, Members
  <2>4. \A i \in 1..Len(items) : items[i] \in Members
    BY <1>2 DEF AnyMembers, Members
  <2>5. items \in Seq(Members)
    BY <2>4
  <2> QED
    BY <1>2, <2>2, <2>3, <2>5 DEF Sound
<1> QED
    BY <1>1, <1>2

\* One entry per element, whatever the elements.
LEMMA EntriesType ==
    ASSUME NEW S, NEW s \in Seq(S), NEW classes
    PROVE  /\ [i \in DOMAIN s |-> TakeIfObject(classes, s[i])] \in Seq(AnyMembers)
           /\ Len([i \in DOMAIN s |-> TakeIfObject(classes, s[i])]) = Len(s)
           /\ Rows(s) \in Seq(AnyMembers)
           /\ Len(Rows(s)) = Len(s)
<1> DEFINE n == Len(s)
           entries == [i \in 1..n |-> TakeIfObject(classes, s[i])]
           rows == [i \in 1..n |-> Take({"plain"}, s[i])]
<1>1. n \in Nat /\ DOMAIN s = 1..n
    OBVIOUS
<1>2. entries \in [1..n -> AnyMembers] /\ rows \in [1..n -> AnyMembers]
    BY TakeType
<1>3. entries = [i \in DOMAIN s |-> TakeIfObject(classes, s[i])] /\ rows = Rows(s)
    BY <1>1 DEF Rows
<1> HIDE DEF n, entries, rows
<1>4. entries \in Seq(AnyMembers) /\ Len(entries) = n /\ rows \in Seq(AnyMembers) /\ Len(rows) = n
    BY <1>1, <1>2
<1> QED
    BY <1>3, <1>4 DEF n

\* A plain member is got exactly when the element has it.
LEMMA PlainGot ==
    ASSUME NEW classes, "plain" \in classes, NEW x
    PROVE  /\ TakeIfObject(classes, x)["plain"] = "got" <=> At(x, "plain") = Good
           /\ Take(classes, x)["plain"] = "got" <=> At(x, "plain") = Good
           /\ x = Null => Take(classes, x)["plain"] = "throw"
<1>1. Take(classes, x)["plain"] = Plain(x, "plain")
    BY DEF Take, Member, Classes
<1>2. Plain(x, "plain") = "got" <=> At(x, "plain") = Good
    BY DEF Plain, At, Good, Absent
<1>3. x.t # "object" => At(x, "plain") # Good /\ Plain(x, "plain") = "throw"
    BY DEF Plain, At, Good, Absent
<1>4. Blank["plain"] = "default" /\ Null.t # "object"
    BY DEF Blank, Classes, Null
<1> QED
    BY <1>1, <1>2, <1>3, <1>4 DEF TakeIfObject

\* The entries are those of the elements of j: what ListIsComplete asks of an answer.
Complete(items, j, classes) ==
    /\ Len(items) = Len(Elements(j))
    /\ "plain" \in classes => \A i \in DOMAIN Elements(j) :
          items[i]["plain"] = "got" <=> At(Elements(j)[i], "plain") = Good

\* A list that was read is complete.
LEMMA ListComplete ==
    ASSUME NEW j \in Contents, NEW classes
    PROVE  /\ Sound(List(j, classes))
           /\ List(j, classes).ok => Complete(List(j, classes).items, j, classes)
<1> DEFINE s == Elements(j)
           items == [i \in DOMAIN s |-> TakeIfObject(classes, s[i])]
<1>1. s \in Seq(ElementValues)
    BY ElementsType
<1>2. items \in Seq(AnyMembers) /\ Len(items) = Len(s)
    BY <1>1, EntriesType
<1>3. List(j, classes) = Read(Blank, items)
    BY DEF List
<1>4. Blank \in AnyMembers
    BY BlankType
<1>5. "plain" \in classes =>
        \A i \in DOMAIN s : items[i]["plain"] = "got" <=> At(s[i], "plain") = Good
    BY PlainGot
<1> HIDE DEF items, s
<1>6. Sound(Read(Blank, items)) /\ (Read(Blank, items).ok => Read(Blank, items).items = items)
    BY <1>2, <1>4, ReadSound
<1> QED
    BY <1>2, <1>3, <1>5, <1>6 DEF Complete, s

\* So is a list read without a test of its elements: had one been null, reading it
\* would have thrown.
LEMMA UnguardedComplete ==
    ASSUME NEW j \in Contents
    PROVE  /\ Unguarded(j) \in Seq(AnyMembers)
           /\ Read(Blank, Unguarded(j)).ok => Complete(Unguarded(j), j, {"plain"})
<1> DEFINE s == CASE j.t = "array" -> j.a [] j.t = "object" -> <<j>> [] OTHER -> <<>>
<1>1. s \in Seq(ElementValues)
    BY ContentShape DEF Absent, Null, Odd, Good
<1>2. Unguarded(j) = Rows(s)
    BY DEF Unguarded
<1>3. Rows(s) \in Seq(AnyMembers) /\ Len(Rows(s)) = Len(s)
  <2> HIDE DEF s
  <2> QED
    BY <1>1, EntriesType
<1>4. Blank \in AnyMembers
    BY BlankType
<1>5. \A i \in DOMAIN s : /\ Rows(s)[i]["plain"] = "got" <=> At(s[i], "plain") = Good
                          /\ s[i] = Null => Rows(s)[i]["plain"] = "throw"
  <2> HIDE DEF s
  <2> QED
    BY PlainGot DEF Rows
<1>6. ASSUME Read(Blank, Rows(s)).ok PROVE Elements(j) = s
  <2>1. \A c \in Classes : \A i \in DOMAIN Rows(s) : Rows(s)[i][c] # "throw"
    BY <1>3, <1>4, <1>6, ReadSound
  <2>2. DOMAIN Rows(s) = DOMAIN s /\ "plain" \in Classes
    BY DEF Rows, Classes
  <2>3. \A i \in DOMAIN s : s[i] # Null
    BY <1>5, <2>1, <2>2
  <2>4. CASE j.t = "array"
    <3>1. s = j.a /\ Elements(j) = NotNull(j.a)
        BY <2>4 DEF Elements
    <3>2. {i \in DOMAIN j.a : j.a[i] # Null} = DOMAIN j.a
        BY <2>3, <3>1
    <3>3. Picked(j.a, DOMAIN j.a) = j.a
        BY <1>1, <3>1, PickedAll
    <3> HIDE DEF s
    <3> QED
        BY <3>1, <3>2, <3>3 DEF NotNull
  <2>5. CASE j.t # "array"
    BY <2>5 DEF Elements
  <2> QED
    BY <2>4, <2>5
<1> HIDE DEF s
<1> QED
    BY <1>2, <1>3, <1>5, <1>6 DEF Complete

-----------------------------------------------------------------------------
(* The list readers at their envelopes.                                    *)

\* What the server's body says of a list.
Sent(reader, body, j) == body = Envelope(reader, j) \/ (j = Absent /\ body \in {Null, Odd})

\* The content of a body: what its envelope holds, Absent for a body that is no
\* object.
LEMMA BodyContent ==
    ASSUME NEW reader, NEW body \in Bodies(reader), body # NotJson
    PROVE  \E j \in Contents : Sent(reader, body, j)
<1>1. Absent \in Contents
    BY DEF Contents
<1>2. body \in {Null, Odd} \/ \E j \in Contents : body = Envelope(reader, j)
    BY DEF Bodies
<1> QED
    BY <1>1, <1>2 DEF Sent

\* The place of the content, for the envelopes of one key and of two.
LEMMA ContentAt ==
    ASSUME NEW reader, NEW body, NEW j, Sent(reader, body, j), NEW key, Envelope(reader, j) = In(key, j)
    PROVE  At(body, key) = j
BY Found, NothingFound DEF Sent

LEMMA ContentInside ==
    ASSUME NEW reader, NEW body, NEW j, Sent(reader, body, j), NEW outer, NEW inner,
           Envelope(reader, j) = In2(outer, inner, j)
    PROVE  Path(body, outer, inner) = j
BY FoundInside, NothingFound DEF Sent

\* A list reader's answer that was read is the list of the body.
LEMMA ListReaderComplete ==
    ASSUME NEW reader \in ListReaders, NEW body \in Bodies(reader), parseResponse(reader, body).ok
    PROVE  \E j \in Contents :
               /\ Sent(reader, body, j)
               /\ Complete(parseResponse(reader, body).items, j,
                           IF reader = "securities" THEN {} ELSE {"plain"})
<1> DEFINE p == parseResponse(reader, body)
<1>1. body # NotJson
  <2>1. ~Thrown.ok
    BY DEF Thrown
  <2>2. body = NotJson => p = Thrown
    BY DEF parseResponse
  <2> QED
    BY <2>1, <2>2
<1>2. PICK j \in Contents : Sent(reader, body, j)
    BY <1>1, BodyContent
<1>3. ASSUME NEW outer, NEW inner, Envelope(reader, j) = In2(outer, inner, j)
      PROVE  Path(body, outer, inner) = j
    BY <1>2, <1>3, ContentInside
<1>4. ASSUME NEW outer, NEW inner, Envelope(reader, j) = In2(outer, inner, j),
             NEW classes, p = List(Path(body, outer, inner), classes),
             reader # "securities" => "plain" \in classes
      PROVE  Complete(p.items, j, IF reader = "securities" THEN {} ELSE {"plain"})
  <2>1. Path(body, outer, inner) = j
    BY <1>3, <1>4
  <2>2. p.ok /\ p = List(j, classes)
    BY <1>4, <2>1
  <2> HIDE DEF p
  <2>3. Complete(p.items, j, classes)
    BY <2>2, ListComplete
  <2> QED
    BY <1>4, <2>3 DEF Complete
<1>5. CASE reader = "quotes"
    BY <1>1, <1>4, <1>5, <1>2 DEF Envelope, parseResponse, parseQuotes
<1>6. CASE reader = "chains"
    BY <1>1, <1>4, <1>6, <1>2 DEF Envelope, parseResponse, parseOptionChains
<1>7. CASE reader = "expirations"
    BY <1>1, <1>4, <1>7, <1>2 DEF Envelope, parseResponse, parseExpirations
<1>8. CASE reader = "days"
    BY <1>1, <1>4, <1>8, <1>2 DEF Envelope, parseResponse, parseHistoricalDataList
<1>9. CASE reader = "sales"
    BY <1>1, <1>4, <1>9, <1>2 DEF Envelope, parseResponse, parseTimeSalesList
<1>10. CASE reader = "securities"
    BY <1>1, <1>4, <1>10, <1>2 DEF Envelope, parseResponse, parseSecurities
<1>11. CASE reader = "summaries"
  <2>1. Envelope(reader, j) = In2("watchlists", "watchlist", j)
    BY <1>11 DEF Envelope
  <2>2. p = Read(Blank, Unguarded(j))
    BY <1>1, <1>3, <1>11, <2>1 DEF parseResponse, watchlistSummaries
  <2>3. Blank \in AnyMembers
    BY BlankType
  <2>4. p.ok
    OBVIOUS
  <2> HIDE DEF p
  <2>5. p.items = Unguarded(j) /\ Complete(Unguarded(j), j, {"plain"})
    BY <2>2, <2>3, <2>4, UnguardedComplete, ReadSound
  <2>6. Complete(p.items, j, {"plain"})
    BY <2>5
  <2> QED
    BY <1>2, <1>11, <2>6 DEF p
<1> QED
    BY <1>5, <1>6, <1>7, <1>8, <1>9, <1>10, <1>11 DEF ListReaders

Readers == {"quotes", "quote", "chains", "strikes", "expirations", "optionSymbols", "days", "sales",
            "securities", "clock", "calendar", "company", "events", "dividends", "actions", "ratios",
            "statements", "statistics", "account", "profile", "balances", "positions", "orders",
            "order", "history", "summaries", "watchlist", "placed", "preview", "cancelled"}

\* Every call has a reader, and getQuote() is the only one with the reader "quote".
LEMMA CallReader ==
    ASSUME NEW op \in DOMAIN Calls
    PROVE  /\ Calls[op].reader \in Readers
           /\ op = "getQuote" => Calls[op].reader = "quote"
<1> DEFINE table == CHOOSE table \in CallTables : op \in DOMAIN table
<1>1. table \in CallTables /\ op \in DOMAIN table
    BY DEF Calls
<1>2. Calls[op] = table[op]
    BY DEF Calls
<1> HIDE DEF table
<1>3. \A c \in DOMAIN QuoteCalls : /\ QuoteCalls[c].reader \in Readers
                                   /\ c = "getQuote" => QuoteCalls[c].reader = "quote"
    BY DEF QuoteCalls, Row, Readers
<1>4. \A c \in DOMAIN OptionCalls : OptionCalls[c].reader \in Readers /\ c # "getQuote"
    BY DEF OptionCalls, Row, Readers
<1>5. \A c \in DOMAIN HistoryCalls : HistoryCalls[c].reader \in Readers /\ c # "getQuote"
    BY DEF HistoryCalls, Row, Readers
<1>6. \A c \in DOMAIN LookupCalls : LookupCalls[c].reader \in Readers /\ c # "getQuote"
    BY DEF LookupCalls, Row, Readers
<1>7. \A c \in DOMAIN FundamentalsCalls : FundamentalsCalls[c].reader \in Readers /\ c # "getQuote"
    BY DEF FundamentalsCalls, Row, Readers
<1>8. \A c \in DOMAIN AccountCalls : AccountCalls[c].reader \in Readers /\ c # "getQuote"
    BY DEF AccountCalls, Row, Readers
<1>9. \A c \in DOMAIN WatchlistCalls : WatchlistCalls[c].reader \in Readers /\ c # "getQuote"
    BY DEF WatchlistCalls, Row, Readers
<1>10. \A c \in DOMAIN WatchlistUpdates : WatchlistUpdates[c].reader \in Readers /\ c # "getQuote"
    BY DEF WatchlistUpdates, Row, Readers
<1>11. \A c \in DOMAIN WatchlistSymbols : WatchlistSymbols[c].reader \in Readers /\ c # "getQuote"
    BY DEF WatchlistSymbols, Row, Readers
<1>12. \A c \in DOMAIN OrderCalls : OrderCalls[c].reader \in Readers /\ c # "getQuote"
    BY DEF OrderCalls, Row, Readers
<1>13. \A c \in DOMAIN ComplexOrderCalls : ComplexOrderCalls[c].reader \in Readers /\ c # "getQuote"
    BY DEF ComplexOrderCalls, Row, Readers
<1>14. \A c \in DOMAIN OptionOrderCalls : OptionOrderCalls[c].reader \in Readers /\ c # "getQuote"
    BY DEF OptionOrderCalls, Row, Readers
<1> QED
    BY <1>1, <1>2, <1>3, <1>4, <1>5, <1>6, <1>7, <1>8, <1>9, <1>10, <1>11, <1>12, <1>13, <1>14
    DEF CallTables

-----------------------------------------------------------------------------
(* Lists arrive complete.                                                  *)

\* A value is what the call made of the body it got last, one of those the server
\* sends for it.
GotInv ==
    /\ pc # "idle" => call.op \in Ops
    /\ pc = "done" /\ result.kind = "value" =>
         /\ got \in Bodies(Calls[call.op].reader)
         /\ \E status \in Statuses : result = Answer(call.op, status, got)

\* Every step keeps the origin of a value.
LEMMA GotStep == CallInv /\ GotInv /\ [Next]_vars => GotInv'
<1> SUFFICES ASSUME CallInv, GotInv, [Next]_vars PROVE GotInv'
    OBVIOUS
<1>1. CASE \E op \in Ops : Begin(op)
  <2>1. PICK op \in Ops : Begin(op)
    BY <1>1
  <2>2. call'.op = op /\ pc = "idle" /\ result' = result
    BY <2>1 DEF Begin
  <2>3. result.kind = "internal"
    BY <2>2 DEF CallInv, ResultInv
  <2> QED
    BY <2>2, <2>3 DEF GotInv
<1>2. CASE Check
  <2>1. call' = call /\ pc = "check" /\ (pc' # "done" \/ result' = Error("validation", 0))
    BY <1>2 DEF Check, Return
  <2> QED
    BY <2>1 DEF GotInv, Error
<1>3. CASE Receive
  <2>1. PICK status \in Statuses :
            \E body \in (IF success(status) THEN Bodies(Calls[call.op].reader) ELSE {NotJson}) :
                Answered(status, body)
    BY <1>3 DEF Receive
  <2>2. PICK body \in (IF success(status) THEN Bodies(Calls[call.op].reader) ELSE {NotJson}) :
                Answered(status, body)
    BY <2>1
  <2>3. /\ pc = "sent" /\ call' = call /\ got' = body
        /\ result' = Answer(call.op, status, body)
    BY <2>2 DEF Answered, Return
  <2>4. result'.kind = "value" => success(status)
    BY <2>3, AnswerKinds
  <2>5. result'.kind = "value" => got' \in Bodies(Calls[call.op].reader)
    BY <2>2, <2>3, <2>4
  <2> QED
    BY <2>3, <2>5 DEF GotInv
<1>4. CASE NoAnswer
  <2>1. call' = call /\ pc = "sent" /\ result' = Error("network", 0)
    BY <1>4 DEF NoAnswer, Return
  <2> QED
    BY <2>1 DEF GotInv, Error
<1>5. CASE BackoffOver
    BY <1>5 DEF BackoffOver, GotInv
<1>6. CASE NextCall
    BY <1>6 DEF NextCall, GotInv
<1>7. CASE UNCHANGED vars
    BY <1>7 DEF vars, GotInv
<1> QED
    BY <1>1, <1>2, <1>3, <1>4, <1>5, <1>6, <1>7 DEF Next, Step

\* Both invariants of a call hold in every state.
LEMMA GotInvariant == Spec => [](CallInv /\ GotInv)
<1>1. Init => GotInv
    BY DEF Init, GotInv
<1> QED
    BY <1>1, CallInitially, CallStep, GotStep, PTL DEF Spec

\* What a call that returns a value has parsed.
LEMMA ValueParsed ==
    ASSUME NEW op, NEW status, NEW body, Answer(op, status, body).kind = "value", op # "getQuote"
    PROVE  /\ parseResponse(Calls[op].reader, body).ok
           /\ Answer(op, status, body).items = parseResponse(Calls[op].reader, body).items
BY DEF Answer, Error, Value

\* What a list call returns is the list the server sent, complete and in order,
\* however long the list.
THEOREM ListsAreComplete == Spec => []ListIsComplete
<1>1. CallInv /\ GotInv => ListIsComplete
  <2> DEFINE reader == Calls[call.op].reader
  <2> SUFFICES ASSUME GotInv, pc = "done", result.kind = "value", reader \in ListReaders
               PROVE  \E j \in Contents :
                        /\ Sent(reader, got, j)
                        /\ Complete(result.items, j,
                                    IF reader = "securities" THEN {} ELSE {"plain"})
    BY DEF ListIsComplete, Complete, Sent
  <2>1. PICK status \in Statuses : result = Answer(call.op, status, got)
    BY DEF GotInv
  <2>2. got \in Bodies(reader) /\ call.op \in DOMAIN Calls
    BY OpsAssumption DEF GotInv
  <2>3. call.op # "getQuote"
    BY <2>2, CallReader DEF ListReaders
  <2>4. parseResponse(reader, got).ok /\ result.items = parseResponse(reader, got).items
    BY <2>1, <2>3, ValueParsed
  <2> HIDE DEF reader
  <2> QED
    BY <2>2, <2>4, ListReaderComplete
<1> QED
    BY <1>1, GotInvariant, PTL

-----------------------------------------------------------------------------
(* What every reader returns at the bodies the server sends.               *)

\* An answer without items is sound whatever its members.
LEMMA HeadSound ==
    ASSUME NEW head \in AnyMembers PROVE Sound(Read(head, <<>>))
<1>1. <<>> \in Seq(AnyMembers)
    OBVIOUS
<1> QED
    BY <1>1, ReadSound

\* json.value() and its guarded variants as members of an answer.
LEMMA PartType ==
    ASSUME NEW j, NEW key
    PROVE  /\ Plain(j, key) \in {"got", "default", "throw"}
           /\ Checked(j, key) \in {"got", "default", "throw"}
           /\ Part(j) \in {"got", "default", "throw"}
BY DEF Plain, Checked, Part

\* What items() walks of a content are elements.
LEMMA WalkType ==
    ASSUME NEW j \in Contents
    PROVE  Walk(j) \in Seq(ElementValues) /\ ArrayRows(j) \in Seq(AnyMembers)
           /\ Rows(Walk(j)) \in Seq(AnyMembers)
<1>1. Walk(j) \in Seq(ElementValues)
  <2>1. CASE j \in {Absent, Null, Odd, Good}
    <3>1. j = Absent \/ j \in ElementValues
        BY <2>1 DEF ElementValues
    <3> QED
        BY <2>1, <3>1 DEF Walk, Present, Absent, Null, Odd, Good
  <2>2. CASE j.t = "object" /\ j \in ElementValues
    BY <2>2 DEF Walk, Present, Absent, Null
  <2>3. CASE j.t = "array" /\ j.a \in Seq(ElementValues)
    <3>1. Picked(j.a, {i \in DOMAIN j.a : j.a[i] # Null}) \in Seq(ElementValues)
        BY <2>3, PickedInOrder
    <3> QED
        BY <2>3, <3>1 DEF Walk, NotNull
  <2> QED
    BY <2>1, <2>2, <2>3, ContentShape
<1>2. Rows(Walk(j)) \in Seq(AnyMembers)
    BY <1>1, EntriesType
<1> QED
    BY <1>1, <1>2 DEF ArrayRows

\* The place of a table of the fundamentals.
LEMMA TableAt ==
    ASSUME NEW reader, NEW body, NEW j, Sent(reader, body, j), NEW name, NEW c,
           Envelope(reader, j) = Table(name, c)
    PROVE  At(Tables(body), name) = c \/ (j = Absent /\ At(Tables(body), name) = Absent)
<1>1. CASE body = Envelope(reader, j)
  <2> DEFINE inner == In("tables", In(name, c))
             answer == In("results", Arr(<<inner>>))
  <2>1. First(body) = answer
    BY <1>1 DEF First, Table, Arr
  <2>2. At(answer, "results") = Arr(<<inner>>)
    BY Found
  <2>3. First(Arr(<<inner>>)) = inner
    BY DEF First, Arr
  <2>4. At(inner, "tables") = In(name, c) /\ At(In(name, c), name) = c
    BY Found
  <2> HIDE DEF inner, answer
  <2> QED
    BY <2>1, <2>2, <2>3, <2>4 DEF Tables
<1>2. CASE j = Absent /\ body \in {Null, Odd}
  <2>1. First(body) = Absent /\ First(Absent) = Absent
    BY <1>2 DEF First, Null, Odd, Absent
  <2>2. \A key : At(Absent, key) = Absent
    BY DEF At, Absent
  <2> QED
    BY <1>2, <2>1, <2>2 DEF Tables
<1> QED
    BY <1>1, <1>2 DEF Sent

\* The readers of the lists of the market service and of the account.
LEMMA ListReadersSound ==
    ASSUME NEW reader \in {"quotes", "quote", "chains", "expirations", "optionSymbols", "days",
                           "sales", "securities", "positions", "orders"},
           NEW body, body # NotJson, NEW j \in Contents, Sent(reader, body, j)
    PROVE  Sound(parseResponse(reader, body))
<1>1. \A classes : Sound(List(j, classes))
    BY ListComplete
<1>2. CASE reader \in {"quotes", "quote"}
  <2>0. Envelope(reader, j) = In2("quotes", "quote", j)
    BY <1>2 DEF Envelope
  <2>1. Path(body, "quotes", "quote") = j
    BY <2>0, ContentInside
  <2> QED
    BY <1>1, <1>2, <2>1 DEF parseResponse, parseQuotes
<1>3. CASE reader = "chains"
  <2>0. Envelope(reader, j) = In2("options", "option", j)
    BY <1>3 DEF Envelope
  <2>1. Path(body, "options", "option") = j
    BY <2>0, ContentInside
  <2> QED
    BY <1>1, <1>3, <2>1 DEF parseResponse, parseOptionChains
<1>4. CASE reader = "expirations"
  <2>0. Envelope(reader, j) = In2("expirations", "expiration", j)
    BY <1>4 DEF Envelope
  <2>1. Path(body, "expirations", "expiration") = j
    BY <2>0, ContentInside
  <2> QED
    BY <1>1, <1>4, <2>1 DEF parseResponse, parseExpirations
<1>5. CASE reader = "optionSymbols"
  <2>0. Envelope(reader, j) = In("symbols", j)
    BY <1>5 DEF Envelope
  <2>1. At(body, "symbols") = j
    BY <2>0, ContentAt
  <2>2. Sound(Read(Blank, <<>>))
    BY BlankType, HeadSound
  <2> QED
    BY <1>1, <1>5, <2>1, <2>2 DEF parseResponse, parseOptionSymbols
<1>6. CASE reader = "days"
  <2>0. Envelope(reader, j) = In2("history", "day", j)
    BY <1>6 DEF Envelope
  <2>1. Path(body, "history", "day") = j
    BY <2>0, ContentInside
  <2> QED
    BY <1>1, <1>6, <2>1 DEF parseResponse, parseHistoricalDataList
<1>7. CASE reader = "sales"
  <2>0. Envelope(reader, j) = In2("series", "data", j)
    BY <1>7 DEF Envelope
  <2>1. Path(body, "series", "data") = j
    BY <2>0, ContentInside
  <2> QED
    BY <1>1, <1>7, <2>1 DEF parseResponse, parseTimeSalesList
<1>8. CASE reader = "securities"
  <2>0. Envelope(reader, j) = In2("securities", "security", j)
    BY <1>8 DEF Envelope
  <2>1. Path(body, "securities", "security") = j
    BY <2>0, ContentInside
  <2> QED
    BY <1>1, <1>8, <2>1 DEF parseResponse, parseSecurities
<1>9. CASE reader \in {"positions", "orders"}
  <2>1. \A key : At(AsJson(body), key) = Absent
    BY DEF AsJson, At, Odd
  <2>2. \A classes : Sound(List(Absent, classes))
    BY ListComplete DEF Contents
  <2> QED
    BY <1>9, <2>1, <2>2 DEF parseResponse, parsePositions, parseOrders
<1> QED
    BY <1>2, <1>3, <1>4, <1>5, <1>6, <1>7, <1>8, <1>9

\* The readers of one object, whatever the body.
LEMMA ObjectReadersSound ==
    ASSUME NEW reader \in {"clock", "company", "statements", "statistics", "account", "order",
                           "profile", "balances", "placed", "preview"},
           NEW body, body # NotJson
    PROVE  Sound(parseResponse(reader, body))
<1>1. Sound(Thrown)
    BY DEF Sound, Thrown
<1>2. CASE reader = "clock"
  <2>1. parseMarketClock(body) \in {Read(Blank, <<>>), Read(Take({"plain"}, At(body, "clock")), <<>>)}
    BY DEF parseMarketClock
  <2> QED
    BY <1>2, <2>1, BlankType, TakeType, HeadSound DEF parseResponse
<1>3. CASE reader = "company"
  <2> DEFINE profile_ == At(Tables(body), "company_profile")
             description == At(Tables(body), "long_descriptions")
             head == [plain |-> Part(profile_),
                      nested |-> Part(At(profile_, "headquarter")),
                      checked |-> Part(At(Tables(body), "asset_classification")),
                      nullable |-> CASE ~Present(description) -> "default"
                                     [] description = Good -> "got"
                                     [] OTHER -> "throw"]
  <2>1. head \in AnyMembers
    BY PartType DEF AnyMembers, Classes
  <2>2. parseCompanyFundamentals(body) = Read(head, <<>>)
    BY DEF parseCompanyFundamentals
  <2> QED
    BY <1>3, <2>1, <2>2, HeadSound DEF parseResponse
<1>4. CASE reader = "statements"
  <2> DEFINE statements == At(Tables(body), "financial_statements_restate")
             rows == Walk(First(At(statements, "income_statement")))
             head == [Blank EXCEPT !["plain"] = Plain(statements, "plain"),
                                   !["nested"] = Plain(rows[1], "plain")]
  <2>1. head \in AnyMembers
    BY PartType DEF AnyMembers, Blank
  <2>2. parseFinancialStatements(body) \in {Read(Blank, <<>>), Read(head, <<>>)}
    BY DEF parseFinancialStatements
  <2> QED
    BY <1>4, <2>1, <2>2, BlankType, HeadSound DEF parseResponse
<1>5. CASE reader = "statistics"
  <2> DEFINE head == [Blank EXCEPT !["plain"] = Part(Path(Tables(body), "price_statistics", "period_1y"))]
  <2>1. head \in AnyMembers
    BY PartType DEF AnyMembers, Blank
  <2>2. parsePriceStatistics(body) = Read(head, <<>>)
    BY DEF parsePriceStatistics
  <2> QED
    BY <1>5, <2>1, <2>2, HeadSound DEF parseResponse
<1>6. CASE reader \in {"account", "order"}
  <2>1. accountObject(body, reader) \in {Thrown, Read(TakeIfObject({"plain", "checked"}, Odd), <<>>)}
    BY DEF accountObject, parseAccount, AsJson
  <2> QED
    BY <1>1, <1>6, <2>1, TakeType, HeadSound DEF parseResponse
<1>7. CASE reader = "profile"
  <2>1. profile(body) \in {Thrown, parseAccountProfile(Odd)}
    BY DEF profile, AsJson
  <2>2. Odd.t # "object"
    BY DEF Odd
  <2>3. parseAccountProfile(Odd) = Read(TakeIfObject({"plain"}, Odd), <<>>)
    BY <2>2 DEF parseAccountProfile
  <2> QED
    BY <1>1, <1>7, <2>1, <2>3, TakeType, HeadSound DEF parseResponse
<1>8. CASE reader = "balances"
  <2> DEFINE head == [Blank EXCEPT !["plain"] = Checked(At(body, "balances"), "plain")]
  <2>1. head \in AnyMembers
    BY PartType DEF AnyMembers, Blank
  <2>2. balances(body) \in {Thrown, Read(head, <<>>)}
    BY DEF balances
  <2> QED
    BY <1>1, <1>8, <2>1, <2>2, HeadSound DEF parseResponse
<1>9. CASE reader = "placed"
    BY <1>9, TakeType, HeadSound DEF parseResponse, parseOrderResponse, OrderMembers
<1>10. CASE reader = "preview"
    BY <1>10, TakeType, HeadSound DEF parseResponse, parseOrderPreview
<1> QED
    BY <1>2, <1>3, <1>4, <1>5, <1>6, <1>7, <1>8, <1>9, <1>10

\* Flattening one sequence, and none.
LEMMA FlattenOne == ASSUME NEW s PROVE FlattenSeq(<<s>>) = s
<1> DEFINE F(f) == f = [i \in 1..Len(<<s>>) |-> IF i = 1 THEN <<s>>[i] ELSE f[i - 1] \o <<s>>[i]]
<1>1. Len(<<s>>) = 1
    OBVIOUS
<1>2. F([i \in 1..1 |-> s])
    BY <1>1
<1>3. F(CHOOSE f : F(f))
    BY <1>2, Zenon
<1>4. (CHOOSE f : F(f))[1] = s
    BY <1>1, <1>3
<1> QED
    BY <1>1, <1>4 DEF FlattenSeq

LEMMA FlattenNone == FlattenSeq(<<>>) = <<>>
BY DEF FlattenSeq

\* The readers of rows at their tables.
LEMMA TableReadersSound ==
    ASSUME NEW reader \in {"events", "dividends", "ratios"},
           NEW body, body # NotJson, NEW j \in Contents, Sent(reader, body, j)
    PROVE  Sound(parseResponse(reader, body))
<1>0. \A rows \in Seq(AnyMembers) : Sound(Read(Blank, rows))
    BY BlankType, ReadSound
<1>1. CASE reader = "events"
  <2>1. Envelope(reader, j) = Table("corporate_calendars", j)
    BY <1>1 DEF Envelope
  <2>2. At(Tables(body), "corporate_calendars") = j
    BY <2>1, TableAt
  <2>3. ArrayRows(j) \in Seq(AnyMembers)
    BY WalkType
  <2> QED
    BY <1>0, <1>1, <2>2, <2>3 DEF parseResponse, parseCorporateCalendar
<1>2. CASE reader = "dividends"
  <2>1. Envelope(reader, j) = Table("cash_dividends", j)
    BY <1>2 DEF Envelope
  <2>2. At(Tables(body), "cash_dividends") = j
    BY <2>1, TableAt
  <2>3. ArrayRows(j) \in Seq(AnyMembers)
    BY WalkType
  <2> QED
    BY <1>0, <1>2, <2>2, <2>3 DEF parseResponse, parseDividends
<1>3. CASE reader = "ratios"
  <2> DEFINE t == At(Tables(body), "operation_ratios_restate")
             groups == IF t.t = "array" THEN Walk(t) ELSE <<>>
             rows(s) == FlattenSeq([i \in DOMAIN s |-> Rows(Walk(s[i]))])
  <2>1. Envelope(reader, j) = Table("operation_ratios_restate", Arr(<<Null, j>>))
    BY <1>3 DEF Envelope
  <2>2. t = Arr(<<Null, j>>) \/ t = Absent
    BY <2>1, TableAt
  <2>3. rows(<<>>) \in Seq(AnyMembers)
    <3>1. [i \in DOMAIN <<>> |-> Rows(Walk(<<>>[i]))] = <<>>
        OBVIOUS
    <3>2. rows(<<>>) = FlattenSeq(<<>>)
        BY <3>1
    <3>3. <<>> \in Seq(AnyMembers)
        OBVIOUS
    <3> QED
        BY <3>2, <3>3, FlattenNone
  <2>4. rows(<<j>>) \in Seq(AnyMembers)
    <3>1. [i \in DOMAIN <<j>> |-> Rows(Walk(<<j>>[i]))] = <<Rows(Walk(j))>>
        OBVIOUS
    <3>2. FlattenSeq(<<Rows(Walk(j))>>) = Rows(Walk(j))
        BY FlattenOne
    <3> QED
        BY <3>1, <3>2, WalkType
  <2>5. groups \in {<<>>, <<j>>}
    <3>1. CASE t = Absent
        BY <3>1 DEF Absent
    <3>2. CASE t = Arr(<<Null, j>>)
      <4> DEFINE s == <<Null, j>>
                 at == {i \in DOMAIN s : s[i] # Null}
      <4>1. groups = Picked(s, at)
        <5>1. t.t = "array" /\ t.a = s
            BY <3>2 DEF Arr
        <5>2. Walk(t) = NotNull(s)
            BY <5>1 DEF Walk, Present, Absent, Null
        <5>3. NotNull(s) = Picked(s, at)
            BY DEF NotNull
        <5> QED
            BY <5>1, <5>2, <5>3
      <4>2. at = (IF j = Null THEN {} ELSE {2})
        OBVIOUS
      <4>3. s \in Seq({Null, j}) /\ at \in SUBSET (DOMAIN s) /\ s[2] = j
        OBVIOUS
      <4> HIDE DEF s, at, t, groups
      <4>4. /\ Picked(s, at) \in Seq({Null, j}) /\ Len(Picked(s, at)) = Cardinality(at)
            /\ \E p \in [1..Cardinality(at) -> at] :
                  \A n \in 1..Cardinality(at) : Picked(s, at)[n] = s[p[n]]
        BY <4>3, PickedInOrder
      <4>5. CASE j = Null
        <5>1. Cardinality(at) = 0
            BY <4>2, <4>5, FS_EmptySet
        <5> QED
            BY <4>1, <4>4, <5>1
      <4>6. CASE j # Null
        <5>1. at = {2} /\ Cardinality(at) = 1
            BY <4>2, <4>6, FS_Singleton
        <5>2. Picked(s, at)[1] = j
            BY <4>3, <4>4, <5>1
        <5> QED
            BY <4>1, <4>4, <5>1, <5>2
      <4> QED
        BY <4>5, <4>6
    <3> QED
        BY <2>2, <3>1, <3>2
  <2>6. parseFinancialRatios(body) = Read(Blank, rows(groups))
    BY DEF parseFinancialRatios
  <2> HIDE DEF groups, rows
  <2>7. rows(groups) \in Seq(AnyMembers)
    BY <2>3, <2>4, <2>5
  <2> QED
    BY <1>0, <1>3, <2>6, <2>7 DEF parseResponse
<1> QED
    BY <1>1, <1>2, <1>3

\* The reader of corporate actions: the splits of the one result of an answer.
LEMMA ActionsSound ==
    ASSUME NEW body, body # NotJson, NEW j \in Contents, Sent("actions", body, j)
    PROVE  Sound(parseResponse("actions", body))
<1> DEFINE all == Walk(At(First(body), "results"))
           results == Picked(all, {i \in DOMAIN all : Present(At(all[i], "tables"))})
           splits(r) == Rows(Walk(Path(r, "tables", "stock_splits")))
           rows(s) == FlattenSeq([i \in DOMAIN s |-> splits(s[i])])
           mergers == [i \in DOMAIN results |->
                          Part(Path(results[i], "tables", "mergers_and_acquisitions"))]
           head == [Blank EXCEPT !["nested"] =
                       IF \E i \in DOMAIN mergers : mergers[i] = "throw" THEN "throw"
                       ELSE IF \E i \in DOMAIN mergers : mergers[i] = "got" THEN "got"
                       ELSE "default"]
           result_ == In("tables", In("stock_splits", j))
<1>1. parseCorporateActions(body) = Read(head, rows(results))
    BY DEF parseCorporateActions
<1>2. head \in AnyMembers
    BY DEF AnyMembers, Blank
<1>3. rows(<<>>) \in Seq(AnyMembers)
  <2>1. [i \in DOMAIN <<>> |-> splits(<<>>[i])] = <<>>
    OBVIOUS
  <2>2. rows(<<>>) = FlattenSeq(<<>>)
    BY <2>1
  <2>3. <<>> \in Seq(AnyMembers)
    OBVIOUS
  <2> QED
    BY <2>2, <2>3, FlattenNone
<1>4. rows(<<result_>>) \in Seq(AnyMembers)
  <2>1. Path(result_, "tables", "stock_splits") = j
    BY FoundInside DEF In2
  <2>2. splits(result_) \in Seq(AnyMembers)
    BY <2>1, WalkType
  <2> HIDE DEF splits, result_
  <2>3. [i \in DOMAIN <<result_>> |-> splits(<<result_>>[i])] = <<splits(result_)>>
    OBVIOUS
  <2>4. rows(<<result_>>) = FlattenSeq(<<splits(result_)>>)
    BY <2>3
  <2> QED
    BY <2>2, <2>4, FlattenOne
<1>5. results \in {<<>>, <<result_>>}
  <2>1. CASE body = Envelope("actions", j)
    <3>1. First(body) = In("results", Arr(<<result_>>))
        BY <2>1 DEF Envelope, Table, First, Arr
    <3>2. At(First(body), "results") = Arr(<<result_>>)
        BY <3>1, Found
    <3>3. At(result_, "tables") = In("stock_splits", j)
        BY Found
    <3>4. Present(At(result_, "tables")) /\ result_ # Null
        BY <3>3 DEF Present, In, Obj, Absent, Null
    <3> HIDE DEF result_
    <3>5. <<result_>> \in Seq({result_}) /\ \A i \in DOMAIN <<result_>> : <<result_>>[i] = result_
        OBVIOUS
    <3>6. Picked(<<result_>>, DOMAIN <<result_>>) = <<result_>>
        BY <3>5, PickedAll
    <3>7. all = <<result_>>
      <4>1. all = NotNull(<<result_>>)
        BY <3>2 DEF Walk, Arr, Present, Absent, Null
      <4>2. {i \in DOMAIN <<result_>> : <<result_>>[i] # Null} = DOMAIN <<result_>>
        BY <3>4, <3>5
      <4> QED
        BY <3>6, <4>1, <4>2 DEF NotNull
    <3> HIDE DEF all
    <3>8. {i \in DOMAIN all : Present(At(all[i], "tables"))} = DOMAIN all
        BY <3>4, <3>5, <3>7
    <3> QED
        BY <3>6, <3>7, <3>8
  <2>2. CASE j = Absent /\ body \in {Null, Odd}
    <3>1. First(body) = Absent
        BY <2>2 DEF First, Null, Odd
    <3>2. At(First(body), "results") = Absent
        BY <3>1 DEF At, Absent
    <3>3. all = <<>>
        BY <3>2 DEF Walk, Absent, Present
    <3> HIDE DEF all
    <3>4. <<>> \in Seq({}) /\ {i \in DOMAIN all : Present(At(all[i], "tables"))} = DOMAIN all
        BY <3>3
    <3> QED
        BY <3>3, <3>4, PickedAll
  <2> QED
    BY <2>1, <2>2 DEF Sent
<1> HIDE DEF results, rows, head
<1>6. rows(results) \in Seq(AnyMembers)
    BY <1>3, <1>4, <1>5
<1>7. Sound(Read(head, rows(results)))
    BY <1>2, <1>6, ReadSound
<1> QED
    BY <1>1, <1>7 DEF parseResponse

\* The readers of the remaining lists.
LEMMA OtherReadersSound ==
    ASSUME NEW reader \in {"strikes", "calendar", "history", "summaries", "watchlist", "cancelled"},
           NEW body, body # NotJson, NEW j \in Contents, Sent(reader, body, j)
    PROVE  Sound(parseResponse(reader, body))
<1>0. /\ \A items \in Seq(AnyMembers) : Sound(Read(Blank, items))
      /\ Sound(Read(Blank, <<>>))
      /\ Sound(Thrown)
  <2>1. Sound(Thrown)
    BY DEF Sound, Thrown
  <2> QED
    BY <2>1, BlankType, ReadSound, HeadSound
<1>1. Unguarded(j) \in Seq(AnyMembers)
    BY UnguardedComplete
<1>2. CASE reader = "strikes"
  <2> DEFINE s == Path(body, "strikes", "strike")
             numbers == CASE s.t = "array" -> Picked(s.a, {i \in DOMAIN s.a : s.a[i] = Good})
                          [] s = Good -> <<s>>
                          [] OTHER -> <<>>
             got_ == [Blank EXCEPT !["plain"] = "got"]
             items == [i \in DOMAIN numbers |-> got_]
  <2>1. Envelope(reader, j) = In2("strikes", "strike", j)
    BY <1>2 DEF Envelope
  <2>2. s = j
    BY <2>1, ContentInside
  <2> HIDE DEF s
  <2>3. numbers \in Seq(ElementValues)
    <3>1. CASE j \in {Absent, Null, Odd, Good}
      <4>1. Good \in ElementValues
        BY DEF ElementValues
      <4> QED
        BY <2>2, <3>1, <4>1 DEF Absent, Null, Odd, Good
    <3>2. CASE j.t = "object"
        BY <2>2, <3>2 DEF Good
    <3>3. CASE j.t = "array" /\ j.a \in Seq(ElementValues)
      <4>1. Picked(j.a, {i \in DOMAIN j.a : j.a[i] = Good}) \in Seq(ElementValues)
        BY <3>3, PickedInOrder
      <4> QED
        BY <2>2, <3>3, <4>1 DEF Good
    <3> QED
        BY <3>1, <3>2, <3>3, ContentShape
  <2>4. got_ \in AnyMembers
    BY DEF AnyMembers, Blank
  <2> HIDE DEF numbers, got_
  <2>5. items \in Seq(AnyMembers)
    BY <2>3, <2>4
  <2>6. parseStrikes(body) = Read(Blank, items)
    BY DEF parseStrikes, numbers, s, got_
  <2> QED
    BY <1>0, <1>2, <2>5, <2>6 DEF parseResponse
<1>3. CASE reader = "calendar"
  <2> DEFINE cal == At(body, "calendar")
             days == Elements(Path(cal, "days", "day"))
             items == [i \in DOMAIN days |-> TakeIfObject({"plain", "nested"}, days[i])]
             c == Obj([plain |-> Good, days |-> In("day", j)])
  <2>1. parseMarketCalendar(body) = IF cal \in {Absent, Null} THEN Read(Blank, <<>>)
                                    ELSE Read(Take({"plain"}, cal), items)
    BY DEF parseMarketCalendar
  <2>2. CASE body = Envelope(reader, j)
    <3>1. body = In("calendar", c)
        BY <1>3, <2>2 DEF Envelope
    <3>2. cal = c
        BY <3>1, Found
    <3>3. Path(c, "days", "day") = j
      <4>1. At(c, "days") = In("day", j)
        BY DEF At, Obj
      <4> QED
        BY <4>1, Found DEF Path
    <3>4. days \in Seq(ElementValues)
        BY <3>2, <3>3, ElementsType
    <3> HIDE DEF days, cal
    <3>5. items \in Seq(AnyMembers)
        BY <3>4, EntriesType
    <3> HIDE DEF items
    <3>6. Sound(Read(Take({"plain"}, cal), items))
        BY <3>5, TakeType, ReadSound
    <3> QED
        BY <1>0, <1>3, <2>1, <3>6 DEF parseResponse
  <2>3. CASE body \in {Null, Odd}
    <3>1. cal = Absent
        BY <2>3, NothingFound
    <3> QED
        BY <1>0, <1>3, <2>1, <3>1 DEF parseResponse
  <2> QED
    BY <2>2, <2>3 DEF Sent
<1>4. CASE reader = "history"
  <2> DEFINE event == [Blank EXCEPT !["plain"] = Checked(j, "plain")]
  <2>1. Envelope(reader, j) = In2("history", "event", j)
    BY <1>4 DEF Envelope
  <2>2. Path(body, "history", "event") = j
    BY <2>1, ContentInside
  <2>3. event \in AnyMembers
    BY PartType DEF AnyMembers, Blank
  <2>4. historyEvents(body) = IF j.t = "object" THEN Read(Blank, <<event>>)
                              ELSE Read(Blank, Unguarded(j))
    BY <2>2 DEF historyEvents
  <2> HIDE DEF event
  <2>5. <<event>> \in Seq(AnyMembers)
    BY <2>3
  <2> QED
    BY <1>0, <1>1, <1>4, <2>4, <2>5 DEF parseResponse
<1>5. CASE reader = "summaries"
  <2>1. Envelope(reader, j) = In2("watchlists", "watchlist", j)
    BY <1>5 DEF Envelope
  <2>2. Path(body, "watchlists", "watchlist") = j
    BY <2>1, ContentInside
  <2> QED
    BY <1>0, <1>1, <1>5, <2>2 DEF parseResponse, watchlistSummaries
<1>6. CASE reader = "watchlist"
  <2> DEFINE w == At(body, "watchlist")
             c == Obj([plain |-> Good, items |-> In("item", j)])
  <2>1. watchlist(body) = IF w = Absent THEN Thrown
                          ELSE Read(Take({"plain"}, w), Unguarded(Path(w, "items", "item")))
    BY DEF watchlist
  <2>2. CASE body = Envelope(reader, j)
    <3>1. body = In("watchlist", c)
        BY <1>6, <2>2 DEF Envelope
    <3>2. w = c
        BY <3>1, Found
    <3>3. Path(c, "items", "item") = j
      <4>1. At(c, "items") = In("item", j)
        BY DEF At, Obj
      <4> QED
        BY <4>1, Found DEF Path
    <3> HIDE DEF w, c
    <3>4. Sound(Read(Take({"plain"}, w), Unguarded(j)))
        BY <1>1, TakeType, ReadSound
    <3> QED
        BY <1>0, <1>6, <2>1, <3>2, <3>3, <3>4 DEF parseResponse
  <2>3. CASE body \in {Null, Odd}
    <3>1. w = Absent
        BY <2>3, NothingFound
    <3> QED
        BY <1>0, <1>6, <2>1, <3>1 DEF parseResponse
  <2> QED
    BY <2>2, <2>3 DEF Sent
<1>7. CASE reader = "cancelled"
  <2> DEFINE s == CASE j.t = "array" -> j.a [] j.t = "object" -> <<j>> [] OTHER -> <<>>
             items == [i \in DOMAIN s |-> OrderMembers(s[i])]
  <2>1. Envelope(reader, j) = In2("orders", "order", j)
    BY <1>7 DEF Envelope
  <2>2. Path(body, "orders", "order") = j
    BY <2>1, ContentInside
  <2>3. cancelledOrders(body) = Read(Blank, items)
    BY <2>2 DEF cancelledOrders
  <2>4. s \in Seq(ElementValues)
    BY ContentShape DEF Absent, Null, Odd, Good
  <2>5. \A x : OrderMembers(x) \in AnyMembers
    BY TakeType DEF OrderMembers
  <2> HIDE DEF s
  <2>6. items \in Seq(AnyMembers)
    BY <2>4, <2>5
  <2> QED
    BY <1>0, <1>7, <2>3, <2>6 DEF parseResponse
<1> QED
    BY <1>2, <1>3, <1>4, <1>5, <1>6, <1>7

\* Whatever the server answers a call with, what its reader makes of it is sound.
LEMMA ReadersSound ==
    ASSUME NEW reader \in Readers, NEW body \in Bodies(reader)
    PROVE  Sound(parseResponse(reader, body))
<1>1. CASE body = NotJson
  <2>1. parseResponse(reader, body) = Thrown
    BY <1>1 DEF parseResponse
  <2> QED
    BY <2>1 DEF Sound, Thrown
<1>2. CASE body # NotJson
  <2>1. PICK j \in Contents : Sent(reader, body, j)
    BY <1>2, BodyContent
  <2> QED
    BY <1>2, <2>1, ListReadersSound, ObjectReadersSound, TableReadersSound, ActionsSound,
       OtherReadersSound DEF Readers
<1> QED
    BY <1>1, <1>2

-----------------------------------------------------------------------------
(* The types of a call and of its result.                                  *)

LEMMA ErrorType ==
    ASSUME NEW kind \in {"validation", "network", "api", "internal"}, NEW status \in Nat
    PROVE  Error(kind, status) \in Results
<1>1. Blank \in Members /\ <<>> \in Seq(Members)
    BY DEF Blank, Members
<1> QED
    BY <1>1 DEF Error, Results

\* Whatever the server answers a call with, the call returns a result of the four
\* kinds, and a value holds no member whose reading threw.
LEMMA AnswerType ==
    ASSUME NEW op \in Ops, NEW status \in Statuses,
           NEW body \in (IF success(status) THEN Bodies(Calls[op].reader) ELSE {NotJson})
    PROVE  Answer(op, status, body) \in Results
<1> DEFINE parsed == parseResponse(Calls[op].reader, body)
<1>1. status \in Nat
    BY ServicesAssumption
<1>2. CASE ~success(status)
  <2>1. Answer(op, status, body) = Error("api", status)
    BY <1>2 DEF Answer
  <2> QED
    BY <1>1, <2>1, ErrorType
<1>3. CASE success(status)
  <2>1. Calls[op].reader \in Readers
    BY OpsAssumption, CallReader
  <2>2. Sound(parsed)
    BY <1>3, <2>1, ReadersSound
  <2>3. Answer(op, status, body) =
            IF ~parsed.ok THEN Error("internal", 0)
            ELSE IF op # "getQuote" THEN Value(parsed.head, parsed.items)
            ELSE IF parsed.items = <<>> THEN Error("api", 404)
            ELSE Value(parsed.head, <<parsed.items[1]>>)
    BY <1>3 DEF Answer
  <2> HIDE DEF parsed
  <2>4. CASE ~parsed.ok
    BY <2>3, <2>4, ErrorType
  <2>5. CASE parsed.ok
    <3>1. parsed.head \in Members /\ parsed.items \in Seq(Members)
        BY <2>2, <2>5 DEF Sound
    <3>2. \A items \in Seq(Members) : Value(parsed.head, items) \in Results
        BY <3>1 DEF Value, Results
    <3>3. parsed.items # <<>> => <<parsed.items[1]>> \in Seq(Members)
        BY <3>1
    <3>4. CASE op # "getQuote"
        BY <2>3, <2>5, <3>1, <3>2, <3>4
    <3>5. CASE op = "getQuote" /\ parsed.items = <<>>
        BY <2>3, <2>5, <3>5, ErrorType
    <3>6. CASE op = "getQuote" /\ parsed.items # <<>>
        BY <2>3, <2>5, <3>2, <3>3, <3>6
    <3> QED
        BY <3>4, <3>5, <3>6
  <2> QED
    BY <2>4, <2>5
<1> QED
    BY <1>2, <1>3

\* The call and its result have their types.
TypeInv ==
    /\ call \in [op : Ops \cup {"none"}, valid : BOOLEAN, maxRetries : RetryCounts \cup {0}]
    /\ result \in Results

\* Every step keeps the types.
LEMMA TypeStep == GotInv /\ TypeInv /\ [Next]_vars => TypeInv'
<1> SUFFICES ASSUME GotInv, TypeInv, [Next]_vars PROVE TypeInv'
    OBVIOUS
<1>1. CASE \E op \in Ops : Begin(op)
  <2>1. PICK op \in Ops, a \in Arguments, n \in RetryCounts :
            call' = [op |-> op, valid |-> Valid(op, a), maxRetries |-> n] /\ result' = result
    BY <1>1 DEF Begin
  <2>2. Valid(op, a) \in BOOLEAN
    BY Zenon DEF Valid
  <2> QED
    BY <2>1, <2>2 DEF TypeInv
<1>2. CASE Check
  <2>1. call' = call /\ result' \in {result, Error("validation", 0)}
    BY <1>2 DEF Check, Return
  <2> QED
    BY <2>1, ErrorType DEF TypeInv
<1>3. CASE Receive
  <2>1. pc = "sent" /\ call.op \in Ops
    BY <1>3 DEF Receive, GotInv
  <2>2. PICK status \in Statuses :
            \E body \in (IF success(status) THEN Bodies(Calls[call.op].reader) ELSE {NotJson}) :
                Answered(status, body)
    BY <1>3 DEF Receive
  <2>3. PICK body \in (IF success(status) THEN Bodies(Calls[call.op].reader) ELSE {NotJson}) :
                Answered(status, body)
    BY <2>2
  <2>4. call' = call /\ result' = Answer(call.op, status, body)
    BY <2>3 DEF Answered, Return
  <2>5. Answer(call.op, status, body) \in Results
    BY <2>1, AnswerType
  <2> QED
    BY <2>4, <2>5 DEF TypeInv
<1>4. CASE NoAnswer
  <2>1. call' = call /\ result' = Error("network", 0)
    BY <1>4 DEF NoAnswer, Return
  <2> QED
    BY <2>1, ErrorType DEF TypeInv
<1>5. CASE BackoffOver
    BY <1>5 DEF BackoffOver, TypeInv
<1>6. CASE NextCall
  <2>1. call' = NoCall /\ result' = Error("internal", 0)
    BY <1>6 DEF NextCall
  <2> QED
    BY <2>1, ErrorType DEF TypeInv, NoCall
<1>7. CASE UNCHANGED vars
    BY <1>7 DEF vars, TypeInv
<1> QED
    BY <1>1, <1>2, <1>3, <1>4, <1>5, <1>6, <1>7 DEF Next, Step

\* Every state of a call has its types, whatever the server answers: the attempts
\* stay within maxRetries, there is at most one request and one effect for each,
\* and no reader leaves a member that threw in a result.
THEOREM ServiceTypes == Spec => []ServiceTypeOK
<1>1. Init => TypeInv
  <2> SUFFICES ASSUME Init PROVE TypeInv
    OBVIOUS
  <2>1. call = NoCall /\ result = Error("internal", 0)
    BY DEF Init
  <2> QED
    BY <2>1, ErrorType DEF TypeInv, NoCall
<1>2. CallInv /\ TypeInv => ServiceTypeOK
  <2> SUFFICES ASSUME CallInv, TypeInv PROVE ServiceTypeOK
    OBVIOUS
  <2>1. attempt \in 0..call.maxRetries /\ sent \in 0..attempt + 1 /\ executed \in 0..sent
    BY DEF CallInv, LoopInv
  <2>2. /\ pc \in {"idle", "check", "sent", "backoff", "done"}
        /\ told \in Seq({"done", "garbled", "refused", "failed", "nothing"}) /\ Len(told) = attempt
    BY DEF CallInv, LoopInv, ToldInv, Verdicts
  <2> QED
    BY <2>1, <2>2 DEF TypeInv, ServiceTypeOK
<1> QED
    BY <1>1, <1>2, GotInvariant, TypeStep, PTL DEF Spec

-----------------------------------------------------------------------------
(* The account service at its readers.                                     *)

\* The calls of the account service whose readers are given a SafeJsonParser.
Converted == {"getAccount", "getProfile", "getOrder", "getPositions", "getOrders"}

\* A row of the account's table is found under its name, which no other table has.
LEMMA AccountRow == ASSUME NEW op \in Converted PROVE Calls[op] = AccountCalls[op]
<1> DEFINE table == CHOOSE table \in CallTables : op \in DOMAIN table
<1>1. op \in DOMAIN AccountCalls /\ AccountCalls \in CallTables
    BY DEF Converted, AccountCalls, CallTables
<1>2. op \in UNION {DOMAIN t : t \in CallTables}
    BY <1>1
<1>3. table \in CallTables /\ op \in DOMAIN table /\ Calls[op] = table[op]
    BY <1>1, <1>2 DEF Calls
<1> HIDE DEF table
<1>4. /\ op \notin DOMAIN QuoteCalls /\ op \notin DOMAIN OptionCalls
      /\ op \notin DOMAIN HistoryCalls /\ op \notin DOMAIN LookupCalls
    BY DEF Converted, QuoteCalls, OptionCalls, HistoryCalls, LookupCalls
<1>5. /\ op \notin DOMAIN FundamentalsCalls /\ op \notin DOMAIN WatchlistCalls
      /\ op \notin DOMAIN WatchlistUpdates /\ op \notin DOMAIN WatchlistSymbols
    BY DEF Converted, FundamentalsCalls, WatchlistCalls, WatchlistUpdates, WatchlistSymbols
<1>6. /\ op \notin DOMAIN OrderCalls /\ op \notin DOMAIN ComplexOrderCalls
      /\ op \notin DOMAIN OptionOrderCalls
    BY DEF Converted, OrderCalls, ComplexOrderCalls, OptionOrderCalls
<1> QED
    BY <1>3, <1>4, <1>5, <1>6 DEF CallTables

\* A value of these calls has every member at its default and no items.
ConvertedIsBlank ==
    pc = "done" /\ result.kind = "value" /\ call.op \in Converted =>
        result.head = Blank /\ result.items = <<>>

\* The readers of these calls see a JSON string in place of the document, whatever
\* the server sent: what AccountListsArrive asks for fails with every list that is
\* not empty, and no answer at all reaches the caller of these five calls.
THEOREM ConvertedReadsNothing == Spec => []ConvertedIsBlank
<1>1. ASSUME NEW op \in Converted, NEW body, NEW p, p = parseResponse(Calls[op].reader, body), p.ok
      PROVE  p.head = Blank /\ p.items = <<>>
  <2> DEFINE none == [ok |-> TRUE, head |-> Blank, items |-> <<>>]
  <2>1. none.head = Blank /\ none.items = <<>> /\ ~Thrown.ok
    BY DEF Thrown
  <2>2. Odd.t # "object" /\ \A key : At(Odd, key) = Absent
    BY DEF Odd, At
  <2>3. Read(Blank, <<>>) = none
    BY DEF Read, Blank
  <2>4. \A classes : TakeIfObject(classes, Odd) = Blank /\ List(Absent, classes) = none
    <3>1. \A classes : TakeIfObject(classes, Odd) = Blank
        BY <2>2 DEF TakeIfObject
    <3>2. Elements(Absent) = <<>>
        BY DEF Elements, Absent
    <3>3. \A classes : List(Absent, classes) = Read(Blank, <<>>)
        BY <3>2 DEF List
    <3> QED
        BY <2>3, <3>1, <3>3
  <2>5. \A j, key : accountObject(j, key) \in {Thrown, none}
    BY <2>3, <2>4 DEF accountObject, parseAccount, AsJson
  <2>6. \A j : profile(j) \in {Thrown, none}
    <3>1. parseAccountProfile(Odd) = Read(Blank, <<>>)
        BY <2>2, <2>4 DEF parseAccountProfile
    <3> QED
        BY <2>3, <3>1 DEF profile, AsJson
  <2>7. \A j : parsePositions(AsJson(j)) = none /\ parseOrders(AsJson(j)) = none
    BY <2>2, <2>4 DEF parsePositions, parseOrders, AsJson
  <2>8. Calls[op].reader \in {"account", "profile", "order", "positions", "orders"}
    BY AccountRow DEF AccountCalls, Row, Converted
  <2> HIDE DEF none
  <2>9. p \in {Thrown, none}
    BY <1>1, <2>5, <2>6, <2>7, <2>8 DEF parseResponse
  <2> QED
    BY <1>1, <2>1, <2>9
<1>2. CallInv /\ GotInv => ConvertedIsBlank
  <2> SUFFICES ASSUME GotInv, pc = "done", result.kind = "value", call.op \in Converted
               PROVE  result.head = Blank /\ result.items = <<>>
    BY DEF ConvertedIsBlank
  <2>1. PICK status \in Statuses : result = Answer(call.op, status, got)
    BY DEF GotInv
  <2>2. call.op # "getQuote"
    BY DEF Converted
  <2> DEFINE p == parseResponse(Calls[call.op].reader, got)
  <2>3. p.ok /\ result.head = p.head /\ result.items = p.items
    BY <2>1, <2>2 DEF Answer, Error, Value
  <2> HIDE DEF p
  <2> QED
    BY <1>1, <2>3 DEF p
<1> QED
    BY <1>2, GotInvariant, PTL

=============================================================================
