------------------------------ MODULE OtpProofs ------------------------------
(***************************************************************************)
(* Theorems about Otp, for any identifiers, codes, limits and number of    *)
(* requests served at the same time.                                       *)
(*                                                                         *)
(* All of them rest on one fact about the steps: but for Create, a step    *)
(* only ages the records (Aged): it keeps them, their identifiers and      *)
(* their codes, and revives none.                                          *)
(***************************************************************************)
EXTENDS Otp, SequenceTheorems, TLAPS

LEMMA FunctionIsSeq ==
  ASSUME NEW S, NEW n \in Nat, NEW f \in [1..n -> S]
  PROVE  f \in Seq(S) /\ Len(f) = n
  <1>1. f \in Seq(S)
    BY SeqDef
  <1>2. DOMAIN f = 1..Len(f) /\ Len(f) \in Nat
    BY <1>1, LenProperties
  <1>3. DOMAIN f = 1..n
    OBVIOUS
  <1>4. QED
    BY <1>1, <1>2, <1>3

-----------------------------------------------------------------------------
(* Types.                                                                  *)

\* What TypeOK says of the collection, and of the slot of one request.
OtpsTyped == otps \in Seq(OtpVerification) /\ Len(otps) <= MaxOtps

SlotsTyped ==
  /\ pc \in [Requests -> Steps]
  /\ request \in [Requests -> Request \cup {NoRequest}]
  /\ copy \in [Requests -> Copy]

SlotTyped(r) ==
  /\ request[r] = NoRequest <=> pc[r] = "idle"
  /\ copy[r].otp <= Len(otps)
  /\ pc[r] \in {"lock", "increment", "use", "verified"} => copy[r].otp > 0
  /\ pc[r] = "increment" => copy[r].attempts < MaxAttempts

ReplacedTyped ==
  /\ replaced \in [Identifiers -> 0..MaxOtps]
  /\ \A i \in Identifiers : replaced[i] <= Len(otps)

LEMMA TypeOKParts ==
  TypeOK <=> /\ OtpsTyped /\ SlotsTyped /\ ReplacedTyped
             /\ \A r \in Requests : SlotTyped(r)
  BY DEF TypeOK, OtpsTyped, SlotsTyped, ReplacedTyped, SlotTyped

\* A step that only ages the records.
Aged ==
  /\ otps' \in Seq(OtpVerification) /\ Len(otps') = Len(otps)
  /\ \A k \in 1..Len(otps) :
       /\ otps'[k].identifier = otps[k].identifier /\ otps'[k].otp = otps[k].otp
       /\ otps[k].isUsed => otps'[k].isUsed
       /\ otps[k].expired => otps'[k].expired

LEMMA AgedUnchanged ==
  ASSUME TypeOK, UNCHANGED otps PROVE Aged
  BY DEF TypeOK, Aged

\* The collection with one record changed.
LEMMA UpdatedOtps ==
  ASSUME TypeOK, NEW k \in 1..Len(otps), NEW otp \in OtpVerification,
         otps' = [otps EXCEPT ![k] = otp]
  PROVE  /\ otps' \in Seq(OtpVerification) /\ Len(otps') = Len(otps)
         /\ otps[k] \in OtpVerification
         /\ \A j \in 1..Len(otps) : otps'[j] = IF j = k THEN otp ELSE otps[j]
  <1>1. otps \in Seq(OtpVerification)
    BY DEF TypeOK
  <1>2. QED
    BY <1>1, ExceptSeq, ElementOfSeq

\* The four updates of a record.
LEMMA AgedUsed ==
  ASSUME TypeOK, NEW k \in 1..Len(otps), otps' = [otps EXCEPT ![k].isUsed = TRUE]
  PROVE  Aged /\ otps'[k].isUsed /\ \A j \in 1..Len(otps) : j # k => otps'[j] = otps[j]
  <1> DEFINE otp == [otps[k] EXCEPT !.isUsed = TRUE]
  <1>1. otps[k] \in OtpVerification
    BY ElementOfSeq DEF TypeOK
  <1>2. otp \in OtpVerification /\ otps' = [otps EXCEPT ![k] = otp]
    BY <1>1 DEF OtpVerification
  <1>3. /\ otps' \in Seq(OtpVerification) /\ Len(otps') = Len(otps)
        /\ \A j \in 1..Len(otps) : otps'[j] = IF j = k THEN otp ELSE otps[j]
    BY <1>2, UpdatedOtps
  <1>4. /\ otp.isUsed /\ otp.identifier = otps[k].identifier /\ otp.otp = otps[k].otp
        /\ otp.expired = otps[k].expired
    BY <1>1 DEF OtpVerification
  <1>5. QED
    BY <1>3, <1>4 DEF Aged

LEMMA AgedExpired ==
  ASSUME TypeOK, NEW k \in 1..Len(otps), otps' = [otps EXCEPT ![k].expired = TRUE]
  PROVE  Aged /\ otps'[k].expired /\ \A j \in 1..Len(otps) : j # k => otps'[j] = otps[j]
  <1> DEFINE otp == [otps[k] EXCEPT !.expired = TRUE]
  <1>1. otps[k] \in OtpVerification
    BY ElementOfSeq DEF TypeOK
  <1>2. otp \in OtpVerification /\ otps' = [otps EXCEPT ![k] = otp]
    BY <1>1 DEF OtpVerification
  <1>3. /\ otps' \in Seq(OtpVerification) /\ Len(otps') = Len(otps)
        /\ \A j \in 1..Len(otps) : otps'[j] = IF j = k THEN otp ELSE otps[j]
    BY <1>2, UpdatedOtps
  <1>4. /\ otp.expired /\ otp.identifier = otps[k].identifier /\ otp.otp = otps[k].otp
        /\ otp.isUsed = otps[k].isUsed
    BY <1>1 DEF OtpVerification
  <1>5. QED
    BY <1>3, <1>4 DEF Aged

LEMMA AgedAttempts ==
  ASSUME TypeOK, NEW k \in 1..Len(otps), NEW n \in 0..MaxAttempts,
         otps' = [otps EXCEPT ![k].attempts = n]
  PROVE  Aged /\ \A j \in 1..Len(otps) : otps'[j].isUsed = otps[j].isUsed
                                         /\ otps'[j].expired = otps[j].expired
  <1> DEFINE otp == [otps[k] EXCEPT !.attempts = n]
  <1>1. otps[k] \in OtpVerification
    BY ElementOfSeq DEF TypeOK
  <1>2. otp \in OtpVerification /\ otps' = [otps EXCEPT ![k] = otp]
    BY <1>1 DEF OtpVerification
  <1>3. /\ otps' \in Seq(OtpVerification) /\ Len(otps') = Len(otps)
        /\ \A j \in 1..Len(otps) : otps'[j] = IF j = k THEN otp ELSE otps[j]
    BY <1>2, UpdatedOtps
  <1>4. /\ otp.expired = otps[k].expired /\ otp.identifier = otps[k].identifier
        /\ otp.otp = otps[k].otp /\ otp.isUsed = otps[k].isUsed
    BY <1>1 DEF OtpVerification
  <1>5. QED
    BY <1>3, <1>4 DEF Aged

LEMMA AgedInvalidated ==
  ASSUME TypeOK, NEW i \in Identifiers,
         otps' = [k \in DOMAIN otps |->
           IF Invalidated(k, i) THEN [otps[k] EXCEPT !.isUsed = TRUE] ELSE otps[k]]
  PROVE  /\ Aged
         /\ \A k \in 1..Len(otps) : otps[k].identifier = i => otps'[k].isUsed
         /\ \A k \in 1..Len(otps) : ~Invalidated(k, i) => otps'[k] = otps[k]
  <1>1. /\ Len(otps) \in Nat /\ DOMAIN otps = 1..Len(otps)
        /\ \A k \in 1..Len(otps) : otps[k] \in OtpVerification
    BY LenProperties, ElementOfSeq DEF TypeOK
  <1>2. ASSUME NEW k \in 1..Len(otps)
        PROVE  /\ otps'[k] \in OtpVerification
               /\ otps'[k].identifier = otps[k].identifier /\ otps'[k].otp = otps[k].otp
               /\ otps[k].isUsed => otps'[k].isUsed
               /\ otps'[k].expired = otps[k].expired
               /\ otps[k].identifier = i => otps'[k].isUsed
               /\ ~Invalidated(k, i) => otps'[k] = otps[k]
    BY <1>1 DEF OtpVerification, Invalidated, Unused
  <1>3. otps' \in [1..Len(otps) -> OtpVerification]
    BY <1>1, <1>2
  <1>4. otps' \in Seq(OtpVerification) /\ Len(otps') = Len(otps)
    BY <1>1, <1>3, FunctionIsSeq
  <1>5. QED
    BY <1>2, <1>4 DEF Aged

LEMMA Created ==
  ASSUME TypeOK, NEW i \in Identifiers, NEW code \in Codes, Len(otps) < MaxOtps,
         otps' = Append(otps, NewOtp(i, code))
  PROVE  /\ OtpsTyped' /\ Len(otps') = Len(otps) + 1
         /\ \A k \in 1..Len(otps) : otps'[k] = otps[k]
         /\ otps'[Len(otps) + 1] = NewOtp(i, code)
  <1>1. otps \in Seq(OtpVerification) /\ NewOtp(i, code) \in OtpVerification
    BY OtpAssumptions DEF TypeOK, OtpVerification, NewOtp
  <1>2. QED
    BY <1>1, AppendProperties, LenProperties, OtpAssumptions DEF OtpsTyped

\* The collection never shrinks, so what a copy refers to stays, and no record that
\* was there is revived.
Kept ==
  /\ OtpsTyped' /\ Len(otps) \in Nat /\ Len(otps') \in Nat /\ Len(otps) <= Len(otps')
  /\ \A k \in 1..Len(otps) :
       otps'[k].identifier = otps[k].identifier /\ (Live(k)' => Live(k))

LEMMA AgedIsKept ==
  ASSUME TypeOK, Aged PROVE Kept
  <1>1. OtpsTyped' /\ Len(otps) \in Nat /\ Len(otps') = Len(otps)
    BY LenProperties DEF TypeOK, Aged, OtpsTyped
  <1>2. QED
    BY <1>1 DEF Aged, Kept, Live

LEMMA CreatedIsKept ==
  ASSUME TypeOK, NEW i \in Identifiers, NEW code \in Codes, Len(otps) < MaxOtps,
         otps' = Append(otps, NewOtp(i, code))
  PROVE  Kept
  <1>1. OtpsTyped' /\ Len(otps) \in Nat /\ Len(otps') = Len(otps) + 1
    BY Created, LenProperties DEF TypeOK
  <1>2. \A k \in 1..Len(otps) : otps'[k] = otps[k]
    BY Created
  <1>3. QED
    BY <1>1, <1>2 DEF Kept, Live

LEMMA ReplacedStays ==
  ASSUME TypeOK, Kept, UNCHANGED replaced PROVE ReplacedTyped'
  <1>1. ASSUME NEW i \in Identifiers PROVE replaced[i] <= Len(otps')
    <2>1. replaced[i] \in Int /\ replaced[i] <= Len(otps)
      BY OtpAssumptions DEF TypeOK
    <2>2. QED
      BY <2>1 DEF Kept
  <1>2. QED
    BY <1>1 DEF TypeOK, ReplacedTyped

\* What a step of request r leaves alone of the other requests.
OthersKept(r) ==
  \A q \in Requests \ {r} :
    pc'[q] = pc[q] /\ request'[q] = request[q] /\ copy'[q] = copy[q]

\* The ways in which a request moves on.
LEMMA AfterGoto ==
  ASSUME TypeOK, Kept, ReplacedTyped',
         NEW r \in Requests, NEW step \in Steps, Goto(r, step),
         pc[r] # "idle", step # "idle",
         step \in {"lock", "use", "verified"} => copy[r].otp > 0, step # "increment"
  PROVE  /\ TypeOK' /\ OthersKept(r)
         /\ pc'[r] = step /\ request' = request /\ copy' = copy
  <1>1. SlotsTyped' /\ OthersKept(r) /\ pc'[r] = step /\ request' = request /\ copy' = copy
    BY DEF TypeOK, SlotsTyped, OthersKept, Goto
  <1>2. \A q \in Requests : SlotTyped(q)'
    BY <1>1 DEF TypeOK, SlotTyped, OthersKept, Kept, Copy
  <1>3. QED
    BY <1>1, <1>2, TypeOKParts DEF TypeOK, OtpsTyped, SlotsTyped, ReplacedTyped, SlotTyped, Kept

LEMMA AfterFinish ==
  ASSUME TypeOK, Kept, ReplacedTyped', NEW r \in Requests, Finish(r)
  PROVE  TypeOK' /\ OthersKept(r) /\ pc'[r] = "idle"
  <1>1. NoCopy \in Copy /\ NoCopy.otp = 0 /\ "idle" \in Steps
    BY OtpAssumptions DEF NoCopy, Copy, Steps
  <1>2. /\ SlotsTyped' /\ OthersKept(r)
        /\ pc'[r] = "idle" /\ request'[r] = NoRequest /\ copy'[r] = NoCopy
    BY <1>1 DEF TypeOK, SlotsTyped, OthersKept, Finish
  <1>3. SlotTyped(r)'
    BY <1>1, <1>2 DEF SlotTyped, Kept
  <1>4. \A q \in Requests \ {r} : SlotTyped(q)'
    BY <1>2 DEF TypeOK, SlotTyped, OthersKept, Kept, Copy
  <1>5. QED
    BY <1>2, <1>3, <1>4 DEF TypeOK, OtpsTyped, SlotsTyped, ReplacedTyped, SlotTyped, Kept

LEMMA AfterArrive ==
  ASSUME TypeOK, NEW r \in Requests, NEW step \in {"invalidate", "find"},
         NEW new \in Request, Arrive(r, step, new)
  PROVE  /\ TypeOK' /\ Aged /\ OthersKept(r)
         /\ pc'[r] = step /\ request'[r] = new /\ copy' = copy
  <1>1. Aged /\ Kept /\ ReplacedTyped'
    BY AgedUnchanged, AgedIsKept, ReplacedStays DEF Arrive
  <1>2. new # NoRequest /\ step \in Steps
    BY OtpAssumptions DEF Steps
  <1>3. /\ SlotsTyped' /\ OthersKept(r)
        /\ pc'[r] = step /\ request'[r] = new /\ copy' = copy
    BY <1>2 DEF TypeOK, SlotsTyped, OthersKept, Arrive
  <1>4. \A q \in Requests : SlotTyped(q)'
    BY <1>1, <1>2, <1>3 DEF TypeOK, SlotTyped, OthersKept, Kept, Arrive
  <1>5. QED
    BY <1>1, <1>2, <1>3, <1>4
       DEF TypeOK, OtpsTyped, SlotsTyped, ReplacedTyped, SlotTyped, Kept

\* The two kinds of arrival.
LEMMA Arrives ==
  ASSUME TypeOK, NEW r \in Requests, NEW i \in Identifiers,
         SendOtp(r, i) \/ \E code \in Codes : VerifyOtp(r, i, code)
  PROVE  /\ TypeOK' /\ Aged /\ OthersKept(r) /\ UNCHANGED replaced
         /\ copy' = copy
         /\ \/ /\ SendOtp(r, i) /\ pc'[r] = "invalidate"
               /\ request'[r].before = Len(otps)
            \/ /\ \E code \in Codes : VerifyOtp(r, i, code)
               /\ pc'[r] = "find" /\ request'[r].before = replaced[i]
               /\ request'[r].identifier = i
  <1>1. Len(otps) \in 0..MaxOtps /\ replaced[i] \in 0..MaxOtps
    BY OtpAssumptions, LenProperties DEF TypeOK
  <1>2. CASE SendOtp(r, i)
    <2> DEFINE new == [op |-> "send", identifier |-> i, otp |-> NoCode,
                       before |-> Len(otps)]
    <2>1. new \in Request /\ Arrive(r, "invalidate", new)
      BY <1>1, <1>2 DEF Request, SendOtp
    <2>2. /\ TypeOK' /\ Aged /\ OthersKept(r) /\ copy' = copy
          /\ pc'[r] = "invalidate" /\ request'[r] = new
      BY <2>1, AfterArrive
    <2>3. UNCHANGED replaced /\ new.before = Len(otps)
      BY <2>1 DEF Arrive
    <2>4. QED
      BY <1>2, <2>2, <2>3
  <1>3. ASSUME NEW code \in Codes, VerifyOtp(r, i, code)
        PROVE  /\ TypeOK' /\ Aged /\ OthersKept(r) /\ UNCHANGED replaced
               /\ copy' = copy /\ pc'[r] = "find"
               /\ request'[r].before = replaced[i] /\ request'[r].identifier = i
    <2> DEFINE new == [op |-> "verify", identifier |-> i, otp |-> code,
                       before |-> replaced[i]]
    <2>1. new \in Request /\ Arrive(r, "find", new)
      BY <1>1, <1>3 DEF Request, VerifyOtp
    <2>2. /\ TypeOK' /\ Aged /\ OthersKept(r) /\ copy' = copy
          /\ pc'[r] = "find" /\ request'[r] = new
      BY <2>1, AfterArrive
    <2>3. UNCHANGED replaced /\ new.before = replaced[i] /\ new.identifier = i
      BY <2>1 DEF Arrive
    <2>4. QED
      BY <2>2, <2>3
  <1>4. QED
    BY <1>2, <1>3

LEMMA AfterFind ==
  ASSUME TypeOK, NEW r \in Requests, NEW k \in 1..Len(otps), FindOtp(r, k)
  PROVE  /\ TypeOK' /\ Aged /\ OthersKept(r)
         /\ \/ otps[k].expired /\ pc'[r] = "idle"
            \/ /\ ~otps[k].expired /\ copy'[r].otp = k /\ request' = request
               /\ pc'[r] \in {"increment", "lock"}
  <1>1. Aged /\ Kept /\ ReplacedTyped'
    BY AgedUnchanged, AgedIsKept, ReplacedStays DEF FindOtp
  <1>2. CASE otps[k].expired
    BY <1>1, <1>2, AfterFinish DEF FindOtp
  <1>3. CASE ~otps[k].expired
    <2> DEFINE new == [otp |-> k, attempts |-> otps[k].attempts]
               step == IF MayGuess(otps[k].attempts) THEN "increment" ELSE "lock"
    <2> otps[k] \in OtpVerification
      BY ElementOfSeq DEF TypeOK
    <2>1. otps[k].attempts \in 0..MaxAttempts
      BY DEF OtpVerification
    <2>2. k \in 1..MaxOtps
      BY <1>1, OtpAssumptions DEF TypeOK, Kept
    <2>3. new \in Copy /\ new.otp = k /\ new.attempts = otps[k].attempts /\ k \in Nat /\ k > 0
      BY <2>1, <2>2 DEF Copy
    <2>4. /\ pc' = [pc EXCEPT ![r] = step] /\ copy' = [copy EXCEPT ![r] = new]
          /\ request' = request /\ step \in Steps /\ pc[r] = "find"
      BY <1>3 DEF FindOtp, At, Steps
    <2>5. /\ SlotsTyped' /\ OthersKept(r)
          /\ pc'[r] = step /\ request' = request /\ copy'[r] = new
      BY <2>3, <2>4 DEF TypeOK, SlotsTyped, OthersKept
    <2>6. step = "increment" => otps[k].attempts < MaxAttempts
      BY DEF MayGuess
    <2>7. \A q \in Requests \ {r} : SlotTyped(q)'
      BY <1>1, <2>5 DEF TypeOK, SlotTyped, OthersKept, Kept, Copy
    <2>8. SlotTyped(r)'
      BY <1>1, <2>3, <2>4, <2>5, <2>6 DEF TypeOK, SlotTyped, Kept
    <2>9. TypeOK'
      BY <1>1, <2>5, <2>7, <2>8 DEF TypeOK, OtpsTyped, SlotsTyped, ReplacedTyped, SlotTyped, Kept
    <2>10. QED
      BY <1>1, <1>3, <2>3, <2>5, <2>9
  <1>4. QED
    BY <1>2, <1>3

-----------------------------------------------------------------------------
(* The collection when a generation is answered.                           *)

\* A generation that has invalidated: what was there when it was asked for is dead.
Dead(r) ==
  /\ pc[r] # "idle" => request[r].before <= Len(otps)
  /\ pc[r] \in {"create", "sent"} =>
       \A k \in 1..request[r].before :
         otps[k].identifier = request[r].identifier => ~Live(k)

OtpInv == TypeOK /\ \A r \in Requests : Dead(r)

LEMMA BeforeTyped ==
  ASSUME TypeOK, NEW r \in Requests, pc[r] # "idle"
  PROVE  request[r] \in Request /\ request[r].before \in Nat
         /\ request[r].identifier \in Identifiers
  <1>1. request[r] \in Request
    BY DEF TypeOK
  <1>2. QED
    BY <1>1, OtpAssumptions DEF Request

\* A slot that does not move, or moves within or out of the generation, stays dead.
LEMMA DeadStays ==
  ASSUME TypeOK, Kept, NEW q \in Requests, Dead(q),
         \/ pc'[q] = "idle"
         \/ /\ request'[q] = request[q] /\ pc[q] # "idle"
            /\ pc'[q] \in {"create", "sent"} => pc[q] \in {"create", "sent"}
  PROVE  Dead(q)'
  <1>1. CASE pc'[q] = "idle"
    BY <1>1 DEF Dead
  <1>2. CASE /\ request'[q] = request[q] /\ pc[q] # "idle"
             /\ pc'[q] \in {"create", "sent"} => pc[q] \in {"create", "sent"}
    <2>1. request[q].before \in Nat /\ request[q].before <= Len(otps)
      BY <1>2, BeforeTyped DEF Dead
    <2>2. request'[q].before <= Len(otps')
      BY <1>2, <2>1 DEF Kept
    <2>3. ASSUME pc'[q] \in {"create", "sent"}, NEW k \in 1..request[q].before,
                 otps'[k].identifier = request[q].identifier
          PROVE  ~Live(k)'
      <3>1. k \in 1..Len(otps)
        BY <2>1 DEF Kept
      <3>2. QED
        BY <1>2, <2>3, <3>1 DEF Dead, Kept
    <2>4. QED
      BY <1>2, <2>2, <2>3 DEF Dead
  <1>3. QED
    BY <1>1, <1>2

LEMMA OthersDead ==
  ASSUME OtpInv, Kept, NEW r \in Requests, OthersKept(r), TypeOK', Dead(r)'
  PROVE  OtpInv'
  <1>1. ASSUME NEW q \in Requests \ {r} PROVE Dead(q)'
    <2>1. pc'[q] = pc[q] /\ request'[q] = request[q]
      BY DEF OthersKept
    <2>2. QED
      BY <2>1, DeadStays DEF OtpInv
  <1>2. QED
    BY <1>1 DEF OtpInv

\* A step that ends or moves on from a lookup, a comparison or a lock.
LEMMA MovedOn ==
  ASSUME OtpInv, Kept, NEW r \in Requests, OthersKept(r), TypeOK',
         \/ pc'[r] = "idle"
         \/ /\ request'[r] = request[r] /\ pc[r] # "idle"
            /\ pc'[r] \in {"create", "sent"} => pc[r] \in {"create", "sent"}
  PROVE  OtpInv'
  BY DeadStays, OthersDead DEF OtpInv

LEMMA ArriveInv ==
  ASSUME OtpInv, NEW r \in Requests, NEW i \in Identifiers,
         SendOtp(r, i) \/ \E code \in Codes : VerifyOtp(r, i, code)
  PROVE  OtpInv'
  <1>1. /\ TypeOK' /\ Aged /\ OthersKept(r)
        /\ pc'[r] \in {"invalidate", "find"}
        /\ request'[r].before \in {Len(otps), replaced[i]}
    BY Arrives DEF OtpInv
  <1>2. Kept /\ Len(otps') = Len(otps) /\ replaced[i] <= Len(otps)
    BY <1>1, AgedIsKept DEF OtpInv, Aged, TypeOK
  <1>3. Dead(r)'
    BY <1>1, <1>2 DEF Dead, Kept
  <1>4. QED
    BY <1>1, <1>2, <1>3, OthersDead

LEMMA InvalidateInv ==
  ASSUME OtpInv, NEW r \in Requests, Invalidate(r)
  PROVE  OtpInv' /\ Kept /\ OthersKept(r)
  <1> DEFINE i == request[r].identifier
  <1>1. /\ pc[r] = "invalidate" /\ Goto(r, "create") /\ TypeOK
        /\ otps' = [k \in DOMAIN otps |->
             IF Invalidated(k, i) THEN [otps[k] EXCEPT !.isUsed = TRUE] ELSE otps[k]]
    BY DEF Invalidate, At, OtpInv
  <1>2. i \in Identifiers /\ request[r].before \in Nat
    BY <1>1, BeforeTyped
  <1>3. Aged /\ \A k \in 1..Len(otps) : otps[k].identifier = i => otps'[k].isUsed
    BY <1>1, <1>2, AgedInvalidated
  <1>4. Kept
    BY <1>1, <1>3, AgedIsKept
  <1>5. "create" \in Steps /\ ReplacedTyped'
    BY <1>1, <1>4, ReplacedStays DEF Steps, Invalidate
  <1>6. TypeOK' /\ OthersKept(r) /\ pc'[r] = "create" /\ request' = request
    BY <1>1, <1>4, <1>5, AfterGoto
  <1>7. request[r].before <= Len(otps)
    BY <1>1 DEF OtpInv, Dead
  <1>8. \A k \in 1..request[r].before : k \in 1..Len(otps)
    BY <1>2, <1>4, <1>7 DEF Kept
  <1>9. \A k \in 1..request[r].before : otps'[k].identifier = i => ~Live(k)'
    BY <1>3, <1>8 DEF Aged, Live
  <1>10. Dead(r)'
    BY <1>2, <1>4, <1>6, <1>7, <1>9 DEF Dead, Kept
  <1>11. QED
    BY <1>4, <1>6, <1>10, OthersDead

LEMMA CreateInv ==
  ASSUME OtpInv, NEW r \in Requests, NEW code \in Codes, Create(r, code)
  PROVE  OtpInv' /\ Kept /\ OthersKept(r)
  <1>1. /\ pc[r] = "create" /\ Goto(r, "sent") /\ TypeOK /\ Len(otps) < MaxOtps
        /\ otps' = Append(otps, NewOtp(request[r].identifier, code))
    BY DEF Create, At, OtpInv
  <1>2. request[r].identifier \in Identifiers /\ "sent" \in Steps
    BY <1>1, BeforeTyped DEF Steps
  <1>3. Kept /\ ReplacedTyped'
    BY <1>1, <1>2, CreatedIsKept, ReplacedStays DEF Create
  <1>4. TypeOK' /\ OthersKept(r) /\ pc'[r] = "sent" /\ request' = request
    BY <1>1, <1>2, <1>3, AfterGoto
  <1>5. QED
    BY <1>1, <1>3, <1>4, MovedOn

LEMMA FindInv ==
  ASSUME OtpInv, NEW r \in Requests,
         NotFound(r) \/ \E k \in 1..Len(otps) : FindOtp(r, k)
  PROVE  OtpInv'
  <1>1. CASE NotFound(r)
    <2>1. Kept /\ ReplacedTyped'
      BY <1>1, AgedUnchanged, AgedIsKept, ReplacedStays DEF NotFound, OtpInv
    <2>2. QED
      BY <1>1, <2>1, AfterFinish, MovedOn DEF NotFound, OtpInv
  <1>2. ASSUME NEW k \in 1..Len(otps), FindOtp(r, k) PROVE OtpInv'
    <2>1. /\ TypeOK' /\ Aged /\ OthersKept(r)
          /\ \/ pc'[r] = "idle"
             \/ request' = request /\ pc'[r] \in {"increment", "lock"}
      BY <1>2, AfterFind DEF OtpInv
    <2>2. Kept /\ pc[r] = "find"
      BY <1>2, <2>1, AgedIsKept DEF OtpInv, FindOtp, At
    <2>3. QED
      BY <2>1, <2>2, MovedOn
  <1>3. QED
    BY <1>1, <1>2

\* The record that a copy refers to.
LEMMA CopyRefers ==
  ASSUME TypeOK, NEW r \in Requests, pc[r] \in {"lock", "increment", "use"}
  PROVE  copy[r].otp \in 1..Len(otps)
  <1>1. copy[r].otp \in Int /\ copy[r].otp > 0 /\ copy[r].otp <= Len(otps)
    BY OtpAssumptions DEF TypeOK, Copy
  <1>2. Len(otps) \in Nat
    BY LenProperties DEF TypeOK
  <1>3. QED
    BY <1>1, <1>2

LEMMA LockInv ==
  ASSUME OtpInv, NEW r \in Requests, LockOtp(r)
  PROVE  OtpInv' /\ Aged /\ OthersKept(r) /\ pc'[r] = "idle"
  <1>1. /\ pc[r] = "lock" /\ Finish(r) /\ TypeOK
        /\ otps' = [otps EXCEPT ![copy[r].otp].isUsed = TRUE]
    BY DEF LockOtp, At, OtpInv
  <1>2. Aged /\ Kept /\ ReplacedTyped'
    BY <1>1, CopyRefers, AgedUsed, AgedIsKept, ReplacedStays DEF LockOtp
  <1>3. TypeOK' /\ OthersKept(r) /\ pc'[r] = "idle"
    BY <1>1, <1>2, AfterFinish
  <1>4. QED
    BY <1>2, <1>3, MovedOn

LEMMA IncrementInv ==
  ASSUME OtpInv, NEW r \in Requests, IncrementAttempts(r)
  PROVE  /\ OtpInv' /\ Aged /\ OthersKept(r)
         /\ \A k \in 1..Len(otps) : Live(k)' <=> Live(k)
         /\ pc'[r] = "idle" \/ (pc'[r] = "use" /\ copy' = copy)
  <1> DEFINE n == Attempted(copy[r].attempts)
  <1>1. /\ pc[r] = "increment" /\ TypeOK /\ copy[r].otp \in 1..Len(otps)
        /\ otps' = [otps EXCEPT ![copy[r].otp].attempts = n]
        /\ Goto(r, "use") \/ Finish(r)
    BY CopyRefers DEF IncrementAttempts, At, OtpInv
  <1>2. copy[r].attempts \in 0..MaxAttempts /\ copy[r].attempts < MaxAttempts
    BY <1>1 DEF TypeOK, Copy
  <1>3. n \in 0..MaxAttempts
    BY <1>2, OtpAssumptions DEF Attempted
  <1>4. /\ Aged
        /\ \A k \in 1..Len(otps) : otps'[k].isUsed = otps[k].isUsed
                                   /\ otps'[k].expired = otps[k].expired
    BY <1>1, <1>3, AgedAttempts
  <1>5. Kept /\ ReplacedTyped' /\ "use" \in Steps /\ copy[r].otp > 0
    <2>1. copy[r].otp > 0
      BY <1>1 DEF TypeOK
    <2>2. Kept /\ ReplacedTyped'
      BY <1>1, <1>4, AgedIsKept, ReplacedStays DEF IncrementAttempts
    <2>3. QED
      BY <2>1, <2>2 DEF Steps
  <1>6. /\ TypeOK' /\ OthersKept(r)
        /\ pc'[r] = "idle" \/ (pc'[r] = "use" /\ request' = request /\ copy' = copy)
    BY <1>1, <1>5, AfterGoto, AfterFinish
  <1>7. QED
    BY <1>1, <1>4, <1>5, <1>6, MovedOn DEF Live

LEMMA UseInv ==
  ASSUME OtpInv, NEW r \in Requests, UseOtp(r)
  PROVE  /\ OtpInv' /\ Aged /\ OthersKept(r) /\ pc'[r] = "verified"
         /\ \A k \in 1..Len(otps) : Live(k)' <=> Live(k) /\ k # copy[r].otp
  <1>1. /\ pc[r] = "use" /\ Goto(r, "verified") /\ TypeOK /\ copy[r].otp \in 1..Len(otps)
        /\ otps' = [otps EXCEPT ![copy[r].otp].isUsed = TRUE]
    BY CopyRefers DEF UseOtp, At, OtpInv
  <1>2. /\ Aged /\ otps'[copy[r].otp].isUsed
        /\ \A j \in 1..Len(otps) : j # copy[r].otp => otps'[j] = otps[j]
    BY <1>1, AgedUsed
  <1>3. Kept /\ ReplacedTyped' /\ "verified" \in Steps /\ copy[r].otp > 0
    BY <1>1, <1>2, AgedIsKept, ReplacedStays DEF Steps, UseOtp
  <1>4. TypeOK' /\ OthersKept(r) /\ pc'[r] = "verified" /\ request' = request
    BY <1>1, <1>3, AfterGoto
  <1>5. QED
    BY <1>1, <1>2, <1>3, <1>4, MovedOn DEF Live

LEMMA EndInv ==
  ASSUME OtpInv, NEW r \in Requests, Answer(r) \/ Fail(r)
  PROVE  OtpInv' /\ Aged /\ OthersKept(r) /\ pc'[r] = "idle"
  <1>1. Finish(r) /\ UNCHANGED otps /\ TypeOK
    BY DEF Answer, Fail, OtpInv
  <1>2. Aged /\ Kept
    BY <1>1, AgedUnchanged, AgedIsKept
  <1>3. ReplacedTyped'
    <2>1. CASE UNCHANGED replaced
      BY <1>1, <1>2, <2>1, ReplacedStays
    <2>2. CASE At(r, "sent") /\ Replace(r)
      <3>1. /\ request[r].before \in 0..MaxOtps /\ request[r].before <= Len(otps)
        BY <2>2, BeforeTyped DEF At, OtpInv, Dead, Request
      <3>2. QED
        BY <1>1, <2>2, <3>1 DEF Replace, ReplacedTyped, TypeOK
    <2>3. QED
      BY <2>1, <2>2 DEF Answer, Fail
  <1>4. QED
    BY <1>1, <1>2, <1>3, AfterFinish, MovedOn

LEMMA ExpireInv ==
  ASSUME OtpInv, NEW k \in 1..MaxOtps, Expire(k)
  PROVE  /\ OtpInv' /\ Aged /\ UNCHANGED <<pc, request, copy>>
         /\ \A j \in 1..Len(otps) : Live(j)' <=> Live(j) /\ j # k
  <1>1. /\ TypeOK /\ otps' = [otps EXCEPT ![k].expired = TRUE]
        /\ k \in 1..Len(otps) /\ UNCHANGED <<pc, request, copy, replaced>>
    BY LenProperties DEF Expire, OtpInv, TypeOK
  <1>2. /\ Aged /\ otps'[k].expired
        /\ \A j \in 1..Len(otps) : j # k => otps'[j] = otps[j]
    BY <1>1, AgedExpired
  <1>3. Kept /\ Len(otps') = Len(otps)
    BY <1>1, <1>2, AgedIsKept DEF Aged
  <1>4. TypeOK'
    <2>1. SlotsTyped' /\ \A q \in Requests : SlotTyped(q)'
      BY <1>1, <1>3, TypeOKParts DEF SlotsTyped, SlotTyped
    <2>2. OtpsTyped' /\ ReplacedTyped'
      BY <1>1, <1>3, ReplacedStays DEF Kept
    <2>3. QED
      BY <2>1, <2>2 DEF TypeOK, OtpsTyped, SlotsTyped, ReplacedTyped, SlotTyped
  <1>5. ASSUME NEW q \in Requests PROVE Dead(q)'
    <2>1. CASE pc[q] = "idle"
      BY <1>1, <2>1, DeadStays, <1>3 DEF OtpInv
    <2>2. CASE pc[q] # "idle"
      BY <1>1, <2>2, DeadStays, <1>3 DEF OtpInv
    <2>3. QED
      BY <2>1, <2>2
  <1>6. QED
    BY <1>1, <1>2, <1>4, <1>5 DEF OtpInv, Live

\* A step, action by action.
LEMMA HandlerInv ==
  ASSUME OtpInv, NEW r \in Requests, Handler(r)
  PROVE  OtpInv'
  <1>1. CASE \E i \in Identifiers : SendOtp(r, i) \/ \E code \in Codes : VerifyOtp(r, i, code)
    BY <1>1, ArriveInv
  <1>2. CASE Invalidate(r) \/ \E code \in Codes : Create(r, code)
    BY <1>2, InvalidateInv, CreateInv
  <1>3. CASE NotFound(r) \/ \E k \in 1..Len(otps) : FindOtp(r, k)
    BY <1>3, FindInv
  <1>4. CASE LockOtp(r)
    BY <1>4, LockInv
  <1>5. CASE IncrementAttempts(r)
    BY <1>5, IncrementInv
  <1>6. CASE UseOtp(r)
    BY <1>6, UseInv
  <1>7. CASE Answer(r) \/ Fail(r)
    BY <1>7, EndInv
  <1>8. QED
    BY <1>1, <1>2, <1>3, <1>4, <1>5, <1>6, <1>7 DEF Handler

LEMMA OtpInvInit == Init => OtpInv
  <1> SUFFICES ASSUME Init PROVE OtpInv
    OBVIOUS
  <1>1. NoCopy \in Copy /\ NoCopy.otp = 0 /\ "idle" \in Steps
    BY OtpAssumptions DEF NoCopy, Copy, Steps
  <1>2. OtpsTyped
    BY OtpAssumptions, EmptySeq DEF Init, OtpsTyped
  <1>3. SlotsTyped /\ \A r \in Requests : SlotTyped(r)
    BY <1>1, EmptySeq DEF Init, SlotsTyped, SlotTyped
  <1>4. ReplacedTyped /\ \A r \in Requests : Dead(r)
    BY OtpAssumptions, EmptySeq DEF Init, Dead, ReplacedTyped
  <1>5. QED
    BY <1>2, <1>3, <1>4, TypeOKParts DEF OtpInv

LEMMA OtpInvStep == OtpInv /\ [Next]_vars => OtpInv'
  <1> SUFFICES ASSUME OtpInv, [Next]_vars PROVE OtpInv'
    OBVIOUS
  <1>1. CASE \E r \in Requests : Handler(r)
    BY <1>1, HandlerInv
  <1>2. CASE \E k \in 1..MaxOtps : Expire(k)
    BY <1>2, ExpireInv
  <1>3. CASE UNCHANGED vars
    <2>1. \A q \in Requests : Dead(q)'
      BY <1>3 DEF OtpInv, Dead, Live, vars
    <2>2. TypeOK'
      BY <1>3 DEF OtpInv, TypeOK, vars
    <2>3. QED
      BY <2>1, <2>2 DEF OtpInv
  <1>4. QED
    BY <1>1, <1>2, <1>3 DEF Next

LEMMA OtpInvAlways == Spec => []OtpInv
  BY OtpInvInit, OtpInvStep, PTL DEF Spec

\* Every record and every slot is well formed, and a slot that is past the lookup
\* refers to a record there is.
THEOREM Typed == Spec => []TypeOK
  <1>1. OtpInv => TypeOK
    BY DEF OtpInv
  <1>2. QED
    BY <1>1, OtpInvAlways, PTL

-----------------------------------------------------------------------------
(* Replaced codes are refused.                                             *)

\* Every step keeps the collection; only an answered generation replaces codes.
LEMMA StepKeeps ==
  ASSUME OtpInv, Next
  PROVE  /\ Kept
         /\ \/ UNCHANGED replaced
            \/ \E r \in Requests : Answer(r) /\ At(r, "sent") /\ Replace(r)
  <1>1. TypeOK
    BY DEF OtpInv
  <1>2. ASSUME NEW r \in Requests, Handler(r) PROVE Kept
    <2>1. CASE \E i \in Identifiers : SendOtp(r, i) \/ \E code \in Codes : VerifyOtp(r, i, code)
      BY <1>1, <2>1, Arrives, AgedIsKept
    <2>2. CASE Invalidate(r) \/ \E code \in Codes : Create(r, code)
      BY <2>2, InvalidateInv, CreateInv
    <2>3. CASE NotFound(r) \/ \E k \in 1..Len(otps) : FindOtp(r, k)
      BY <1>1, <2>3, AgedUnchanged, AgedIsKept DEF NotFound, FindOtp
    <2>4. CASE LockOtp(r) \/ IncrementAttempts(r) \/ UseOtp(r) \/ Answer(r) \/ Fail(r)
      BY <1>1, <2>4, LockInv, IncrementInv, UseInv, EndInv, AgedIsKept
    <2>5. QED
      BY <1>2, <2>1, <2>2, <2>3, <2>4 DEF Handler
  <1>3. ASSUME NEW r \in Requests, Handler(r)
        PROVE  UNCHANGED replaced \/ (Answer(r) /\ At(r, "sent") /\ Replace(r))
    BY <1>3 DEF Handler, SendOtp, VerifyOtp, Arrive, Invalidate, Create, NotFound,
       FindOtp, LockOtp, IncrementAttempts, UseOtp, Answer, Fail
  <1>4. ASSUME NEW k \in 1..MaxOtps, Expire(k) PROVE Kept /\ UNCHANGED replaced
    BY <1>1, <1>4, ExpireInv, AgedIsKept DEF Expire
  <1>5. QED
    BY <1>2, <1>3, <1>4 DEF Next

\* What an answered generation replaced is dead.
ReplacedDead ==
  \A i \in Identifiers : \A k \in 1..replaced[i] :
    otps[k].identifier = i => ~Live(k)

\* A verification looks for a code when its generations are replaced, and has found
\* one that none of them replaced.
Newer(r) ==
  /\ At(r, "find") => request[r].before <= replaced[request[r].identifier]
  /\ pc[r] \in {"lock", "increment", "use", "verified"} =>
       copy[r].otp > request[r].before

ReplacedInv == OtpInv /\ ReplacedDead /\ \A r \in Requests : Newer(r)

LEMMA ReplacedGrows ==
  ASSUME OtpInv, Next, NEW i \in Identifiers
  PROVE  replaced[i] \in Nat /\ replaced'[i] \in Nat /\ replaced[i] <= replaced'[i]
  <1>1. replaced \in [Identifiers -> 0..MaxOtps]
    BY DEF OtpInv, TypeOK
  <1>2. ASSUME NEW r \in Requests, Answer(r), At(r, "sent"), Replace(r)
        PROVE  replaced'[i] \in Nat /\ replaced[i] <= replaced'[i]
    <2>1. request[r].before \in Nat
      BY <1>2, BeforeTyped DEF OtpInv, At
    <2>2. QED
      BY <1>1, <1>2, <2>1, OtpAssumptions DEF Replace
  <1>3. QED
    BY <1>1, <1>2, StepKeeps, OtpAssumptions

LEMMA ReplacedDeadStep ==
  ASSUME ReplacedInv, Next
  PROVE  ReplacedDead'
  <1> SUFFICES ASSUME NEW i \in Identifiers, NEW k \in 1..replaced'[i],
                      otps'[k].identifier = i
               PROVE  ~Live(k)'
    BY DEF ReplacedDead
  <1>1. OtpInv /\ TypeOK /\ Kept /\ replaced[i] \in Nat /\ replaced'[i] \in Nat
    BY StepKeeps, ReplacedGrows DEF ReplacedInv, OtpInv
  <1>2. CASE k <= replaced[i]
    <2>1. k \in 1..replaced[i] /\ k \in 1..Len(otps)
      BY <1>1, <1>2 DEF TypeOK, Kept
    <2>2. QED
      BY <1>1, <2>1 DEF ReplacedInv, ReplacedDead, Kept
  <1>3. CASE ~(k <= replaced[i])
    <2>1. PICK r \in Requests : Answer(r) /\ At(r, "sent") /\ Replace(r)
      BY <1>1, <1>3, StepKeeps
    <2>2. /\ i = request[r].identifier /\ k \in 1..request[r].before
          /\ UNCHANGED otps
      BY <1>1, <1>3, <2>1, BeforeTyped DEF Replace, TypeOK, At, Answer
    <2>3. QED
      BY <1>1, <2>1, <2>2 DEF OtpInv, Dead, At, Live
  <1>4. QED
    BY <1>2, <1>3

\* A request that does not go to the lookup or on from it.
LEMMA NewerStays ==
  ASSUME ReplacedInv, Next, NEW q \in Requests,
         \/ pc'[q] \in {"idle", "invalidate", "create", "sent"}
         \/ /\ request'[q] = request[q] /\ copy'[q] = copy[q]
            /\ \/ pc'[q] = pc[q]
               \/ /\ pc[q] \in {"increment", "use"}
                  /\ pc'[q] \in {"use", "verified"}
  PROVE  Newer(q)'
  <1>1. CASE pc'[q] \in {"idle", "invalidate", "create", "sent"}
    BY <1>1 DEF Newer, At
  <1>2. CASE /\ request'[q] = request[q] /\ copy'[q] = copy[q]
             /\ \/ pc'[q] = pc[q]
                \/ pc[q] \in {"increment", "use"} /\ pc'[q] \in {"use", "verified"}
    <2>1. CASE pc'[q] = "find"
      <3>1. /\ At(q, "find") /\ request[q].identifier \in Identifiers
            /\ request[q].before \in Nat
        BY <1>2, <2>1, BeforeTyped DEF At, ReplacedInv, OtpInv
      <3>2. QED
        BY <1>2, <2>1, <3>1, ReplacedGrows DEF Newer, ReplacedInv, At
    <2>2. CASE pc'[q] # "find"
      BY <1>2, <2>2 DEF Newer, ReplacedInv, At
    <2>3. QED
      BY <2>1, <2>2
  <1>3. QED
    BY <1>1, <1>2

LEMMA NewerStep ==
  ASSUME ReplacedInv, NEW r \in Requests, Handler(r), NEW q \in Requests
  PROVE  Newer(q)'
  <1>1. OtpInv /\ TypeOK /\ Next
    BY DEF ReplacedInv, OtpInv, Next
  <1>2. CASE \E i \in Identifiers : SendOtp(r, i) \/ \E code \in Codes : VerifyOtp(r, i, code)
    <2>1. PICK i \in Identifiers : SendOtp(r, i) \/ \E code \in Codes : VerifyOtp(r, i, code)
      BY <1>2
    <2>2. CASE q = r
      <3>1. CASE pc'[r] = "invalidate"
        BY <1>1, <2>2, <3>1, NewerStays
      <3>2. CASE /\ pc'[r] = "find" /\ request'[r].before = replaced[i]
                 /\ request'[r].identifier = i /\ UNCHANGED replaced
        <4>1. replaced[i] \in Int
          BY <1>1, OtpAssumptions DEF TypeOK
        <4>2. QED
          BY <2>2, <3>2, <4>1 DEF Newer, At
      <3>3. QED
        BY <1>1, <2>1, <3>1, <3>2, Arrives
    <2>3. CASE q # r
      BY <1>1, <2>1, <2>3, Arrives, NewerStays DEF OthersKept
    <2>4. QED
      BY <2>2, <2>3
  <1>3. CASE Invalidate(r) \/ \E code \in Codes : Create(r, code)
    <2>1. OthersKept(r) /\ pc'[r] \in {"create", "sent"}
      BY <1>1, <1>3, InvalidateInv, CreateInv DEF Invalidate, Create, Goto, TypeOK
    <2>2. QED
      BY <1>1, <2>1, NewerStays DEF OthersKept
  <1>4. CASE NotFound(r) \/ LockOtp(r) \/ Answer(r) \/ Fail(r)
    <2>1. OthersKept(r) /\ pc'[r] = "idle"
      BY <1>1, <1>4 DEF NotFound, LockOtp, Answer, Fail, Finish, OthersKept, TypeOK
    <2>2. QED
      BY <1>1, <2>1, NewerStays DEF OthersKept
  <1>5. CASE \E k \in 1..Len(otps) : FindOtp(r, k)
    <2>1. PICK k \in 1..Len(otps) : FindOtp(r, k)
      BY <1>5
    <2>2. /\ OthersKept(r)
          /\ \/ pc'[r] = "idle"
             \/ /\ ~otps[k].expired /\ copy'[r].otp = k /\ request' = request
                /\ pc'[r] \in {"increment", "lock"}
      BY <1>1, <2>1, AfterFind
    <2>3. CASE q = r /\ pc'[r] # "idle"
      <3>1. /\ At(r, "find") /\ Live(k) /\ otps[k].identifier = request[r].identifier
            /\ request[r].identifier \in Identifiers /\ request[r].before \in Nat
        BY <1>1, <2>1, <2>2, <2>3, BeforeTyped DEF FindOtp, Latest, Unused, Live, At
      <3>2. k \notin 1..replaced[request[r].identifier]
        BY <3>1 DEF ReplacedInv, ReplacedDead
      <3>3. /\ request[r].before <= replaced[request[r].identifier]
            /\ replaced[request[r].identifier] \in Nat
        BY <1>1, <3>1, ReplacedGrows DEF ReplacedInv, Newer
      <3>4. k > request[r].before
        BY <3>1, <3>2, <3>3
      <3>5. QED
        BY <2>2, <2>3, <3>4 DEF Newer, At
    <2>4. CASE q # r \/ pc'[r] = "idle"
      BY <1>1, <2>2, <2>4, NewerStays DEF OthersKept
    <2>5. QED
      BY <2>3, <2>4
  <1>6. CASE IncrementAttempts(r) \/ UseOtp(r)
    <2>1. /\ OthersKept(r) /\ pc[r] \in {"increment", "use"}
          /\ \/ pc'[r] = "idle"
             \/ /\ pc'[r] \in {"use", "verified"}
                /\ request' = request /\ copy' = copy
      BY <1>1, <1>6 DEF IncrementAttempts, UseOtp, At, Goto, Finish, OthersKept, TypeOK
    <2>2. QED
      BY <1>1, <2>1, NewerStays DEF OthersKept
  <1>7. QED
    BY <1>2, <1>3, <1>4, <1>5, <1>6 DEF Handler

LEMMA ReplacedInvAlways == Spec => []ReplacedInv
  <1>1. Init => ReplacedInv
    <2> SUFFICES ASSUME Init PROVE ReplacedInv
      OBVIOUS
    <2>1. ReplacedDead
      BY DEF Init, ReplacedDead
    <2>2. \A r \in Requests : Newer(r)
      BY DEF Init, Newer, At
    <2>3. QED
      BY <2>1, <2>2, OtpInvInit DEF ReplacedInv
  <1>2. ReplacedInv /\ [Next]_vars => ReplacedInv'
    <2> SUFFICES ASSUME ReplacedInv, [Next]_vars PROVE ReplacedInv'
      OBVIOUS
    <2>1. OtpInv'
      BY OtpInvStep DEF ReplacedInv
    <2>2. CASE Next
      <3>1. ASSUME NEW q \in Requests PROVE Newer(q)'
        <4>1. ASSUME NEW k \in 1..MaxOtps, Expire(k) PROVE Newer(q)'
          BY <2>2, <4>1, NewerStays DEF Expire
        <4>2. QED
          BY <2>2, <4>1, NewerStep DEF Next
      <3>2. QED
        BY <2>1, <2>2, <3>1, ReplacedDeadStep DEF ReplacedInv
    <2>3. CASE UNCHANGED vars
      BY <2>1, <2>3 DEF vars, ReplacedInv, ReplacedDead, Newer, Live, At
    <2>4. QED
      BY <2>2, <2>3
  <1>3. QED
    BY <1>1, <1>2, PTL DEF Spec

\* A verification that comes after a generation was answered is accepted with none
\* of the codes that existed when the generation was asked for, whatever other
\* requests overlap (otp.service.ts:55-64, 119-126, 156-168).
THEOREM ReplacedCodesAreRefused == Spec => []OldCodesAreRefused
  <1>1. ReplacedInv => OldCodesAreRefused
    BY DEF ReplacedInv, Newer, OldCodesAreRefused, At
  <1>2. QED
    BY <1>1, ReplacedInvAlways, PTL

-----------------------------------------------------------------------------
(* The refinement: every step ages what the abstract specification sees,   *)
(* but for those that issue a code, begin a verification or accept one.    *)

LEMMA LenBound ==
  ASSUME TypeOK
  PROVE  Len(otps) \in Nat /\ 1..Len(otps) \subseteq 1..MaxOtps
  <1>1. Len(otps) \in Nat /\ Len(otps) <= MaxOtps
    BY LenProperties DEF TypeOK
  <1>2. QED
    BY <1>1, OtpAssumptions

\* What a request is open to: codes there are, and none once it is decided.
OpenToCodes ==
  \A r \in Requests : OpenTo(r) \subseteq 1..MaxOtps /\ (~Undecided(r) => OpenTo(r) = {})

LEMMA OpenToTyped == TypeOK => OpenToCodes
  <1> SUFFICES ASSUME TypeOK, NEW r \in Requests
               PROVE  OpenTo(r) \subseteq 1..MaxOtps /\ (~Undecided(r) => OpenTo(r) = {})
    BY DEF OpenToCodes
  <1>1. pc[r] \in {"increment", "use"} => copy[r].otp \in 1..MaxOtps
    BY CopyRefers, LenBound
  <1>2. 1..Len(otps) \subseteq 1..MaxOtps
    BY LenBound
  <1>3. QED
    BY <1>1, <1>2 DEF OpenTo, Undecided, At

LEMMA OpenToTypedNext == TypeOK' => OpenToCodes'
  BY OpenToTyped, PTL

\* A slot that does not move is open to no more than it was.
LEMMA OpenToAges ==
  ASSUME TypeOK, Aged, NEW q \in Requests,
         pc'[q] = pc[q], request'[q] = request[q], copy'[q] = copy[q]
  PROVE  OpenTo(q)' \subseteq OpenTo(q) /\ (Undecided(q)' <=> Undecided(q))
  <1>1. Len(otps') = Len(otps) /\ \A k \in 1..Len(otps) :
          otps'[k].identifier = otps[k].identifier /\ (Live(k)' => Live(k))
    BY DEF Aged, Live
  <1>2. QED
    BY <1>1 DEF OpenTo, Undecided, At

LEMMA NarrowedTo ==
  ASSUME TypeOK', NEW undecided,
         \A q \in Requests : OpenTo(q)' \subseteq IF q \in undecided THEN OpenTo(q) ELSE {}
  PROVE  Abstract!Narrowed(undecided)
  <1>1. \A q \in Requests : OpenTo(q)' \in SUBSET (1..MaxOtps)
    BY OpenToTypedNext DEF OpenToCodes
  <1>2. QED
    BY <1>1 DEF Abstract!Narrowed

\* What a step of request r does to the abstract state, when it ages the records.
LEMMA AgedAbstract ==
  ASSUME TypeOK, Aged, NEW r \in Requests, OthersKept(r)
  PROVE  /\ (1..Len(otps))' = 1..Len(otps)
         /\ \A k \in 1..Len(otps) : Live(k)' => Live(k)
         /\ \A q \in Requests \ {r} :
              OpenTo(q)' \subseteq OpenTo(q) /\ (Undecided(q)' <=> Undecided(q))
  <1>1. \A q \in Requests \ {r} :
          OpenTo(q)' \subseteq OpenTo(q) /\ (Undecided(q)' <=> Undecided(q))
    BY OpenToAges DEF OthersKept
  <1>2. QED
    BY <1>1 DEF Aged, Live

\* The request stays decided or undecided: codes are retired, if anything.
LEMMA Retires ==
  ASSUME TypeOK, TypeOK', Aged, NEW r \in Requests, OthersKept(r),
         Undecided(r)' <=> Undecided(r), OpenTo(r)' \subseteq OpenTo(r)
  PROVE  Abstract!Next
  <1> DEFINE dead == {k \in 1..Len(otps) : Live(k) /\ ~Live(k)'}
             undecided == {q \in Requests : Undecided(q)}
  <1>1. /\ (1..Len(otps))' = 1..Len(otps)
        /\ \A k \in 1..Len(otps) : Live(k)' => Live(k)
        /\ \A q \in Requests : OpenTo(q)' \subseteq OpenTo(q) /\ (Undecided(q)' <=> Undecided(q))
    BY AgedAbstract
  <1>2. undecided' = undecided
    BY <1>1
  <1>3. {k \in 1..Len(otps) : Live(k)}' = {k \in 1..Len(otps) : Live(k)} \ dead
    BY <1>1
  <1>4. Abstract!Narrowed(undecided)
    <2>1. \A q \in Requests : OpenTo(q)' \subseteq IF q \in undecided THEN OpenTo(q) ELSE {}
      BY <1>1, OpenToTyped DEF OpenToCodes
    <2>2. QED
      BY <2>1, NarrowedTo
  <1>5. dead \in SUBSET (1..MaxOtps)
    BY LenBound
  <1>6. Abstract!Retire(dead)
    BY <1>1, <1>2, <1>3, <1>4 DEF Abstract!Retire
  <1>7. QED
    BY <1>5, <1>6 DEF Abstract!Next

\* The request is decided, and no code dies: it is refused.
LEMMA Refuses ==
  ASSUME TypeOK, TypeOK', Aged, NEW r \in Requests, OthersKept(r),
         Undecided(r), ~Undecided(r)', \A k \in 1..Len(otps) : Live(k) => Live(k)'
  PROVE  Abstract!Next
  <1> DEFINE undecided == {q \in Requests : Undecided(q)}
  <1>1. /\ (1..Len(otps))' = 1..Len(otps)
        /\ \A k \in 1..Len(otps) : Live(k)' => Live(k)
        /\ \A q \in Requests \ {r} :
             OpenTo(q)' \subseteq OpenTo(q) /\ (Undecided(q)' <=> Undecided(q))
    BY AgedAbstract
  <1>2. undecided' = undecided \ {r} /\ r \in undecided
    BY <1>1
  <1>3. {k \in 1..Len(otps) : Live(k)}' = {k \in 1..Len(otps) : Live(k)}
    BY <1>1
  <1>4. Abstract!Narrowed(undecided')
    <2>1. \A q \in Requests : OpenTo(q)' \subseteq IF q \in undecided' THEN OpenTo(q) ELSE {}
      <3>1. \A q \in Requests : ~Undecided(q)' => OpenTo(q)' = {}
        BY OpenToTypedNext DEF OpenToCodes
      <3>2. QED
        BY <1>1, <3>1
    <2>2. QED
      BY <2>1, NarrowedTo
  <1>5. Abstract!Refuse(r)
    BY <1>1, <1>2, <1>3, <1>4 DEF Abstract!Refuse
  <1>6. QED
    BY <1>5 DEF Abstract!Next

LEMMA ArriveMaps ==
  ASSUME OtpInv, NEW r \in Requests, NEW i \in Identifiers,
         SendOtp(r, i) \/ \E code \in Codes : VerifyOtp(r, i, code)
  PROVE  Abstract!Next \/ UNCHANGED Abstract!codeVars
  <1> DEFINE undecided == {q \in Requests : Undecided(q)}
             live == {k \in 1..Len(otps) : Live(k)}
  <1>1. /\ pc[r] = "idle" /\ UNCHANGED otps /\ TypeOK' /\ TypeOK
        /\ OthersKept(r) /\ copy' = copy
        /\ \/ SendOtp(r, i) /\ pc'[r] = "invalidate"
           \/ pc'[r] = "find" /\ \E code \in Codes : VerifyOtp(r, i, code)
    BY Arrives DEF OtpInv, SendOtp, VerifyOtp, Arrive, At
  <1>2. live' = live /\ (1..Len(otps))' = 1..Len(otps)
    BY <1>1 DEF Live
  <1>3. \A q \in Requests \ {r} : OpenTo(q)' = OpenTo(q) /\ (Undecided(q)' <=> Undecided(q))
    BY <1>1 DEF OthersKept, OpenTo, Undecided, At, Live
  <1>4. ~Undecided(r) /\ OpenTo(r) = {}
    BY <1>1 DEF Undecided, OpenTo, At
  <1>5. CASE pc'[r] = "invalidate"
    <2>1. ~Undecided(r)' /\ OpenTo(r)' = {}
      BY <1>5 DEF Undecided, OpenTo, At
    <2>2. undecided' = undecided
      BY <1>3, <1>4, <2>1
    <2>3. [q \in Requests |-> OpenTo(q)]' = [q \in Requests |-> OpenTo(q)]
      BY <1>3, <1>4, <2>1
    <2>4. QED
      BY <1>2, <2>2, <2>3 DEF Abstract!codeVars
  <1>6. CASE pc'[r] = "find"
    <2>1. Undecided(r)' /\ OpenTo(r)' \subseteq live'
      BY <1>6 DEF Undecided, OpenTo, At
    <2>2. undecided' = undecided \cup {r} /\ r \notin undecided
      BY <1>3, <1>4, <2>1
    <2>3. [q \in Requests |-> OpenTo(q)]' =
            [[q \in Requests |-> OpenTo(q)] EXCEPT ![r] = OpenTo(r)']
      BY <1>3
    <2>4. Abstract!Begin(r)
      BY <1>2, <2>1, <2>2, <2>3 DEF Abstract!Begin
    <2>5. QED
      BY <2>4 DEF Abstract!Next
  <1>7. QED
    BY <1>1, <1>5, <1>6

LEMMA CreateMaps ==
  ASSUME OtpInv, NEW r \in Requests, NEW code \in Codes, Create(r, code)
  PROVE  Abstract!Next
  <1> DEFINE undecided == {q \in Requests : Undecided(q)}
  <1> PICK n : n = Len(otps) + 1
    OBVIOUS
  <1>1. /\ pc[r] = "create" /\ Goto(r, "sent") /\ TypeOK /\ Len(otps) < MaxOtps
        /\ otps' = Append(otps, NewOtp(request[r].identifier, code))
        /\ OthersKept(r) /\ TypeOK'
    BY CreateInv DEF Create, At, OtpInv
  <1>2. request[r].identifier \in Identifiers /\ Len(otps) \in Nat
    BY <1>1, BeforeTyped, LenBound
  <1>3. /\ Len(otps') = n /\ otps'[n] = NewOtp(request[r].identifier, code)
        /\ \A k \in 1..Len(otps) : otps'[k] = otps[k]
    BY <1>1, <1>2, Created
  <1>4. (1..Len(otps))' = (1..Len(otps)) \cup {n} /\ n \in 1..MaxOtps /\ n \notin 1..Len(otps)
    BY <1>1, <1>2, <1>3, OtpAssumptions
  <1>5. Live(n)' /\ \A k \in 1..Len(otps) : Live(k)' <=> Live(k)
    BY <1>3 DEF Live, NewOtp
  <1>6. {k \in 1..Len(otps) : Live(k)}' = {k \in 1..Len(otps) : Live(k)} \cup {n}
    BY <1>4, <1>5
  <1>7. pc'[r] = "sent"
    BY <1>1 DEF Goto, TypeOK
  <1>8. ~Undecided(r) /\ ~Undecided(r)' /\ OpenTo(r)' = {}
    BY <1>1, <1>7 DEF Undecided, OpenTo, At
  <1>9. \A q \in Requests \ {r} :
          OpenTo(q)' \subseteq OpenTo(q) \cup {n} /\ (Undecided(q)' <=> Undecided(q))
    BY <1>1, <1>3, <1>4, <1>5 DEF OthersKept, OpenTo, Undecided, At
  <1>10. undecided' = undecided
    BY <1>8, <1>9
  <1>11. OpenToCodes' /\ OpenToCodes
    BY <1>1, OpenToTyped, OpenToTypedNext
  <1>12. /\ [q \in Requests |-> OpenTo(q)]' \in [Requests -> SUBSET (1..MaxOtps)]
         /\ \A q \in Requests :
              OpenTo(q)' \subseteq IF q \in undecided THEN OpenTo(q) \cup {n} ELSE {}
    BY <1>8, <1>9, <1>11 DEF OpenToCodes
  <1>13. Abstract!Issue(n)
    BY <1>4, <1>6, <1>10, <1>12 DEF Abstract!Issue
  <1>14. QED
    BY <1>4, <1>13 DEF Abstract!Next

LEMMA UseMaps ==
  ASSUME OtpInv, NEW r \in Requests, UseOtp(r)
  PROVE  Abstract!Next
  <1> DEFINE undecided == {q \in Requests : Undecided(q)}
             k == copy[r].otp
  <1>1. /\ pc[r] = "use" /\ pc'[r] = "verified" /\ TypeOK /\ TypeOK' /\ Aged /\ OthersKept(r)
        /\ \A j \in 1..Len(otps) : Live(j)' <=> Live(j) /\ j # k
    BY UseInv DEF OtpInv, UseOtp, At
  <1>2. /\ (1..Len(otps))' = 1..Len(otps)
        /\ \A q \in Requests \ {r} :
             OpenTo(q)' \subseteq OpenTo(q) /\ (Undecided(q)' <=> Undecided(q))
    BY <1>1, AgedAbstract
  <1>3. Undecided(r) /\ OpenTo(r) = {k} /\ ~Undecided(r)' /\ k \in 1..MaxOtps
    BY <1>1, CopyRefers, LenBound DEF Undecided, OpenTo, At
  <1>4. undecided' = undecided \ {r} /\ r \in undecided
    BY <1>2, <1>3
  <1>5. {j \in 1..Len(otps) : Live(j)}' = {j \in 1..Len(otps) : Live(j)} \ {k}
    BY <1>1, <1>2
  <1>6. Abstract!Narrowed(undecided')
    <2>1. \A q \in Requests : ~Undecided(q)' => OpenTo(q)' = {}
      BY <1>1, OpenToTypedNext DEF OpenToCodes
    <2>2. \A q \in Requests : OpenTo(q)' \subseteq IF q \in undecided' THEN OpenTo(q) ELSE {}
      BY <1>2, <1>3, <2>1
    <2>3. QED
      BY <1>1, <2>2, NarrowedTo
  <1>7. Abstract!Accept(r, k)
    BY <1>2, <1>3, <1>4, <1>5, <1>6 DEF Abstract!Accept
  <1>8. QED
    BY <1>3, <1>7 DEF Abstract!Next

LEMMA FindMaps ==
  ASSUME OtpInv, NEW r \in Requests,
         NotFound(r) \/ \E k \in 1..Len(otps) : FindOtp(r, k)
  PROVE  Abstract!Next
  <1>1. /\ TypeOK /\ pc[r] = "find" /\ Undecided(r) /\ UNCHANGED otps
        /\ OpenTo(r) = {k \in 1..Len(otps) :
                         otps[k].identifier = request[r].identifier /\ Live(k)}
    BY DEF OtpInv, NotFound, FindOtp, Undecided, OpenTo, At
  <1>2. Aged /\ \A k \in 1..Len(otps) : Live(k) => Live(k)'
    BY <1>1, AgedUnchanged DEF Live
  <1>3. CASE NotFound(r)
    <2>1. TypeOK' /\ OthersKept(r) /\ pc'[r] = "idle"
      BY <1>1, <1>2, <1>3, AfterFinish, AgedIsKept, ReplacedStays DEF NotFound
    <2>2. ~Undecided(r)'
      BY <2>1 DEF Undecided
    <2>3. QED
      BY <1>1, <1>2, <2>1, <2>2, Refuses
  <1>4. ASSUME NEW k \in 1..Len(otps), FindOtp(r, k) PROVE Abstract!Next
    <2>1. /\ TypeOK' /\ OthersKept(r)
          /\ \/ otps[k].expired /\ pc'[r] = "idle"
             \/ /\ ~otps[k].expired /\ copy'[r].otp = k
                /\ pc'[r] \in {"increment", "lock"}
      BY <1>1, <1>4, AfterFind
    <2>2. CASE pc'[r] = "increment"
      <3>1. k \in OpenTo(r)
        BY <1>1, <1>4, <2>1, <2>2 DEF FindOtp, Latest, Unused, Live
      <3>2. Undecided(r)' /\ OpenTo(r)' \subseteq OpenTo(r)
        BY <2>1, <2>2, <3>1 DEF Undecided, OpenTo, At
      <3>3. QED
        BY <1>1, <1>2, <2>1, <3>2, Retires
    <2>3. CASE pc'[r] \in {"idle", "lock"}
      <3>1. ~Undecided(r)'
        BY <2>3 DEF Undecided
      <3>2. QED
        BY <1>1, <1>2, <2>1, <3>1, Refuses
    <2>4. QED
      BY <2>1, <2>2, <2>3
  <1>5. QED
    BY <1>3, <1>4

LEMMA IncrementMaps ==
  ASSUME OtpInv, NEW r \in Requests, IncrementAttempts(r)
  PROVE  Abstract!Next
  <1>1. /\ TypeOK /\ TypeOK' /\ Aged /\ OthersKept(r) /\ pc[r] = "increment"
        /\ \A k \in 1..Len(otps) : Live(k) => Live(k)'
        /\ pc'[r] = "idle" \/ (pc'[r] = "use" /\ copy' = copy)
    BY IncrementInv DEF OtpInv, IncrementAttempts, At
  <1>2. Undecided(r) /\ OpenTo(r) = {copy[r].otp}
    BY <1>1 DEF Undecided, OpenTo, At
  <1>3. CASE pc'[r] = "idle"
    <2>1. ~Undecided(r)'
      BY <1>3 DEF Undecided
    <2>2. QED
      BY <1>1, <1>2, <2>1, Refuses
  <1>4. CASE pc'[r] = "use" /\ copy' = copy
    <2>1. Undecided(r)' /\ OpenTo(r)' \subseteq OpenTo(r)
      BY <1>2, <1>4 DEF Undecided, OpenTo, At
    <2>2. QED
      BY <1>1, <1>2, <2>1, Retires
  <1>5. QED
    BY <1>1, <1>3, <1>4

\* A request that ends without having been accepted, or that was not a verification.
LEMMA EndMaps ==
  ASSUME OtpInv, NEW r \in Requests, Answer(r) \/ Fail(r)
  PROVE  Abstract!Next
  <1>1. TypeOK /\ TypeOK' /\ Aged /\ OthersKept(r) /\ pc'[r] = "idle" /\ UNCHANGED otps
    BY EndInv DEF OtpInv, Answer, Fail
  <1>2. ~Undecided(r)' /\ OpenTo(r)' = {}
    BY <1>1 DEF Undecided, OpenTo, At
  <1>3. \A k \in 1..Len(otps) : Live(k) => Live(k)'
    BY <1>1 DEF Live
  <1>4. CASE Undecided(r)
    BY <1>1, <1>2, <1>3, <1>4, Refuses
  <1>5. CASE ~Undecided(r)
    BY <1>1, <1>2, <1>5, Retires
  <1>6. QED
    BY <1>4, <1>5

\* Steps of a generation, and of a lock, retire codes.
LEMMA AgingMaps ==
  ASSUME OtpInv, NEW r \in Requests, Invalidate(r) \/ LockOtp(r)
  PROVE  Abstract!Next
  <1>1. TypeOK /\ TypeOK' /\ OthersKept(r) /\ pc[r] \in {"invalidate", "lock"}
        /\ pc'[r] \in {"create", "idle"}
    <2>1. CASE Invalidate(r)
      BY <2>1, InvalidateInv DEF OtpInv, Invalidate, Goto, At, TypeOK
    <2>2. CASE LockOtp(r)
      BY <2>2, LockInv DEF OtpInv, LockOtp, At
    <2>3. QED
      BY <2>1, <2>2
  <1>2. Aged
    <2>1. CASE Invalidate(r)
      <3>1. request[r].identifier \in Identifiers
        BY <2>1, BeforeTyped DEF OtpInv, Invalidate, At
      <3>2. QED
        BY <2>1, <3>1, AgedInvalidated DEF OtpInv, Invalidate
    <2>2. QED
      BY <2>1, LockInv
  <1>3. ~Undecided(r) /\ ~Undecided(r)' /\ OpenTo(r)' = {}
    BY <1>1 DEF Undecided, OpenTo, At
  <1>4. QED
    BY <1>1, <1>2, <1>3, Retires

LEMMA ExpireMaps ==
  ASSUME OtpInv, NEW k \in 1..MaxOtps, Expire(k)
  PROVE  Abstract!Next
  <1> DEFINE undecided == {q \in Requests : Undecided(q)}
  <1>1. /\ TypeOK /\ TypeOK' /\ Aged /\ UNCHANGED <<pc, request, copy>>
        /\ \A j \in 1..Len(otps) : Live(j)' <=> Live(j) /\ j # k
    BY ExpireInv DEF OtpInv
  <1>2. \A q \in Requests : OpenTo(q)' \subseteq OpenTo(q) /\ (Undecided(q)' <=> Undecided(q))
    BY <1>1, OpenToAges
  <1>3. undecided' = undecided /\ (1..Len(otps))' = 1..Len(otps)
    BY <1>1, <1>2 DEF Aged
  <1>4. {j \in 1..Len(otps) : Live(j)}' = {j \in 1..Len(otps) : Live(j)} \ {k}
    BY <1>1, <1>3
  <1>5. \A q \in Requests : OpenTo(q)' \subseteq IF q \in undecided THEN OpenTo(q) ELSE {}
    BY <1>1, <1>2, OpenToTyped DEF OpenToCodes
  <1>6. Abstract!Narrowed(undecided)
    BY <1>1, <1>5, NarrowedTo
  <1>7. Abstract!Retire({k})
    BY <1>3, <1>4, <1>6 DEF Abstract!Retire
  <1>8. {k} \in SUBSET (1..MaxOtps)
    OBVIOUS
  <1>9. QED
    BY <1>7, <1>8 DEF Abstract!Next

LEMMA InitMaps == Init => Abstract!Init
  <1> SUFFICES ASSUME Init PROVE Abstract!Init
    OBVIOUS
  <1>1. 1..Len(otps) = {}
    BY EmptySeq DEF Init
  <1>2. \A r \in Requests : ~Undecided(r) /\ OpenTo(r) = {}
    BY DEF Init, Undecided, OpenTo, At
  <1>3. QED
    BY <1>1, <1>2 DEF Abstract!Init

LEMMA StepMaps == OtpInv /\ [Next]_vars => [Abstract!Next]_Abstract!codeVars
  <1> SUFFICES ASSUME OtpInv, [Next]_vars
               PROVE  Abstract!Next \/ UNCHANGED Abstract!codeVars
    OBVIOUS
  <1>1. ASSUME NEW r \in Requests, Handler(r)
        PROVE  Abstract!Next \/ UNCHANGED Abstract!codeVars
    BY <1>1, ArriveMaps, AgingMaps, CreateMaps, FindMaps, IncrementMaps, UseMaps, EndMaps
       DEF Handler
  <1>2. ASSUME NEW k \in 1..MaxOtps, Expire(k) PROVE Abstract!Next
    BY <1>2, ExpireMaps
  <1>3. CASE UNCHANGED vars
    BY <1>3 DEF Abstract!codeVars, vars, Undecided, OpenTo, At, Live
  <1>4. QED
    BY <1>1, <1>2, <1>3 DEF Next

\* The service implements OneTimeCodes: a code is accepted only by a request during
\* which it was live, and once it is used, replaced, locked or expired by no other.
THEOREM Implements == Spec => ImplementsOneTimeCodes
  <1>1. Spec => Abstract!Spec
    BY InitMaps, StepMaps, OtpInvAlways, PTL DEF Spec, Abstract!Spec
  <1>2. QED
    BY <1>1 DEF ImplementsOneTimeCodes
-----------------------------------------------------------------------------
(* How guesses end.  GuessesEnd is a liveness property and stays with TLC; *)
(* what it rests on is proved here for every instance.                     *)

\* The verifications about to count a guess at k with a copy of less than n attempts.
Below(k, n) == {r \in Requests : /\ At(r, "increment")
                                 /\ copy[r].otp = k /\ copy[r].attempts < n}

\* Nothing but a guess writes the counter of a code.
LEMMA OnlyGuessesCount ==
  ASSUME TypeOK, Next, NEW k \in 1..Len(otps)
  PROVE  \/ otps'[k].attempts = otps[k].attempts
         \/ \E r \in Requests : IncrementAttempts(r) /\ copy[r].otp = k
  <1>1. /\ Len(otps) \in Nat /\ DOMAIN otps = 1..Len(otps)
        /\ \A j \in 1..Len(otps) : otps[j] \in OtpVerification
    BY LenProperties, ElementOfSeq DEF TypeOK
  <1>2. ASSUME NEW r \in Requests, Invalidate(r)
        PROVE  otps'[k].attempts = otps[k].attempts
    BY <1>1, <1>2 DEF Invalidate, OtpVerification
  <1>3. ASSUME NEW r \in Requests, NEW code \in Codes, Create(r, code)
        PROVE  otps'[k].attempts = otps[k].attempts
    <2>1. otps \in Seq(OtpVerification) /\ request[r].identifier \in Identifiers
      BY <1>3, BeforeTyped DEF Create, At, TypeOK
    <2>2. otps'[k] = otps[k]
      BY <1>3, <2>1, Created DEF Create
    <2>3. QED
      BY <2>2
  <1>4. ASSUME NEW r \in Requests, LockOtp(r) \/ UseOtp(r)
        PROVE  otps'[k].attempts = otps[k].attempts
    BY <1>1, <1>4 DEF LockOtp, UseOtp, OtpVerification
  <1>5. ASSUME NEW r \in Requests, IncrementAttempts(r), copy[r].otp # k
        PROVE  otps'[k].attempts = otps[k].attempts
    BY <1>1, <1>5 DEF IncrementAttempts
  <1>6. ASSUME NEW j \in 1..MaxOtps, Expire(j)
        PROVE  otps'[k].attempts = otps[k].attempts
    BY <1>1, <1>6 DEF Expire, OtpVerification
  <1>7. ASSUME NEW r \in Requests,
               \/ \E i \in Identifiers : \/ SendOtp(r, i)
                                         \/ \E code \in Codes : VerifyOtp(r, i, code)
               \/ NotFound(r) \/ \E j \in 1..Len(otps) : FindOtp(r, j)
               \/ Answer(r) \/ Fail(r)
        PROVE  otps' = otps
    BY <1>7 DEF SendOtp, VerifyOtp, Arrive, NotFound, FindOtp, Answer, Fail
  <1>8. QED
    BY <1>2, <1>3, <1>4, <1>5, <1>6, <1>7 DEF Next, Handler

\* Who is about to count a guess was so before, or has just read the counter.
LEMMA CopiesAreFresh ==
  ASSUME TypeOK, Next, NEW q \in Requests, At(q, "increment")'
  PROVE  \/ At(q, "increment") /\ copy'[q] = copy[q] /\ ~IncrementAttempts(q)
         \/ copy'[q].attempts = otps[copy'[q].otp].attempts
  <1>1. /\ pc \in [Requests -> Steps] /\ copy \in [Requests -> Copy]
    BY DEF TypeOK
  <1>2. ASSUME NEW r \in Requests, Handler(r), \A k \in 1..Len(otps) : ~FindOtp(r, k)
        PROVE  r # q /\ At(q, "increment") /\ copy'[q] = copy[q]
    <2>1. /\ pc' = [pc EXCEPT ![r] = pc'[r]] /\ pc'[r] # "increment"
          /\ copy' = copy \/ copy' = [copy EXCEPT ![r] = NoCopy]
      BY <1>1, <1>2 DEF Handler, SendOtp, VerifyOtp, Arrive, Invalidate, Create, NotFound,
         LockOtp, IncrementAttempts, UseOtp, Answer, Fail, Goto, Finish
    <2>2. QED
      BY <1>1, <2>1 DEF At
  <1>3. ASSUME NEW r \in Requests, NEW k \in 1..Len(otps), FindOtp(r, k)
        PROVE  \/ r # q /\ At(q, "increment") /\ copy'[q] = copy[q]
               \/ copy'[q].attempts = otps[copy'[q].otp].attempts
    <2>1. CASE otps[k].expired
      BY <1>1, <1>3, <2>1 DEF FindOtp, Finish, At
    <2>2. CASE ~otps[k].expired
      BY <1>1, <1>3, <2>2 DEF FindOtp, At
    <2>3. QED
      BY <2>1, <2>2
  <1>4. ASSUME NEW k \in 1..MaxOtps, Expire(k)
        PROVE  At(q, "increment") /\ copy'[q] = copy[q]
    BY <1>4 DEF Expire, At
  <1>5. IncrementAttempts(q) => pc'[q] # "increment"
    BY <1>1 DEF IncrementAttempts, Goto, Finish
  <1>6. QED
    BY <1>2, <1>3, <1>4, <1>5 DEF Next, At

\* Overlapping guesses set the counter of a code back, but each time that uses up a
\* verification which had read the counter when it was lower; and while the counter
\* stands at n, no verification gets hold of less than n.
GuessesRunOut ==
  [][\A k \in 1..Len(otps), n \in 1..MaxAttempts :
       otps[k].attempts >= n =>
         /\ Below(k, n)' \subseteq Below(k, n)
         /\ otps'[k].attempts < n => Below(k, n - 1)' # Below(k, n - 1)]_vars

THEOREM GuessesAreUsedUp == Spec => GuessesRunOut
  <1>1. ASSUME OtpInv, [Next]_vars
        PROVE  [\A k \in 1..Len(otps), n \in 1..MaxAttempts :
                  otps[k].attempts >= n =>
                    /\ Below(k, n)' \subseteq Below(k, n)
                    /\ otps'[k].attempts < n => Below(k, n - 1)' # Below(k, n - 1)]_vars
    <2> SUFFICES ASSUME Next, NEW k \in 1..Len(otps), NEW n \in 1..MaxAttempts,
                        otps[k].attempts >= n
                 PROVE  /\ Below(k, n)' \subseteq Below(k, n)
                        /\ otps'[k].attempts < n => Below(k, n - 1)' # Below(k, n - 1)
      BY <1>1
    <2>1. TypeOK /\ otps[k].attempts \in Nat /\ n \in Nat
      <3>1. TypeOK
        BY <1>1 DEF OtpInv
      <3>2. otps[k] \in OtpVerification
        BY <3>1, ElementOfSeq DEF TypeOK
      <3>3. QED
        BY <3>1, <3>2, OtpAssumptions DEF OtpVerification
    <2>2. Below(k, n)' \subseteq Below(k, n)
      BY <2>1, CopiesAreFresh DEF Below
    <2>3. ASSUME otps'[k].attempts < n PROVE Below(k, n - 1)' # Below(k, n - 1)
      <3>1. PICK r \in Requests : IncrementAttempts(r) /\ copy[r].otp = k
        BY <2>1, <2>3, OnlyGuessesCount
      <3>2. copy[r].attempts \in Nat
        BY <2>1, OtpAssumptions DEF TypeOK, Copy
      <3>3. otps'[k].attempts = copy[r].attempts + 1
        <4>1. /\ DOMAIN otps = 1..Len(otps) /\ otps[k] \in OtpVerification
          BY <2>1, LenProperties, ElementOfSeq DEF TypeOK
        <4>2. QED
          BY <3>1, <4>1 DEF IncrementAttempts, Attempted, OtpVerification
      <3>4. r \in Below(k, n - 1)
        BY <2>1, <2>3, <3>1, <3>2, <3>3 DEF Below, IncrementAttempts
      <3>5. r \notin Below(k, n - 1)'
        BY <2>1, <3>1 DEF Below, IncrementAttempts, Goto, Finish, At, TypeOK
      <3>6. QED
        BY <3>4, <3>5
    <2>4. QED
      BY <2>2, <2>3
  <1>2. QED
    BY <1>1, OtpInvAlways, PTL DEF Spec, GuessesRunOut
=============================================================================
