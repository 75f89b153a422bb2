-------------------------------- MODULE Otp ---------------------------------
(***************************************************************************)
(* OtpService: one-time passwords for an e-mail address or telephone.      *)
(*                                                                         *)
(* The collection is a sequence in the order of createdAt.  Each database  *)
(* call is a step; a record is copied by the lookup and everything after   *)
(* decides on the copy.  A record that the TTL index deletes has expired   *)
(* long before, and is refused either way, so expired records are kept.    *)
(* cleanExpiredOtps has no caller.                                         *)
(***************************************************************************)
EXTENDS Naturals, Sequences, FiniteSets

CONSTANTS
  Identifiers,  \* pairs of an address or number and its type
  Codes,        \* what generateOtpCode may return
  Requests,     \* requests served at the same time
  MaxAttempts,  \* maxAttempts
  MaxOtps,      \* bound on the records created
  NoCode,       \* the request carries no code
  NoRequest     \* the slot is free

OtpVerification ==
  [identifier : Identifiers, otp : Codes, isUsed : BOOLEAN, attempts : 0..MaxAttempts,
   expired : BOOLEAN]

\* before is a history: how many records there were when a generation was asked
\* for; for a verification, how many were replaced when it was.
Request == [op : {"send", "verify"}, identifier : Identifiers, otp : Codes \cup {NoCode},
            before : 0..MaxOtps]

\* The copy of a record: its number, and the attempts it had when it was read.
Copy == [otp : 0..MaxOtps, attempts : 0..MaxAttempts]
NoCopy == [otp |-> 0, attempts |-> 0]

ASSUME OtpAssumptions ==
  /\ MaxAttempts \in Nat \ {0}
  /\ MaxOtps \in Nat
  /\ NoCode \notin Codes
  /\ NoRequest \notin Request

VARIABLES
  otps,     \* the collection
  pc,       \* [Requests -> the step the request is at]
  request,  \* [Requests -> Request or NoRequest]
  copy,     \* [Requests -> Copy]: otpRecord
  replaced  \* history: [Identifiers -> how many records there were when the
            \* latest of the generations answered so far was asked for]

vars == <<otps, pc, request, copy, replaced>>

Steps == {"idle", "invalidate", "create", "sent", "find", "lock", "increment", "use",
          "verified"}

TypeOK ==
  /\ otps \in Seq(OtpVerification)
  /\ Len(otps) <= MaxOtps
  /\ pc \in [Requests -> Steps]
  /\ request \in [Requests -> Request \cup {NoRequest}]
  /\ \A r \in Requests : request[r] = NoRequest <=> pc[r] = "idle"
  /\ copy \in [Requests -> Copy]
  /\ \A r \in Requests :
       /\ copy[r].otp <= Len(otps)
       /\ pc[r] \in {"lock", "increment", "use", "verified"} => copy[r].otp > 0
       /\ pc[r] = "increment" => copy[r].attempts < MaxAttempts
  /\ replaced \in [Identifiers -> 0..MaxOtps]
  /\ \A i \in Identifiers : replaced[i] <= Len(otps)

Init ==
  /\ otps = <<>>
  /\ pc = [r \in Requests |-> "idle"]
  /\ request = [r \in Requests |-> NoRequest]
  /\ copy = [r \in Requests |-> NoCopy]
  /\ replaced = [i \in Identifiers |-> 0]

-----------------------------------------------------------------------------
At(r, step) == pc[r] = step
Goto(r, step) == pc' = [pc EXCEPT ![r] = step] /\ UNCHANGED <<request, copy>>

Finish(r) ==
  /\ pc' = [pc EXCEPT ![r] = "idle"]
  /\ request' = [request EXCEPT ![r] = NoRequest]
  /\ copy' = [copy EXCEPT ![r] = NoCopy]

Arrive(r, step, new) ==
  /\ At(r, "idle")
  /\ pc' = [pc EXCEPT ![r] = step]
  /\ request' = [request EXCEPT ![r] = new]
  /\ UNCHANGED <<otps, copy, replaced>>

SendOtp(r, i) ==
  Arrive(r, "invalidate",
         [op |-> "send", identifier |-> i, otp |-> NoCode, before |-> Len(otps)])

VerifyOtp(r, i, code) ==
  Arrive(r, "find",
         [op |-> "verify", identifier |-> i, otp |-> code, before |-> replaced[i]])

Unused(k, i) == otps[k].identifier = i /\ ~otps[k].isUsed
Live(k) == ~otps[k].isUsed /\ ~otps[k].expired

-----------------------------------------------------------------------------
(* generateOtp.                                                            *)

\* Mutant of Invalidated: only what has expired, as a clean-up would do.
InvalidatedExpired(k, i) == Unused(k, i) /\ otps[k].expired

Invalidated(k, i) == Unused(k, i)

Invalidate(r) ==
  /\ At(r, "invalidate")
  /\ otps' = [k \in DOMAIN otps |->
       IF Invalidated(k, request[r].identifier) THEN [otps[k] EXCEPT !.isUsed = TRUE]
       ELSE otps[k]]
  /\ Goto(r, "create")
  /\ UNCHANGED replaced

\* Mutant of NewOtp: the defaults of isUsed and attempts are left out.
BareOtp(i, code) == [identifier |-> i, otp |-> code, expired |-> FALSE]

NewOtp(i, code) ==
  [identifier |-> i, otp |-> code, isUsed |-> FALSE, attempts |-> 0, expired |-> FALSE]

Create(r, code) ==
  /\ At(r, "create")
  /\ Len(otps) < MaxOtps
  /\ otps' = Append(otps, NewOtp(request[r].identifier, code))
  /\ Goto(r, "sent")
  /\ UNCHANGED replaced

-----------------------------------------------------------------------------
(* verifyOtp.                                                              *)

\* Mutant of Latest: the filter on isUsed is left out.
LatestOfAll(k, i) ==
  /\ otps[k].identifier = i
  /\ \A j \in (k + 1)..Len(otps) : otps[j].identifier # i

Latest(k, i) == Unused(k, i) /\ \A j \in (k + 1)..Len(otps) : ~Unused(j, i)

MayGuess(attempts) == attempts < MaxAttempts

NotFound(r) ==
  /\ At(r, "find")
  /\ \A k \in 1..Len(otps) : ~Latest(k, request[r].identifier)
  /\ Finish(r)
  /\ UNCHANGED <<otps, replaced>>

\* The lookup, and the two checks of the copy that follow it.
FindOtp(r, k) ==
  /\ At(r, "find")
  /\ Latest(k, request[r].identifier)
  /\ IF otps[k].expired
       THEN Finish(r)
       ELSE /\ copy' = [copy EXCEPT ![r] = [otp |-> k, attempts |-> otps[k].attempts]]
            /\ pc' = [pc EXCEPT ![r] =
                 IF MayGuess(otps[k].attempts) THEN "increment" ELSE "lock"]
            /\ UNCHANGED request
  /\ UNCHANGED <<otps, replaced>>

LockOtp(r) ==
  /\ At(r, "lock")
  /\ otps' = [otps EXCEPT ![copy[r].otp].isUsed = TRUE]
  /\ Finish(r)
  /\ UNCHANGED replaced

\* Mutant of Attempted: the copy's counter is written back as it is.
NotCounted(attempts) == attempts

\* One more than the copy has, whatever the record has by now.
Attempted(attempts) == attempts + 1

\* The codes are compared once the counter is written.
IncrementAttempts(r) ==
  LET k == copy[r].otp IN
  /\ At(r, "increment")
  /\ otps' = [otps EXCEPT ![k].attempts = Attempted(copy[r].attempts)]
  /\ IF otps[k].otp = request[r].otp THEN Goto(r, "use") ELSE Finish(r)
  /\ UNCHANGED replaced

UseOtp(r) ==
  /\ At(r, "use")
  /\ otps' = [otps EXCEPT ![copy[r].otp].isUsed = TRUE]
  /\ Goto(r, "verified")
  /\ UNCHANGED replaced

-----------------------------------------------------------------------------
\* What an answered generation replaces, if no later one has been answered.
Replace(r) ==
  LET i == request[r].identifier IN
  replaced' = [replaced EXCEPT ![i] =
                 IF @ < request[r].before THEN request[r].before ELSE @]

Answer(r) ==
  /\ \/ At(r, "sent") /\ Replace(r)
     \/ At(r, "verified") /\ UNCHANGED replaced
  /\ Finish(r)
  /\ UNCHANGED otps

\* A database call throws or the process stops: what was written stays.
Fail(r) ==
  /\ ~At(r, "idle") /\ ~At(r, "sent") /\ ~At(r, "verified")
  /\ Finish(r)
  /\ UNCHANGED <<otps, replaced>>

\* expiresAt passes.
Expire(k) ==
  /\ k \in DOMAIN otps /\ ~otps[k].expired
  /\ otps' = [otps EXCEPT ![k].expired = TRUE]
  /\ UNCHANGED <<pc, request, copy, replaced>>

Handler(r) ==
  \/ \E i \in Identifiers : SendOtp(r, i) \/ \E code \in Codes : VerifyOtp(r, i, code)
  \/ Invalidate(r) \/ \E code \in Codes : Create(r, code)
  \/ NotFound(r) \/ \E k \in 1..Len(otps) : FindOtp(r, k)
  \/ LockOtp(r) \/ IncrementAttempts(r) \/ UseOtp(r)
  \/ Answer(r) \/ Fail(r)

Next == (\E r \in Requests : Handler(r)) \/ \E k \in 1..MaxOtps : Expire(k)

Spec == Init /\ [][Next]_vars

-----------------------------------------------------------------------------
(* Properties.                                                             *)

\* A verification that comes after a generation was answered is never accepted with
\* a code that existed when that generation was asked for ("Invalidate all previous
\* OTPs for this identifier"), whatever other generations and verifications overlap
\* with the two.  (One that was under way may still be: it has its copy.)
OldCodesAreRefused ==
  \A r \in Requests : At(r, "verified") => copy[r].otp > request[r].before

\* The counter of attempts is written from a copy, so guesses that overlap set it
\* back and a code is guessed more often than maxAttempts; but not for ever: each
\* code is guessed finitely often, however requests interleave.
GuessesEnd ==
  \A k \in 1..MaxOtps :
    <>[][\A r \in Requests : ~(copy[r].otp = k /\ IncrementAttempts(r))]_vars

\* The service implements OneTimeCodes: a request is accepted only with a code that
\* was live at a time during the request, and a code that was used, replaced,
\* locked or has expired by then is never accepted by a later one.  (The lookup,
\* the comparison and the marking are three steps of several requests.)
Undecided(r) == pc[r] \in {"find", "increment", "use"}

OpenTo(r) ==
  IF At(r, "find")
    THEN {k \in 1..Len(otps) : otps[k].identifier = request[r].identifier /\ Live(k)}
  ELSE IF Undecided(r) THEN {copy[r].otp}
  ELSE {}

Abstract ==
  INSTANCE OneTimeCodes WITH
    Codes <- 1..MaxOtps,
    issued <- 1..Len(otps),
    live <- {k \in 1..Len(otps) : Live(k)},
    waiting <- {r \in Requests : Undecided(r)},
    open <- [r \in Requests |-> OpenTo(r)]

ImplementsOneTimeCodes == Abstract!Spec
=============================================================================
