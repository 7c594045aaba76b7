------------------------- MODULE CreatePaymentProofs -------------------------
(***************************************************************************)
(* CreatePayment for any number of calls, keys, overlaps and faults.       *)
(*                                                                         *)
(* The inductive invariant says where the thing to pay with is: a call     *)
(* about to INSERT has it, a stored call has it and carries the key it is  *)
(* stored under, and a reply is always the row of the caller's key.  Rows  *)
(* are never replaced, so replies given earlier stay right.                *)
(*                                                                         *)
(* Where calls for a key do not overlap, whatever those for other keys do, *)
(* the key is free from the SELECT to the INSERT: nobody is told of a      *)
(* conflict, and, if nothing fails, the key has one checkout.              *)
(***************************************************************************)
EXTENDS CreatePayment, FiniteSetTheorems, TLAPS

\* A call that is new has nothing at Stripe; the one about to INSERT, and the one
\* that did, has a checkout there.
Payable ==
    /\ \A c \in Calls : pc[c] = "new" => objects[c] = {}
    /\ \A c \in Calls : pc[c] = "insert" => "checkout" \in objects[c]
    /\ \A k \in Keys : Taken(k) => /\ table[k] \in Calls
                                   /\ key[table[k]] = k
                                   /\ pc[table[k]] # "new"
                                   /\ "checkout" \in objects[table[k]]

\* Replies name the row of the caller's key; new calls have no reply.
Replies ==
    \A c \in Calls :
        reply[c] # NoCall => pc[c] # "new" /\ Taken(key[c]) /\ table[key[c]] = reply[c]

IInv == TypeOK /\ Payable /\ Replies /\ ConflictMeansStored

-------------------------------------------------------------------------------
\* No call has arrived and no key is taken.
LEMMA InitIInv == Init => IInv
  BY NoCallAssumption, NoKeyAssumption, MaxFaultsAssumption
  DEF Init, IInv, TypeOK, Payable, Replies, ConflictMeansStored, Taken, Objects,
      Methods, InFlight, Answers

\* Faults are counted up to their bound.
LEMMA FaultKeepsCount == ASSUME faults \in 0..MaxFaults, Fault PROVE faults' \in 0..MaxFaults
  BY MaxFaultsAssumption DEF Fault

\* Find: a taken key is answered with its row, a free one with no reply yet.
LEMMA FindKeeps ==
  ASSUME IInv, NEW c \in Calls, NEW k \in Keys, NEW m \in Methods, Find(c, k, m)
  PROVE  IInv'
  <1> USE DEF Find, Arrives, GoTo, Taken
  <1>1. TypeOK'
    BY DEF IInv, TypeOK, InFlight, Answers
  <1>2. Payable'
    BY NoCallAssumption DEF IInv, TypeOK, Payable
  <1>3. Replies'
    BY NoCallAssumption DEF IInv, TypeOK, Replies
  <1>4. ConflictMeansStored'
    BY DEF IInv, TypeOK, ConflictMeansStored
  <1> QED  BY <1>1, <1>2, <1>3, <1>4 DEF IInv

\* FindFails: an error answers with no payment.
LEMMA FindFailsKeeps ==
  ASSUME IInv, NEW c \in Calls, NEW k \in Keys, NEW m \in Methods, FindFails(c, k, m)
  PROVE  IInv'
  <1> USE DEF FindFails, Arrives, GoTo, Taken
  <1>1. TypeOK'
    BY FaultKeepsCount DEF IInv, TypeOK, InFlight, Answers
  <1>2. Payable'
    BY NoCallAssumption DEF IInv, TypeOK, Payable
  <1>3. Replies'
    BY NoCallAssumption DEF IInv, TypeOK, Replies
  <1>4. ConflictMeansStored'
    BY DEF IInv, TypeOK, ConflictMeansStored
  <1> QED  BY <1>1, <1>2, <1>3, <1>4 DEF IInv

\* NextObject names a Stripe object.
LEMMA NextObjectIsObject == ASSUME NEW c PROVE NextObject(c) \in Objects
  BY DEF NextObject, Objects

\* Post: objects only accumulate, and INSERT is reached with the checkout made.
LEMMA PostKeeps ==
  ASSUME IInv, NEW c \in Calls, Post(c)
  PROVE  IInv'
  <1> USE DEF Post, Made, GoTo, Taken
  <1>1. TypeOK'
    BY NextObjectIsObject DEF IInv, TypeOK, InFlight, Answers
  <1>2. Payable'
    BY DEF IInv, TypeOK, Payable
  <1>3. Replies'
    BY DEF IInv, TypeOK, Replies
  <1>4. ConflictMeansStored'
    BY DEF IInv, TypeOK, ConflictMeansStored
  <1> QED  BY <1>1, <1>2, <1>3, <1>4 DEF IInv

\* PostFails: objects may be left over, rows and replies are not touched.
LEMMA PostFailsKeeps ==
  ASSUME IInv, NEW c \in Calls, PostFails(c)
  PROVE  IInv'
  <1> USE DEF PostFails, Made, GoTo, Taken
  <1>1. TypeOK'
    BY NextObjectIsObject, FaultKeepsCount DEF IInv, TypeOK, InFlight, Answers
  <1>2. Payable'
    BY DEF IInv, TypeOK, Payable
  <1>3. Replies'
    BY DEF IInv, TypeOK, Replies
  <1>4. ConflictMeansStored'
    BY DEF IInv, TypeOK, ConflictMeansStored
  <1> QED  BY <1>1, <1>2, <1>3, <1>4 DEF IInv

\* Insert: a free key takes the call's row, no other key changes.
LEMMA InsertKeeps ==
  ASSUME IInv, NEW c \in Calls, Insert(c)
  PROVE  IInv'
  <1> USE DEF Insert, GoTo, Taken
  <1>0. key[c] \in Keys
    BY DEF IInv, TypeOK
  <1>1. TypeOK'
    BY <1>0, NoCallAssumption DEF IInv, TypeOK, InFlight, Answers
  <1>2. Payable'
    BY <1>0 DEF IInv, TypeOK, Payable
  <1>3. Replies'
    BY <1>0, NoCallAssumption DEF IInv, TypeOK, Replies
  <1>4. ConflictMeansStored'
    BY <1>0, NoCallAssumption DEF IInv, TypeOK, ConflictMeansStored
  <1> QED  BY <1>1, <1>2, <1>3, <1>4 DEF IInv

\* InsertDuplicate: the conflict is about a taken key.
LEMMA InsertDuplicateKeeps ==
  ASSUME IInv, NEW c \in Calls, InsertDuplicate(c)
  PROVE  IInv'
  <1> USE DEF InsertDuplicate, GoTo, Taken
  <1>1. TypeOK'
    BY DEF IInv, TypeOK, InFlight, Answers
  <1>2. Payable'
    BY DEF IInv, TypeOK, Payable
  <1>3. Replies'
    BY DEF IInv, TypeOK, Replies
  <1>4. ConflictMeansStored'
    BY DEF IInv, TypeOK, ConflictMeansStored
  <1> QED  BY <1>1, <1>2, <1>3, <1>4 DEF IInv

\* InsertFails: a row may be stored that nobody was answered with.
LEMMA InsertFailsKeeps ==
  ASSUME IInv, NEW c \in Calls, InsertFails(c)
  PROVE  IInv'
  <1> USE DEF InsertFails, GoTo, Taken
  <1>0. key[c] \in Keys
    BY DEF IInv, TypeOK
  <1>1. TypeOK'
    BY <1>0, FaultKeepsCount DEF IInv, TypeOK, InFlight, Answers
  <1>2. Payable'
    BY <1>0 DEF IInv, TypeOK, Payable
  <1>3. Replies'
    BY <1>0, NoCallAssumption DEF IInv, TypeOK, Replies
  <1>4. ConflictMeansStored'
    BY <1>0, NoCallAssumption DEF IInv, TypeOK, ConflictMeansStored
  <1> QED  BY <1>1, <1>2, <1>3, <1>4 DEF IInv

\* Every step keeps the inductive invariant.
LEMMA StepIInv == IInv /\ [Next]_vars => IInv'
  <1> SUFFICES ASSUME IInv, [Next]_vars PROVE IInv'
    OBVIOUS
  <1>1. CASE UNCHANGED vars
    BY <1>1 DEF vars, IInv, TypeOK, Payable, Replies, ConflictMeansStored, Taken
  <1>2. CASE Next
    BY <1>2, FindKeeps, FindFailsKeeps, PostKeeps, PostFailsKeeps, InsertKeeps,
       InsertDuplicateKeeps, InsertFailsKeeps DEF Next
  <1> QED  BY <1>1, <1>2

\* The inductive invariant holds in every reachable state.
THEOREM Invariant == Spec => []IInv
  BY InitIInv, StepIInv, PTL DEF Spec

-------------------------------------------------------------------------------
\* The variables keep their types.
THEOREM TypeCorrect == Spec => []TypeOK
  <1>1. IInv => TypeOK
    BY DEF IInv
  <1> QED  BY <1>1, Invariant, PTL

\* Calls with the same key that are given a payment are given the same one.
THEOREM Idempotent == Spec => []SameAnswer
  <1>1. IInv => SameAnswer
    BY DEF IInv, Replies, SameAnswer
  <1> QED  BY <1>1, Invariant, PTL

\* A payment a caller is given is stored under its key and can be paid.
THEOREM AnswersArePayable == Spec => []AnsweredPaymentIsPayable
  <1>1. IInv => AnsweredPaymentIsPayable
    BY DEF IInv, TypeOK, Replies, Payable, AnsweredPaymentIsPayable
  <1> QED  BY <1>1, Invariant, PTL

\* A conflict is answered only when the key has a payment.
THEOREM ConflictsAreReal == Spec => []ConflictMeansStored
  <1>1. IInv => ConflictMeansStored
    BY DEF IInv
  <1> QED  BY <1>1, Invariant, PTL

-------------------------------------------------------------------------------
\* No payment and no reply to begin with, in both specifications.
LEMMA InitIsAbstract == Init => Abstract!Init
  BY DEF Init, Abstract!Init

\* Only Find and the INSERTs are visible in CreateOnce; other steps stutter.
LEMMA StepIsAbstract == IInv /\ [Next]_vars => [Abstract!Next]_(Abstract!vars)
  <1> SUFFICES ASSUME IInv, [Next]_vars
               PROVE  Abstract!Next \/ UNCHANGED Abstract!vars
    OBVIOUS
  <1> USE DEF Abstract!vars
  <1>1. ASSUME NEW c \in Calls, NEW k \in Keys, NEW m \in Methods, Find(c, k, m)
        PROVE  Abstract!Next \/ UNCHANGED Abstract!vars
    <2>1. CASE Taken(k)
      <3>1. reply[c] = NoCall
        BY <1>1 DEF IInv, Replies, Find, Arrives
      <3>2. Abstract!Repeat(k, c)
        BY <1>1, <2>1, <3>1 DEF Find, Taken, Abstract!Repeat
      <3> QED  BY <3>2 DEF Abstract!Next
    <2>2. CASE ~Taken(k)
      BY <1>1, <2>2 DEF Find
    <2> QED  BY <2>1, <2>2
  <1>2. ASSUME NEW c \in Calls, Insert(c)
        PROVE  Abstract!Next \/ UNCHANGED Abstract!vars
    <2>1. key[c] \in Keys
      BY <1>2 DEF IInv, TypeOK, Insert
    <2>2. Abstract!Register(key[c], c)
      BY <1>2 DEF Insert, Taken, Abstract!Register
    <2> QED  BY <2>1, <2>2 DEF Abstract!Next
  <1>3. ASSUME NEW c \in Calls, InsertFails(c)
        PROVE  Abstract!Next \/ UNCHANGED Abstract!vars
    <2>1. key[c] \in Keys
      BY <1>3 DEF IInv, TypeOK, InsertFails
    <2>2. CASE UNCHANGED table
      BY <1>3, <2>2 DEF InsertFails
    <2>3. CASE ~Taken(key[c]) /\ table' = [table EXCEPT ![key[c]] = c]
      <3>1. Abstract!Register(key[c], c)
        BY <1>3, <2>3 DEF InsertFails, Taken, Abstract!Register
      <3> QED  BY <2>1, <3>1 DEF Abstract!Next
    <2> QED  BY <1>3, <2>2, <2>3 DEF InsertFails
  <1>4. ASSUME NEW c \in Calls, NEW k \in Keys, NEW m \in Methods, FindFails(c, k, m)
        PROVE  UNCHANGED Abstract!vars
    BY <1>4 DEF FindFails
  <1>5. ASSUME NEW c \in Calls, Post(c) \/ PostFails(c) \/ InsertDuplicate(c)
        PROVE  UNCHANGED Abstract!vars
    BY <1>5 DEF Post, PostFails, InsertDuplicate
  <1>6. CASE UNCHANGED vars
    BY <1>6 DEF vars
  <1>7. CASE Next
    BY <1>1, <1>2, <1>3, <1>4, <1>5, <1>7 DEF Next
  <1> QED  BY <1>6, <1>7

\* SELECT, Stripe and INSERT together implement the one-step CreateOnce: a key
\* gets one payment, for good, and every payment answered is that one.
THEOREM Refinement == Spec => ImplementsCreateOnce
  BY InitIsAbstract, StepIsAbstract, Invariant, PTL
  DEF Spec, ImplementsCreateOnce, Abstract!Spec

-------------------------------------------------------------------------------
(* A key whose calls do not overlap, whatever those for other keys do: what  *)
(* the SELECT found still holds at the INSERT, as no other call is there to  *)
(* insert in between.                                                        *)

\* The behaviours in which calls for key k do not overlap.
SpecApart(k) == Init /\ [][Next /\ Apart(k)']_vars

\* A call in flight for the key found no payment, and still would not; nobody was
\* told of a conflict.
KeyInv(k) ==
    /\ Apart(k)
    /\ \A c \in Calls : key[c] = k /\ pc[c] \in InFlight => ~Taken(k)
    /\ \A c \in Calls : key[c] = k => pc[c] # "conflict"

\* A checkout is that of the key's payment, or about to be.
CheckoutsUsed(k) ==
    \A c \in Calls : key[c] = k /\ "checkout" \in objects[c] => pc[c] = "insert" \/ table[k] = c

\* Both hold at first: no call has a key yet.
LEMMA KeyInit ==
  ASSUME NEW k \in Keys, Init
  PROVE  KeyInv(k) /\ CheckoutsUsed(k)
  BY NoKeyAssumption DEF Init, KeyInv, CheckoutsUsed, Apart, InFlight

\* Every step after which calls for the key still do not overlap keeps the first;
\* and the second, unless something fails.
LEMMA KeyKept ==
  ASSUME NEW k \in Keys, IInv, KeyInv(k), [Next /\ Apart(k)']_vars
  PROVE  KeyInv(k)' /\ (MaxFaults = 0 /\ CheckoutsUsed(k) => CheckoutsUsed(k)')
  <1> DEFINE Kept == KeyInv(k)' /\ (MaxFaults = 0 /\ CheckoutsUsed(k) => CheckoutsUsed(k)')
  <1> USE DEF IInv, TypeOK, KeyInv, GoTo, Taken, InFlight
  <1>0. MaxFaults = 0 => ~Fault
    BY DEF Fault
  <1>1. ASSUME NEW c \in Calls, NEW l \in Keys, NEW m \in Methods, Find(c, l, m), Apart(k)'
        PROVE  Kept
    <2>1. objects[c] = {}
      BY <1>1 DEF Find, Arrives, Payable
    <2> QED  BY <1>1, <2>1 DEF Find, Arrives, Apart, CheckoutsUsed
  <1>2. ASSUME NEW c \in Calls, NEW l \in Keys, NEW m \in Methods, FindFails(c, l, m), Apart(k)'
        PROVE  Kept
    BY <1>0, <1>2 DEF FindFails, Arrives
  <1>3. ASSUME NEW c \in Calls, Post(c), Apart(k)' PROVE Kept
    BY <1>3 DEF Post, Made, CheckoutsUsed
  <1>4. ASSUME NEW c \in Calls, PostFails(c), Apart(k)' PROVE Kept
    BY <1>0, <1>4 DEF PostFails
  <1>5. ASSUME NEW c \in Calls, Insert(c), Apart(k)' PROVE Kept
    <2>1. key[c] = k => \A d \in Calls : key[d] = k /\ pc[d] \in InFlight => d = c
      BY <1>5 DEF Insert, Apart
    <2>2. KeyInv(k)'
      BY <1>5, <2>1 DEF Insert, Apart
    <2>3. CheckoutsUsed(k) => CheckoutsUsed(k)'
      BY <1>5, <2>1, NoCallAssumption DEF Insert, CheckoutsUsed
    <2> QED  BY <2>2, <2>3
  <1>6. ASSUME NEW c \in Calls, InsertDuplicate(c), Apart(k)' PROVE Kept
    BY <1>6 DEF InsertDuplicate, CheckoutsUsed
  <1>7. ASSUME NEW c \in Calls, InsertFails(c), Apart(k)' PROVE Kept
    BY <1>0, <1>7 DEF InsertFails, Apart
  <1>8. CASE UNCHANGED vars
    BY <1>8 DEF vars, Apart, CheckoutsUsed
  <1> QED  BY <1>1, <1>2, <1>3, <1>4, <1>5, <1>6, <1>7, <1>8 DEF Next

\* Calls for one key that do not overlap are answered with the payment, never with
\* 409, whatever fails and whatever calls for other keys are under way.
THEOREM KeysAreIndependent ==
    \A k \in Keys : SpecApart(k) => [](\A c \in Calls : key[c] = k => pc[c] # "conflict")
  <1> SUFFICES ASSUME NEW k \in Keys
               PROVE  SpecApart(k) => [](\A c \in Calls : key[c] = k => pc[c] # "conflict")
    OBVIOUS
  <1>1. Init => KeyInv(k)
    BY KeyInit
  <1>2. IInv /\ KeyInv(k) /\ [Next /\ Apart(k)']_vars => KeyInv(k)'
    BY KeyKept
  <1>3. [Next /\ Apart(k)']_vars => [Next]_vars
    OBVIOUS
  <1>4. KeyInv(k) => \A c \in Calls : key[c] = k => pc[c] # "conflict"
    BY DEF KeyInv
  <1> QED  BY Invariant, <1>1, <1>2, <1>3, <1>4, PTL DEF SpecApart, Spec

-------------------------------------------------------------------------------
(* Calls that overlap for no key.                                            *)

ApartNext == Next /\ \A k \in Keys : Apart(k)'

KeysInv == \A k \in Keys : KeyInv(k)

\* The invariant of such calls.
LEMMA ApartInvariant == ApartSpec => [](IInv /\ KeysInv) /\ [][ApartNext]_vars
  <1>1. Init => KeysInv
    BY KeyInit DEF KeysInv
  <1>2. IInv /\ KeysInv /\ [ApartNext]_vars => KeysInv'
    BY KeyKept DEF KeysInv, ApartNext
  <1>3. [ApartNext]_vars => [Next]_vars
    BY DEF ApartNext
  <1> QED  BY Invariant, <1>1, <1>2, <1>3, PTL DEF ApartSpec, ApartNext, Spec

\* Calls that overlap for no key are answered with the payment, never with 409.
THEOREM ApartCallsGetThePayment == ApartSpec => []DuplicatesGetThePayment
  <1>1. IInv /\ KeysInv => DuplicatesGetThePayment
    BY DEF IInv, TypeOK, KeysInv, KeyInv, DuplicatesGetThePayment
  <1> QED  BY ApartInvariant, <1>1, PTL

\* If, moreover, nothing fails, one key is one checkout: a call that made one stored
\* the payment, and every later call is given it by the SELECT.
THEOREM ApartCallsMakeOneCheckout == MaxFaults = 0 => (ApartSpec => []OneCheckoutPerKey)
  <1> DEFINE AllUsed == \A k \in Keys : CheckoutsUsed(k)
  <1> SUFFICES ASSUME MaxFaults = 0 PROVE ApartSpec => []OneCheckoutPerKey
    OBVIOUS
  <1>1. Init => AllUsed
    BY KeyInit
  <1>2. IInv /\ KeysInv /\ AllUsed /\ [ApartNext]_vars => AllUsed'
    BY KeyKept DEF KeysInv, ApartNext
  <1>3. IInv /\ KeysInv /\ AllUsed => OneCheckoutPerKey
    <2> SUFFICES ASSUME IInv, KeysInv, AllUsed, NEW c \in Calls, NEW d \in Calls,
                        key[c] = key[d], "checkout" \in objects[c] \cap objects[d]
                 PROVE  c = d
      BY DEF OneCheckoutPerKey
    <2>1. key[c] \in Keys
      BY DEF IInv, TypeOK, Payable
    <2> QED  BY <2>1, NoCallAssumption DEF KeysInv, KeyInv, CheckoutsUsed, Apart, Taken, InFlight
  <1> HIDE DEF AllUsed
  <1> QED  BY ApartInvariant, <1>1, <1>2, <1>3, PTL DEF ApartSpec

-------------------------------------------------------------------------------
(* One call at a time.                                                       *)

\* At most one call is in flight.
Alone == \A c, d \in Calls : pc[c] \in InFlight /\ pc[d] \in InFlight => c = d

\* A call that may arrive finds nobody else there.
LEMMA ArrivesAlone ==
  ASSUME MaxInFlight = 1, NEW c \in Calls, NEW k, NEW m, Arrives(c, k, m)
  PROVE  \A d \in Calls : pc[d] \notin InFlight
  <1> DEFINE S == {d \in Calls : pc[d] \in InFlight}
  <1>1. IsFiniteSet(S) /\ Cardinality(S) \in Nat
    BY CallsFinite, FS_Subset, FS_CardinalityType
  <1>2. Cardinality(S) = 0
    BY <1>1 DEF Arrives
  <1>3. S = {}
    BY <1>1, <1>2, FS_EmptySet
  <1> QED  BY <1>3

\* If calls run one at a time they overlap for no key.
THEOREM SerialCallsAreApart == MaxInFlight = 1 => (Spec => ApartSpec)
  <1> DEFINE AllApart == \A k \in Keys : Apart(k)
  <1> SUFFICES ASSUME MaxInFlight = 1 PROVE Spec => ApartSpec
    OBVIOUS
  <1>1. Init => Alone
    BY DEF Init, Alone, InFlight
  <1>2. ASSUME IInv, Alone, [Next]_vars PROVE Alone'
    <2> USE DEF IInv, TypeOK, Alone, GoTo, InFlight
    <2>1. ASSUME NEW c \in Calls, NEW k \in Keys, NEW m \in Methods,
                 Find(c, k, m) \/ FindFails(c, k, m)
          PROVE  Alone'
      <3>1. \A d \in Calls : pc[d] \notin InFlight
        BY <2>1, ArrivesAlone DEF Find, FindFails
      <3> QED  BY <1>2, <2>1, <3>1 DEF Find, FindFails
    <2>2. ASSUME NEW c \in Calls, Post(c) PROVE Alone'
      BY <1>2, <2>2 DEF Post
    <2>3. ASSUME NEW c \in Calls, PostFails(c) PROVE Alone'
      BY <1>2, <2>3 DEF PostFails
    <2>4. ASSUME NEW c \in Calls, Insert(c) \/ InsertDuplicate(c) \/ InsertFails(c)
          PROVE  Alone'
      BY <1>2, <2>4 DEF Insert, InsertDuplicate, InsertFails
    <2>5. CASE UNCHANGED vars
      BY <1>2, <2>5 DEF vars
    <2> QED  BY <1>2, <2>1, <2>2, <2>3, <2>4, <2>5 DEF Next
  <1>3. IInv /\ Alone /\ [Next]_vars => Alone'
    BY <1>2
  <1>4. Alone => AllApart
    BY DEF Alone, Apart
  <1>5. AllApart' /\ [Next]_vars => [Next /\ \A k \in Keys : Apart(k)']_vars
    OBVIOUS
  <1> HIDE DEF AllApart
  <1> QED  BY Invariant, <1>1, <1>3, <1>4, <1>5, PTL DEF Spec, ApartSpec

\* So duplicates that do not overlap are answered with the payment, never with 409.
THEOREM DuplicatesAreAnswered == MaxInFlight = 1 => (Spec => []DuplicatesGetThePayment)
  BY SerialCallsAreApart, ApartCallsGetThePayment
===============================================================================
