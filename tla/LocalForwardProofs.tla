------------------------- MODULE LocalForwardProofs -------------------------
(***************************************************************************)
(* An end that is shown is that of a whole stream, and each direction is   *)
(* a ByteStream, whatever the programs send, the buffers hold and the      *)
(* bounds are.                                                             *)
(*                                                                         *)
(* EndIsWhole is not inductive: it says nothing of a direction that has    *)
(* been shut down but whose end nobody has seen yet.  What is shut is      *)
(* whole from then on, because its program has ended it (ShutIsWhole),     *)
(* a direction that was seen to end has been got as far as it was put, and *)
(* is shut or given up, so that nothing more is put (SeenIsGot), and Ok    *)
(* comes only with both directions shut (OkIsShut).                        *)
(***************************************************************************)
EXTENDS LocalForward, TLAPS

ShutIsWhole ==
    \A d \in shut : gone[From(d)] # "broken" => d \in ended /\ put[d] = sent[d]

SeenIsGot == \A d \in seen : got[d] = put[d] /\ (d \in shut \/ GivenUp)

OkIsShut == pc = "ok" => shut = Dir

Inv == TypeOK /\ ShutIsWhole /\ SeenIsGot /\ OkIsShut

Counts == [Dir -> 0..MaxSent]

\* TypeOK with the counters one by one.
LEMMA TypeByCounter ==
    TypeOK <=>
        /\ pc \in {"opening", "ready", "copying", "ok", "failed", "refused", "dropped"}
        /\ sent \in Counts /\ taken \in Counts /\ put \in Counts /\ got \in Counts
        /\ \A d \in Dir : sent[d] >= taken[d] /\ taken[d] >= put[d] /\ put[d] >= got[d]
        /\ ended \subseteq Dir /\ shut \subseteq Dir /\ seen \subseteq Dir /\ reads \subseteq Dir
        /\ gone \in [Side -> {"no", "closed", "broken"}]
BY DEF TypeOK, Counts

LEMMA SidesOfDir == \A d \in Dir : From(d) \in Side /\ To(d) \in Side /\ Back(d) \in Dir
BY DEF Dir, Side, From, To, Back

LEMMA InitInv == Init => Inv
<1> SUFFICES ASSUME Init PROVE Inv
  OBVIOUS
<1>1. [d \in Dir |-> 0] \in Counts
  BY BoundsAssumption DEF Counts
<1>2. TypeOK
  BY <1>1, TypeByCounter DEF Init
<1>3. QED
  BY <1>2 DEF Init, Inv, ShutIsWhole, SeenIsGot, OkIsShut, GivenUp

\* The future is opened, polled, fails, finishes or is dropped: no byte moves.
LEMMA FutureStep == Inv /\ (forward_tcp \/ wait \/ Drop \/ Fail \/ Finish) => Inv'
<1> SUFFICES ASSUME Inv, forward_tcp \/ wait \/ Drop \/ Fail \/ Finish PROVE Inv'
  OBVIOUS
<1>1. /\ UNCHANGED <<sent, taken, put, got, ended, shut, seen, reads, gone>>
      /\ pc' \in {"ready", "copying", "ok", "failed", "refused", "dropped"}
      /\ pc \in {"opening", "ready", "copying"} /\ ~GivenUp
      /\ pc' = "ok" => shut = Dir
  BY DEF forward_tcp, Opened, Refused, wait, Drop, Fail, Failing, Copying, Finish, Become, bytes, GivenUp
<1>2. TypeOK'
  BY <1>1, TypeByCounter DEF Inv, TypeOK
<1>3. ShutIsWhole' /\ SeenIsGot' /\ OkIsShut'
  BY <1>1 DEF Inv, ShutIsWhole, SeenIsGot, OkIsShut, GivenUp
<1>4. QED
  BY <1>2, <1>3 DEF Inv

\* One byte more at one place.
LEMMA OneMore ==
    ASSUME NEW count \in Counts, NEW d \in Dir, count[d] < MaxSent
    PROVE  LET next == [count EXCEPT ![d] = @ + 1]
           IN  /\ next \in Counts
               /\ next[d] = count[d] + 1
               /\ \A e \in Dir \ {d} : next[e] = count[e]
BY BoundsAssumption DEF Counts

LEMMA TakeStep == ASSUME NEW d \in Dir PROVE Inv /\ Take(d) => Inv'
<1> SUFFICES ASSUME Inv, Take(d) PROVE Inv'
  OBVIOUS
<1>1. /\ sent \in Counts /\ taken \in Counts /\ put \in Counts /\ got \in Counts
      /\ taken[d] < sent[d] /\ taken' = [taken EXCEPT ![d] = @ + 1]
      /\ UNCHANGED <<pc, sent, put, got, ended, shut, seen, reads, gone>>
  BY TypeByCounter DEF Inv, Take
<1>2. taken[d] < MaxSent
  BY <1>1, BoundsAssumption DEF Counts
<1>3. TypeOK'
  <2>1. \A e \in Dir : sent[e] >= taken'[e] /\ taken'[e] >= put[e] /\ put[e] >= got[e]
    BY <1>1, <1>2, OneMore, TypeByCounter, BoundsAssumption DEF Inv, Counts
  <2>2. QED
    BY <1>1, <1>2, <2>1, OneMore DEF Inv, TypeOK, Counts
<1>4. QED
  BY <1>1, <1>3 DEF Inv, ShutIsWhole, SeenIsGot, OkIsShut, GivenUp

LEMMA PutStep == ASSUME NEW d \in Dir PROVE Inv /\ Put(d) => Inv'
<1> SUFFICES ASSUME Inv, Put(d) PROVE Inv'
  OBVIOUS
<1>1. /\ sent \in Counts /\ taken \in Counts /\ put \in Counts /\ got \in Counts
      /\ put[d] < taken[d] /\ put' = [put EXCEPT ![d] = @ + 1] /\ d \notin shut
      /\ pc = "copying"
      /\ UNCHANGED <<pc, sent, taken, got, ended, shut, seen, reads, gone>>
  BY TypeByCounter DEF Inv, Put, Copying
<1>2. put[d] < MaxSent
  BY <1>1, BoundsAssumption DEF Counts
<1>3. TypeOK'
  <2>1. \A e \in Dir : sent[e] >= taken[e] /\ taken[e] >= put'[e] /\ put'[e] >= got[e]
    BY <1>1, <1>2, OneMore, TypeByCounter, BoundsAssumption DEF Inv, Counts
  <2>2. QED
    BY <1>1, <1>2, <2>1, OneMore DEF Inv, TypeOK, Counts
<1>4. shut \subseteq Dir /\ \A e \in shut : put'[e] = put[e]
  BY <1>1, <1>2, OneMore DEF Inv, TypeOK
<1>5. \A e \in seen : e \in shut
  BY <1>1 DEF Inv, SeenIsGot, GivenUp
<1>6. QED
  BY <1>1, <1>3, <1>4, <1>5 DEF Inv, ShutIsWhole, SeenIsGot, OkIsShut, GivenUp

\* What is shut is whole: its program ended it, and all of it was put.
LEMMA ShutStep == ASSUME NEW d \in Dir PROVE Inv /\ Shut(d) => Inv'
<1> SUFFICES ASSUME Inv, Shut(d) PROVE Inv'
  OBVIOUS
<1>1. /\ pc = "copying" /\ InputOver(d) /\ put[d] = taken[d] /\ shut' = shut \cup {d}
      /\ UNCHANGED <<pc, sent, taken, put, got, ended, seen, reads, gone>>
  BY DEF Shut, Copying, bytes
<1>2. TypeOK'
  BY <1>1 DEF Inv, TypeOK
<1>3. gone[From(d)] # "broken" => d \in ended /\ put[d] = sent[d]
  BY <1>1 DEF InputOver, From
<1>4. QED
  BY <1>1, <1>2, <1>3 DEF Inv, ShutIsWhole, SeenIsGot, OkIsShut, GivenUp

LEMMA WriteStep == ASSUME NEW d \in Dir PROVE Inv /\ Write(d) => Inv'
<1> SUFFICES ASSUME Inv, Write(d) PROVE Inv'
  OBVIOUS
<1>1. /\ sent \in Counts /\ taken \in Counts /\ put \in Counts /\ got \in Counts
      /\ sent[d] < MaxSent /\ sent' = [sent EXCEPT ![d] = @ + 1] /\ d \notin ended
      /\ gone[From(d)] = "no"
      /\ UNCHANGED <<pc, taken, put, got, ended, shut, seen, reads, gone>>
  BY TypeByCounter DEF Inv, Write, Alive
<1>2. TypeOK'
  <2>1. \A e \in Dir : sent'[e] >= taken[e] /\ taken[e] >= put[e] /\ put[e] >= got[e]
    BY <1>1, OneMore, TypeByCounter, BoundsAssumption DEF Inv, Counts
  <2>2. QED
    BY <1>1, <2>1, OneMore DEF Inv, TypeOK, Counts
<1>3. ShutIsWhole'
  <2>1. \A e \in Dir \ {d} : sent'[e] = sent[e]
    BY <1>1, OneMore
  <2>2. \A e \in shut : e \in Dir /\ (gone[From(e)] # "broken" => e # d)
    BY <1>1 DEF Inv, TypeOK, ShutIsWhole
  <2>3. QED
    BY <1>1, <2>1, <2>2 DEF Inv, ShutIsWhole
<1>4. QED
  BY <1>1, <1>2, <1>3 DEF Inv, SeenIsGot, OkIsShut, GivenUp

LEMMA ReadStep == ASSUME NEW d \in Dir PROVE Inv /\ Read(d) => Inv'
<1> SUFFICES ASSUME Inv, Read(d) PROVE Inv'
  OBVIOUS
<1>1. /\ sent \in Counts /\ taken \in Counts /\ put \in Counts /\ got \in Counts
      /\ got[d] < put[d] /\ got' = [got EXCEPT ![d] = @ + 1]
      /\ UNCHANGED <<pc, sent, taken, put, ended, shut, seen, reads, gone>>
  BY TypeByCounter DEF Inv, Read
<1>2. got[d] < MaxSent
  BY <1>1, BoundsAssumption DEF Counts
<1>3. TypeOK'
  <2>1. \A e \in Dir : sent[e] >= taken[e] /\ taken[e] >= put[e] /\ put[e] >= got'[e]
    BY <1>1, <1>2, OneMore, TypeByCounter, BoundsAssumption DEF Inv, Counts
  <2>2. QED
    BY <1>1, <1>2, <2>1, OneMore DEF Inv, TypeOK, Counts
<1>4. SeenIsGot'
  <2>1. got[d] \in Nat /\ put[d] \in Nat
    BY <1>1, BoundsAssumption DEF Counts
  <2>2. d \notin seen
    BY <1>1, <2>1 DEF Inv, SeenIsGot
  <2>3. \A e \in Dir \ {d} : got'[e] = got[e]
    BY <1>1, <1>2, OneMore
  <2>4. QED
    BY <1>1, <2>2, <2>3 DEF Inv, TypeOK, SeenIsGot, GivenUp
<1>5. QED
  BY <1>1, <1>3, <1>4 DEF Inv, ShutIsWhole, OkIsShut

\* The end is seen once all was got, of a direction that is shut or is over.
LEMMA SeeEndStep == ASSUME NEW d \in Dir PROVE Inv /\ SeeEnd(d) => Inv'
<1> SUFFICES ASSUME Inv, SeeEnd(d) PROVE Inv'
  OBVIOUS
<1>1. /\ got[d] = put[d] /\ (d \in shut \/ Over) /\ seen' = seen \cup {d}
      /\ UNCHANGED <<pc, sent, taken, put, got, ended, shut, reads, gone>>
  BY DEF SeeEnd, bytes
<1>2. TypeOK'
  BY <1>1 DEF Inv, TypeOK
<1>3. d \in shut \/ GivenUp
  BY <1>1 DEF Over, GivenUp, Inv, TypeOK, OkIsShut
<1>4. QED
  BY <1>1, <1>2, <1>3 DEF Inv, ShutIsWhole, SeenIsGot, OkIsShut, GivenUp

LEMMA EndStep == ASSUME NEW d \in Dir PROVE Inv /\ End(d) => Inv'
<1> SUFFICES ASSUME Inv, End(d) PROVE Inv'
  OBVIOUS
<1>1. /\ ended' = ended \cup {d}
      /\ UNCHANGED <<pc, sent, taken, put, got, shut, seen, reads, gone>>
  BY DEF End, bytes
<1>2. TypeOK'
  BY <1>1 DEF Inv, TypeOK
<1>3. QED
  BY <1>1, <1>2 DEF Inv, ShutIsWhole, SeenIsGot, OkIsShut, GivenUp

\* A side that leaves ends its direction, or breaks it off.
LEMMA LeaveStep == ASSUME NEW side \in Side PROVE Inv /\ Leave(side) => Inv'
<1> SUFFICES ASSUME Inv, Leave(side) PROVE Inv'
  OBVIOUS
<1>1. PICK how \in {"closed", "broken"} :
          /\ gone' = [gone EXCEPT ![side] = how]
          /\ ended' = IF how = "closed" THEN ended \cup {d \in Dir : From(d) = side} ELSE ended
  BY DEF Leave
<1>2. /\ gone[side] = "no"
      /\ UNCHANGED <<pc, sent, taken, put, got, shut, seen, reads>>
  BY DEF Leave, Alive, bytes
<1>3. gone' \in [Side -> {"no", "closed", "broken"}] /\ ended \subseteq ended' /\ ended' \subseteq Dir
  BY <1>1 DEF Inv, TypeOK
<1>4. TypeOK'
  BY <1>2, <1>3 DEF Inv, TypeOK
<1>5. \A d \in Dir : gone'[From(d)] # "broken" => gone[From(d)] # "broken"
  BY <1>1, <1>2, SidesOfDir DEF Inv, TypeOK
<1>6. ShutIsWhole'
  BY <1>2, <1>3, <1>5 DEF Inv, TypeOK, ShutIsWhole
<1>7. QED
  BY <1>2, <1>4, <1>6 DEF Inv, SeenIsGot, OkIsShut, GivenUp

THEOREM Invariance == Spec => []Inv
<1>1. Inv /\ [Next]_vars => Inv'
  <2> SUFFICES ASSUME Inv, [Next]_vars PROVE Inv'
    OBVIOUS
  <2>1. CASE forward_tcp \/ wait \/ Drop \/ Fail \/ Finish
    BY <2>1, FutureStep
  <2>2. CASE Copy
    BY <2>2, TakeStep, PutStep, ShutStep DEF Copy
  <2>3. CASE Programs
    BY <2>3, WriteStep, EndStep, ReadStep, SeeEndStep DEF Programs
  <2>4. CASE \E side \in Side : Leave(side)
    BY <2>4, LeaveStep
  <2>5. CASE UNCHANGED vars
    BY <2>5 DEF vars, bytes, Inv, TypeOK, ShutIsWhole, SeenIsGot, OkIsShut, GivenUp
  <2>6. QED
    BY <2>1, <2>2, <2>3, <2>4, <2>5 DEF Next
<1>2. QED
  BY InitInv, <1>1, PTL DEF Spec

-----------------------------------------------------------------------------
\* The places a byte passes are counted in order, within the bounds.
THEOREM TypeCorrect == Spec => []TypeOK
<1>1. Inv => TypeOK
  BY DEF Inv
<1>2. QED
  BY Invariance, <1>1, PTL

\* An end that is shown is that of a whole stream, and Ok says so of both
\* directions (copy_bidirectional in forward_tcp and forward_stream).
THEOREM ShownEndIsWhole == Spec => []EndIsWhole
<1>1. Inv => EndIsWhole
  <2> SUFFICES ASSUME Inv, NEW d \in Dir, gone[From(d)] # "broken"
               PROVE  /\ d \in seen /\ ~GivenUp => d \in ended /\ got[d] = sent[d]
                      /\ pc = "ok" => d \in ended /\ put[d] = sent[d]
    BY DEF EndIsWhole
  <2>1. d \in shut => d \in ended /\ put[d] = sent[d]
    BY DEF Inv, ShutIsWhole
  <2>2. QED
    BY <2>1 DEF Inv, SeenIsGot, OkIsShut, GivenUp
<1>2. QED
  BY Invariance, <1>1, PTL

-----------------------------------------------------------------------------
\* A direction as a stream.
Stream(d) ==
    INSTANCE ByteStream WITH
        sent <- sent[d], got <- got[d], ended <- d \in ended, shown <- d \in seen,
        broken <- GivenUp \/ gone[From(d)] = "broken"

\* Nothing that broke off is whole again: the forward stays given up, and a
\* side that is gone stays gone.
LEMMA StaysBroken ==
    ASSUME Inv, [Next]_vars, NEW d \in Dir, GivenUp \/ gone[From(d)] = "broken"
    PROVE  (GivenUp \/ gone[From(d)] = "broken")'
<1>1. From(d) \in Side
  BY SidesOfDir
<1>2. CASE forward_tcp \/ wait \/ Drop \/ Fail \/ Finish
  BY <1>2 DEF forward_tcp, Opened, Refused, wait, Drop, Fail, Failing, Copying, Finish, Become, GivenUp
<1>3. CASE Copy \/ Programs \/ UNCHANGED vars
  BY <1>3 DEF Copy, Take, Put, Shut, Programs, Write, End, Read, SeeEnd, vars, GivenUp
<1>4. ASSUME NEW side \in Side, Leave(side) PROVE (GivenUp \/ gone[From(d)] = "broken")'
  BY <1>1, <1>4 DEF Leave, Alive, GivenUp, Inv, TypeOK
<1>5. QED
  BY <1>2, <1>3, <1>4 DEF Next

\* A step that leaves a stream as it is, or that can only break it off.
LEMMA StreamRests ==
    ASSUME Inv, [Next]_vars, NEW d \in Dir,
           UNCHANGED <<sent[d], got[d], d \in ended, d \in seen>>
    PROVE  [Stream(d)!Next]_(Stream(d)!vars)
BY StaysBroken DEF Stream!Next, Stream!Break, Stream!vars

\* The counter of one direction moves, or none.
LEMMA Elsewhere ==
    ASSUME NEW count \in Counts, NEW next, NEW d \in Dir, NEW e \in Dir, e # d,
           next = [count EXCEPT ![e] = @ + 1]
    PROVE  next[d] = count[d]
BY DEF Counts

LEMMA WriteIsSend ==
    ASSUME Inv, [Next]_vars, NEW d \in Dir, NEW e \in Dir, Write(e)
    PROVE  [Stream(d)!Next]_(Stream(d)!vars)
<1>1. /\ sent \in Counts /\ sent[e] < MaxSent /\ sent' = [sent EXCEPT ![e] = @ + 1] /\ e \notin ended
      /\ UNCHANGED <<pc, got, ended, seen, gone>>
  BY TypeByCounter DEF Inv, Write
<1>2. CASE d = e
  <2>1. sent'[d] = sent[d] + 1
    BY <1>1, <1>2, OneMore
  <2>2. QED
    BY <1>1, <1>2, <2>1 DEF Stream!Next, Stream!Send, GivenUp
<1>3. CASE d # e
  BY <1>1, <1>3, Elsewhere, StreamRests
<1>4. QED
  BY <1>2, <1>3

\* Nothing is got of a direction whose end has been seen: there, all that was
\* put has been got.
LEMMA ReadIsDeliver ==
    ASSUME Inv, [Next]_vars, NEW d \in Dir, NEW e \in Dir, Read(e)
    PROVE  [Stream(d)!Next]_(Stream(d)!vars)
<1>1. /\ sent \in Counts /\ taken \in Counts /\ put \in Counts /\ got \in Counts
      /\ got[e] < put[e] /\ got' = [got EXCEPT ![e] = @ + 1]
      /\ sent[e] >= taken[e] /\ taken[e] >= put[e]
      /\ UNCHANGED <<pc, sent, ended, seen, gone>>
  BY TypeByCounter DEF Inv, Read
<1>2. CASE d = e
  <2>1. got[d] \in Int /\ put[d] \in Int /\ taken[d] \in Int /\ sent[d] \in Int /\ sent[d] <= MaxSent
    BY <1>1, BoundsAssumption DEF Counts
  <2>2. d \notin seen
    BY <1>1, <1>2, <2>1 DEF Inv, SeenIsGot
  <2>3. got[d] < sent[d] /\ got[d] < MaxSent
    BY <1>1, <1>2, <2>1, BoundsAssumption
  <2>4. got'[d] = got[d] + 1
    BY <1>1, <1>2, <2>3, OneMore
  <2>5. QED
    BY <1>1, <1>2, <2>2, <2>3, <2>4 DEF Stream!Next, Stream!Deliver, GivenUp
<1>3. CASE d # e
  BY <1>1, <1>3, Elsewhere, StreamRests
<1>4. QED
  BY <1>2, <1>3

\* An end is seen of a direction that is shut, and whole then, or given up.
LEMMA SeeEndIsShowEnd ==
    ASSUME Inv, [Next]_vars, NEW d \in Dir, NEW e \in Dir, SeeEnd(e)
    PROVE  [Stream(d)!Next]_(Stream(d)!vars)
<1>1. /\ e \notin seen /\ got[e] = put[e] /\ (e \in shut \/ Over) /\ seen' = seen \cup {e}
      /\ UNCHANGED <<pc, sent, got, ended, gone>>
  BY DEF SeeEnd, bytes
<1>2. CASE d = e
  <2>1. d \in shut \/ GivenUp
    BY <1>1, <1>2 DEF Over, GivenUp, Inv, TypeOK, OkIsShut
  <2>2. (d \in ended /\ got[d] = sent[d]) \/ GivenUp \/ gone[From(d)] = "broken"
    BY <1>1, <1>2, <2>1 DEF Inv, ShutIsWhole
  <2>3. QED
    BY <1>1, <1>2, <2>2 DEF Stream!Next, Stream!ShowEnd, GivenUp
<1>3. CASE d # e
  BY <1>1, <1>3, StreamRests
<1>4. QED
  BY <1>2, <1>3

LEMMA EndIsEnd ==
    ASSUME Inv, [Next]_vars, NEW d \in Dir, NEW e \in Dir, End(e)
    PROVE  [Stream(d)!Next]_(Stream(d)!vars)
<1>1. /\ e \notin ended /\ ended' = ended \cup {e}
      /\ UNCHANGED <<pc, sent, got, seen, gone>>
  BY DEF End, bytes
<1>2. CASE d = e
  BY <1>1, <1>2 DEF Stream!Next, Stream!End, GivenUp
<1>3. CASE d # e
  BY <1>1, <1>3, StreamRests
<1>4. QED
  BY <1>2, <1>3

\* A side that is closed ends its direction; one that breaks breaks it off; the
\* direction towards it rests.
LEMMA LeaveEndsOrBreaks ==
    ASSUME Inv, [Next]_vars, NEW d \in Dir, NEW side \in Side, Leave(side)
    PROVE  [Stream(d)!Next]_(Stream(d)!vars)
<1>1. PICK how \in {"closed", "broken"} :
          /\ gone' = [gone EXCEPT ![side] = how]
          /\ ended' = IF how = "closed" THEN ended \cup {x \in Dir : From(x) = side} ELSE ended
  BY DEF Leave
<1>2. gone[side] = "no" /\ UNCHANGED <<pc, sent, got, seen>>
  BY DEF Leave, Alive, bytes
<1>3. gone \in [Side -> {"no", "closed", "broken"}] /\ From(d) \in Side
  BY SidesOfDir DEF Inv, TypeOK
<1>4. CASE how = "closed" /\ From(d) = side /\ d \notin ended
  <2>1. d \in ended' /\ gone[From(d)] # "broken" /\ gone'[From(d)] # "broken"
    BY <1>1, <1>2, <1>3, <1>4
  <2>2. QED
    BY <1>2, <1>4, <2>1 DEF Stream!Next, Stream!End, GivenUp
<1>5. CASE ~(how = "closed" /\ From(d) = side /\ d \notin ended)
  <2>1. (d \in ended') = (d \in ended)
    BY <1>1, <1>5
  <2>2. QED
    BY <1>2, <2>1, StreamRests
<1>6. QED
  BY <1>4, <1>5

LEMMA StreamStep ==
    ASSUME Inv, [Next]_vars, NEW d \in Dir
    PROVE  [Stream(d)!Next]_(Stream(d)!vars)
<1>1. CASE forward_tcp \/ wait \/ Drop \/ Fail \/ Finish
  BY <1>1, StreamRests
     DEF forward_tcp, Opened, Refused, wait, Drop, Fail, Finish, Become, bytes
<1>2. CASE Copy \/ UNCHANGED vars
  BY <1>2, StreamRests DEF Copy, Take, Put, Shut, bytes, vars
<1>3. CASE Programs
  BY <1>3, WriteIsSend, EndIsEnd, ReadIsDeliver, SeeEndIsShowEnd DEF Programs
<1>4. CASE \E side \in Side : Leave(side)
  BY <1>4, LeaveEndsOrBreaks
<1>5. QED
  BY <1>1, <1>2, <1>3, <1>4 DEF Next

LEMMA StreamBegins == ASSUME NEW d \in Dir, Init PROVE Stream(d)!Init
BY SidesOfDir DEF Init, Stream!Init, GivenUp

\* Each direction implements ByteStream, whatever the other one does, how the
\* future is driven or dropped, and which side leaves (copy_bidirectional in
\* forward_tcp and forward_stream).
THEOREM CarriesTwoStreams == Spec => CarriesStreams
<1>1. Init => Up!Init /\ Down!Init
  BY StreamBegins DEF Dir, From, Stream!Init, Up!Init, Down!Init
<1>2. Inv /\ [Next]_vars => [Up!Next]_(Up!vars)
  BY StreamStep
     DEF Dir, From, Stream!Next, Stream!Send, Stream!End, Stream!Deliver, Stream!ShowEnd,
         Stream!Break, Stream!vars, Up!Next, Up!Send, Up!End, Up!Deliver, Up!ShowEnd, Up!Break,
         Up!vars
<1>3. Inv /\ [Next]_vars => [Down!Next]_(Down!vars)
  BY StreamStep
     DEF Dir, From, Stream!Next, Stream!Send, Stream!End, Stream!Deliver, Stream!ShowEnd,
         Stream!Break, Stream!vars, Down!Next, Down!Send, Down!End, Down!Deliver,
         Down!ShowEnd, Down!Break, Down!vars
<1>4. QED
  BY Invariance, <1>1, <1>2, <1>3, PTL DEF Spec, CarriesStreams, Up!Spec, Down!Spec
=============================================================================
