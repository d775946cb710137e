-------------------------- MODULE MessagesProofs --------------------------
(***************************************************************************)
(* A session hears exactly what is said to it, for every set of frames and *)
(* every bound: HearsWhatIsSaid of Messages.tla is an invariant.           *)
(*                                                                         *)
(* IInv adds what assemble's variables stand for while frames are read:    *)
(* `parts` is the message that RFC 6455 has open, and `used` the least end *)
(* at which its frames can be placed, so that the code's comparison of     *)
(* `length` with the buffer refuses a message just when it cannot fit.     *)
(***************************************************************************)
EXTENDS Messages, FiniteSetTheorems, TLAPS

\* The types of the variables.
MessagesTypeOK ==
  /\ stage \in {"frame", "pong", "told", "heard"} \cup Ended
  /\ arriving \in SUBSET Frame
  /\ read \in Seq(Frame)
  /\ text \in SUBSET Opcode
  /\ parts \in SUBSET Nat
  /\ used \in Nat
  /\ age \in Nat
  /\ heard \in Seq(SUBSET Nat)
  /\ ponged \in SUBSET Nat

Live == stage \notin Ended

-----------------------------------------------------------------------------
(* The meaning of a sequence r of frames.                                  *)

DataIn(r, i) == r[i].opcode \notin Control
OpenIn(r, i) ==
  {j \in 1..i : DataIn(r, j) /\ \A k \in j..i : DataIn(r, k) => ~r[k].final}
SaidIn(r, i) == IF DataIn(r, i) THEN OpenIn(r, i - 1) \cup {i} ELSE {i}
EndIn(r, i) == IF DataIn(r, i) THEN r[i].final
               ELSE OpenIn(r, i - 1) = {} \/ r[i].opcode = "close"
EndsIn(r) == {i \in 1..Len(r) : EndIn(r, i)}
PlacedIn(r, frames, at, end) ==
  \A i \in frames : /\ at[i] + r[i].length <= end
                    /\ \A j \in frames : i < j => at[i] + r[i].length <= at[j]
FitsIn(r, frames) == \E at \in [frames -> 0..Buffer] : PlacedIn(r, frames, at, Buffer)
TightIn(r, frames, end) ==
  /\ end \in 0..Buffer
  /\ \E at \in [frames -> 0..Buffer] : PlacedIn(r, frames, at, end)
  /\ \A at \in [frames -> 0..Buffer], e \in 0..Buffer :
       PlacedIn(r, frames, at, e) => end <= e
LawfulIn(r, i) ==
  IF DataIn(r, i)
    THEN /\ (r[i].opcode = "continue") <=> OpenIn(r, i - 1) # {}
         /\ FitsIn(r, OpenIn(r, i - 1) \cup {i})
    ELSE /\ r[i].final /\ r[i].length <= ControlLimit /\ r[i].opcode # "reserved"

PlaceIn(r, i) == Cardinality({j \in EndsIn(r) : j <= i})
HeardIn(r, h) ==
  /\ Len(h) = Cardinality(EndsIn(r))
  /\ \A i \in EndsIn(r) : PlaceIn(r, i) \in 1..Len(h) /\ h[PlaceIn(r, i)] = SaidIn(r, i)
  /\ \A k \in 1..Len(h) : \E i \in EndsIn(r) : PlaceIn(r, i) = k
PingsIn(r) == {i \in 1..Len(r) : r[i].opcode = "ping"}

-----------------------------------------------------------------------------
(* The inductive invariant.                                                *)

\* assemble's `text` and buffer follow the message that is open.
Assembled ==
  /\ (text = {}) <=> (parts = {})
  /\ stage # "heard" => parts = OpenIn(read, Last)
  /\ stage \in {"told", "heard"} => text = {} /\ used = 0
  /\ stage = "heard" =>
       Last \in 1..Last /\ (OpenIn(read, Last) = {} \/ read[Last].opcode = "close")

Ponged == PingsIn(read) \ ponged \subseteq IF stage \in {"frame", "told"} THEN {} ELSE {Last}

LiveInv ==
  /\ Assembled /\ Ponged
  /\ TightIn(read, parts, used) /\ HeardIn(read, heard)
  /\ \A i \in 1..Last : LawfulIn(read, i)

IInv ==
  /\ MessagesTypeOK
  /\ Live => LiveInv
  /\ Receiving => age <= MessageTimeout
  /\ stage = "refused" => Last \in 1..Last /\ ~LawfulIn(read, Last)

-----------------------------------------------------------------------------
(* Frames.                                                                 *)

\* A frame has the fields that are read of it.
LEMMA FrameFields ==
  ASSUME NEW f \in Frame
  PROVE  f.opcode \in Opcode /\ f.final \in BOOLEAN /\ f.length \in Nat
BY MessageConstants

\* One frame more leaves the earlier ones alone.
LEMMA FramesKept ==
  ASSUME NEW r \in Seq(Frame), NEW f \in Frame,
         NEW q, q = Append(r, f), NEW n, n = Len(r) + 1
  PROVE  /\ q \in Seq(Frame) /\ Len(q) = n /\ Len(r) \in Nat /\ n \in Nat
         /\ n >= 1 /\ n \in 1..n /\ q[n] = f
         /\ \A i \in 1..Len(r) : q[i] = r[i] /\ r[i] \in Frame
OBVIOUS

\* It leaves the messages that they had open alone.
LEMMA OpenKept ==
  ASSUME NEW r \in Seq(Frame), NEW f \in Frame,
         NEW q, q = Append(r, f), NEW n, n = Len(r) + 1
  PROVE  \A i \in 0..Len(r) : OpenIn(q, i) = OpenIn(r, i) /\ OpenIn(r, i) \in SUBSET (1..i)
<1>1. SUFFICES ASSUME NEW i \in 0..Len(r)
               PROVE  OpenIn(q, i) = OpenIn(r, i) /\ OpenIn(r, i) \in SUBSET (1..i)
  OBVIOUS
<1>2. \A j \in 1..i : j \in 1..Len(r) /\ \A k \in j..i : k \in 1..Len(r)
  BY FramesKept
<1> QED BY <1>2, FramesKept DEF OpenIn, DataIn

\* It ends or joins the message that they leave open, if it is not a control
\* frame.
LEMMA OpenGrows ==
  ASSUME NEW r \in Seq(Frame), NEW f \in Frame
  PROVE  OpenIn(Append(r, f), Len(r) + 1) =
           IF f.opcode \in Control THEN OpenIn(r, Len(r))
           ELSE IF f.final THEN {} ELSE OpenIn(r, Len(r)) \cup {Len(r) + 1}
<1> DEFINE q == Append(r, f)
           n == Len(r) + 1
<1>0. q = Append(r, f) /\ n = Len(r) + 1
  OBVIOUS
<1> HIDE DEF q, n
<1>1. \A j \in 1..n : n \in j..n
  BY FramesKept, <1>0
<1>2. \A j \in 1..Len(r) : j..n = (j..Len(r)) \cup {n} /\ \A k \in j..Len(r) : k \in 1..Len(r)
  BY FramesKept, <1>0
<1>3. 1..n = (1..Len(r)) \cup {n} /\ n..n = {n} /\ n \notin 1..Len(r)
  BY FramesKept, <1>0
<1>4. DataIn(q, n) <=> f.opcode \notin Control
  BY FramesKept, <1>0 DEF DataIn
<1>5. \A j \in 1..Len(r) : DataIn(q, j) <=> DataIn(r, j)
  BY FramesKept, <1>0 DEF DataIn
<1>6. \A j \in 1..Len(r) :
        j \in OpenIn(q, n) <=> j \in OpenIn(r, Len(r)) /\ (DataIn(q, n) => ~f.final)
  BY FramesKept, <1>0, <1>2, <1>3, <1>5 DEF OpenIn
<1>7. n \in OpenIn(q, n) <=> DataIn(q, n) /\ ~f.final
  BY FramesKept, <1>0, <1>3 DEF OpenIn
<1>8. OpenIn(q, n) \subseteq (1..Len(r)) \cup {n} /\ OpenIn(r, Len(r)) \subseteq 1..Len(r)
  BY <1>3 DEF OpenIn
<1>9. CASE f.opcode \in Control
  <2>1. \A j : j \in OpenIn(q, n) <=> j \in OpenIn(r, Len(r))
    BY <1>9, <1>4, <1>6, <1>7, <1>8
  <2> QED BY <2>1, <1>9 DEF q, n
<1>10. CASE f.opcode \notin Control /\ f.final
  <2>1. \A j : j \notin OpenIn(q, n)
    BY <1>10, <1>4, <1>6, <1>7, <1>8
  <2> QED BY <2>1, <1>10 DEF q, n
<1>11. CASE f.opcode \notin Control /\ ~f.final
  <2>1. \A j : j \in OpenIn(q, n) <=> j \in OpenIn(r, Len(r)) \cup {n}
    BY <1>11, <1>4, <1>6, <1>7, <1>8
  <2> QED BY <2>1, <1>11 DEF q, n
<1> QED BY <1>9, <1>10, <1>11 DEF q, n

\* It leaves what they say, whether they may be sent and whether they end a
\* message alone.
LEMMA MeaningKept ==
  ASSUME NEW r \in Seq(Frame), NEW f \in Frame,
         NEW q, q = Append(r, f), NEW n, n = Len(r) + 1
  PROVE  \A i \in 1..Len(r) : /\ SaidIn(q, i) = SaidIn(r, i)
                              /\ LawfulIn(q, i) <=> LawfulIn(r, i)
                              /\ EndIn(q, i) <=> EndIn(r, i)
<1>1. SUFFICES ASSUME NEW i \in 1..Len(r)
               PROVE  /\ SaidIn(q, i) = SaidIn(r, i)
                      /\ LawfulIn(q, i) <=> LawfulIn(r, i)
                      /\ EndIn(q, i) <=> EndIn(r, i)
  OBVIOUS
<1>2. \A k \in 1..Len(r) : q[k] = r[k]
  BY FramesKept
<1>3. i - 1 \in 0..Len(r) /\ q[i] = r[i] /\ \A k \in 1..(i - 1) : k \in 1..Len(r)
  BY <1>2
<1>4. OpenIn(q, i - 1) = OpenIn(r, i - 1) /\ OpenIn(r, i - 1) \in SUBSET (1..(i - 1))
  BY <1>3, OpenKept
<1>5. DataIn(q, i) <=> DataIn(r, i)
  BY <1>3 DEF DataIn
<1>6. \A j \in OpenIn(r, i - 1) \cup {i} : q[j] = r[j]
  BY <1>2, <1>3, <1>4
<1>7. FitsIn(q, OpenIn(r, i - 1) \cup {i}) <=> FitsIn(r, OpenIn(r, i - 1) \cup {i})
  BY <1>6 DEF FitsIn, PlacedIn
<1> QED BY <1>3, <1>4, <1>5, <1>7 DEF SaidIn, LawfulIn, EndIn

\* It is the only one that can add to the Ends.
LEMMA EndsGrow ==
  ASSUME NEW r \in Seq(Frame), NEW f \in Frame,
         NEW q, q = Append(r, f), NEW n, n = Len(r) + 1
  PROVE  EndsIn(q) = IF EndIn(q, n) THEN EndsIn(r) \cup {n} ELSE EndsIn(r)
<1>1. Len(q) = n /\ 1..n = (1..Len(r)) \cup {n}
  OBVIOUS
<1>2. \A i \in 1..Len(r) : EndIn(q, i) <=> EndIn(r, i)
  BY MeaningKept
<1> QED BY <1>1, <1>2 DEF EndsIn

-----------------------------------------------------------------------------
(* The buffer.                                                             *)

\* No frames are placed at the start of the buffer.
LEMMA NothingIsTight ==
  ASSUME NEW r
  PROVE  TightIn(r, {}, 0)
<1>1. Buffer \in Nat
  BY MessageConstants
<1>2. PlacedIn(r, {}, [i \in {} |-> 0], 0)
  BY DEF PlacedIn
<1>3. \E at \in [{} -> 0..Buffer] : PlacedIn(r, {}, at, 0)
  <2>1. [i \in {} |-> 0] \in [{} -> 0..Buffer]
    OBVIOUS
  <2> QED BY <1>2, <2>1
<1>4. 0 \in 0..Buffer /\ \A e \in 0..Buffer : 0 <= e
  BY <1>1
<1> QED BY <1>3, <1>4 DEF TightIn

\* The least end moves by the length of a frame put after the others, and a
\* message fits as long as it stays within the buffer.
LEMMA OneFrameMoreIsTight ==
  ASSUME NEW r \in Seq(Frame), NEW f \in Frame,
         NEW S \in SUBSET (1..Len(r)), NEW u \in Nat, TightIn(r, S, u)
  PROVE  /\ TightIn(Append(r, f), S, u)
         /\ u + f.length <= Buffer =>
              /\ TightIn(Append(r, f), S \cup {Len(r) + 1}, u + f.length)
              /\ FitsIn(Append(r, f), S \cup {Len(r) + 1})
         /\ u + f.length > Buffer => ~FitsIn(Append(r, f), S \cup {Len(r) + 1})
<1> DEFINE q == Append(r, f)
           n == Len(r) + 1
<1>0. q = Append(r, f) /\ n = Len(r) + 1
  OBVIOUS
<1> HIDE DEF q, n
<1>1. /\ Buffer \in Nat /\ Len(r) \in Nat /\ n \in Nat /\ q[n] = f /\ f.length \in Nat
      /\ \A i \in S : q[i] = r[i] /\ r[i].length \in Nat /\ i \in Nat /\ i < n
  BY MessageConstants, FrameFields, <1>0
<1> DEFINE all == S \cup {n}
<1>2. TightIn(q, S, u)
  BY <1>1 DEF TightIn, PlacedIn
<1>3. ASSUME NEW at \in [all -> 0..Buffer], NEW e \in 0..Buffer, PlacedIn(q, all, at, e)
      PROVE  u + f.length <= e
  <2> DEFINE before == [i \in S |-> at[i]]
  <2>1. before \in [S -> 0..Buffer] /\ at[n] \in 0..Buffer
    OBVIOUS
  <2>2. PlacedIn(q, S, before, at[n])
    BY <1>1, <1>3 DEF PlacedIn
  <2>3. u <= at[n]
    BY <1>2, <2>1, <2>2 DEF TightIn
  <2>4. at[n] + f.length <= e
    BY <1>1, <1>3 DEF PlacedIn
  <2> QED BY <1>1, <2>1, <2>3, <2>4
<1>4. ASSUME u + f.length <= Buffer
      PROVE  \E at \in [all -> 0..Buffer] : PlacedIn(q, all, at, u + f.length)
  <2>1. PICK at \in [S -> 0..Buffer] : PlacedIn(q, S, at, u)
    BY <1>2 DEF TightIn
  <2> DEFINE after == [i \in all |-> IF i = n THEN u ELSE at[i]]
  <2>2. after \in [all -> 0..Buffer]
    <3>1. u \in 0..Buffer
      BY <1>1, <1>4
    <3>2. \A i \in all : i # n => at[i] \in 0..Buffer
      BY <2>1
    <3> QED BY <3>1, <3>2
  <2>3. \A i \in S : after[i] = at[i] /\ at[i] \in Nat
    BY <1>1, <2>1
  <2>4. after[n] = u
    OBVIOUS
  <2> HIDE DEF after
  <2>5. ASSUME NEW i \in all
        PROVE  /\ after[i] + q[i].length <= u + f.length
               /\ \A j \in all : i < j => after[i] + q[i].length <= after[j]
    <3>1. CASE i = n
      BY <3>1, <1>1, <2>4
    <3>2. CASE i \in S
      BY <3>2, <1>1, <2>1, <2>3, <2>4 DEF PlacedIn
    <3> QED BY <3>1, <3>2
  <2>6. PlacedIn(q, all, after, u + f.length)
    BY <2>5 DEF PlacedIn
  <2> QED BY <2>2, <2>6
<1>5. ASSUME u + f.length <= Buffer
      PROVE  TightIn(q, all, u + f.length) /\ FitsIn(q, all)
  <2>1. u + f.length \in 0..Buffer
    BY <1>1, <1>5
  <2>2. TightIn(q, all, u + f.length)
    BY <2>1, <1>3, <1>4, <1>5 DEF TightIn
  <2>3. PICK at \in [all -> 0..Buffer] : PlacedIn(q, all, at, u + f.length)
    BY <1>4, <1>5
  <2>4. \A i \in all : at[i] \in Nat /\ q[i].length \in Nat
    BY <1>1, <2>3
  <2>5. PlacedIn(q, all, at, Buffer)
    BY <1>1, <1>5, <2>3, <2>4 DEF PlacedIn
  <2> QED BY <2>2, <2>5 DEF FitsIn
<1>6. ASSUME u + f.length > Buffer
      PROVE  ~FitsIn(q, all)
  <2>1. Buffer \in 0..Buffer
    BY <1>1
  <2>2. \A at \in [all -> 0..Buffer] : ~PlacedIn(q, all, at, Buffer)
    <3>1. SUFFICES ASSUME NEW at \in [all -> 0..Buffer], PlacedIn(q, all, at, Buffer)
                   PROVE  FALSE
      OBVIOUS
    <3>2. u + f.length <= Buffer
      BY <1>3, <2>1, <3>1
    <3> QED BY <1>1, <1>6, <3>2
  <2> QED BY <2>2 DEF FitsIn
<1> QED BY <1>2, <1>5, <1>6 DEF q, n

\* A frame longer than the buffer fits in no message.
LEMMA LongFramesDoNotFit ==
  ASSUME NEW r, NEW S, NEW n \in S, r[n].length \in Nat, r[n].length > Buffer
  PROVE  ~FitsIn(r, S)
<1>1. Buffer \in Nat
  BY MessageConstants
<1> QED BY <1>1 DEF FitsIn, PlacedIn

-----------------------------------------------------------------------------
(* The places of the Ends.                                                 *)

\* A later End takes the next place and leaves the others theirs.
LEMMA PlacesGrow ==
  ASSUME NEW l \in Nat, NEW E \in SUBSET (1..l), NEW n, n = l + 1
  PROVE  /\ Cardinality(E) \in Nat
         /\ Cardinality(E \cup {n}) = Cardinality(E) + 1
         /\ \A i \in E : {j \in E \cup {n} : j <= i} = {j \in E : j <= i}
         /\ {j \in E \cup {n} : j <= n} = E \cup {n}
<1>1. IsFiniteSet(E)
  <2>1. IsFiniteSet(1..l)
    BY FS_Interval
  <2> QED BY <2>1, FS_Subset
<1>2. n \notin E /\ \A i \in E : i \in Nat /\ i < n
  OBVIOUS
<1>3. Cardinality(E) \in Nat /\ Cardinality(E \cup {n}) = Cardinality(E) + 1
  BY <1>1, <1>2, FS_CardinalityType, FS_AddElement
<1>4. \A i \in E : {j \in E \cup {n} : j <= i} = {j \in E : j <= i}
  BY <1>2
<1>5. {j \in E \cup {n} : j <= n} = E \cup {n}
  <2>1. \A j \in E \cup {n} : j <= n
    BY <1>2
  <2> QED BY <2>1
<1> QED BY <1>3, <1>4, <1>5

\* A frame that ends a message adds what was said to what was heard.
LEMMA HeardGrows ==
  ASSUME NEW r \in Seq(Frame), NEW f \in Frame,
         NEW q, q = Append(r, f), NEW n, n = Len(r) + 1,
         NEW h \in Seq(SUBSET Nat), HeardIn(r, h), NEW m, m = SaidIn(q, n), EndIn(q, n)
  PROVE  HeardIn(q, Append(h, m))
<1> DEFINE E == EndsIn(r)
           g == Append(h, m)
           c == Cardinality(E)
<1>1. EndsIn(q) = E \cup {n} /\ \A i \in E : SaidIn(q, i) = SaidIn(r, i)
  <2>1. E \subseteq 1..Len(r)
    BY DEF EndsIn
  <2>2. EndsIn(q) = (IF EndIn(q, n) THEN EndsIn(r) \cup {n} ELSE EndsIn(r))
    BY EndsGrow
  <2>3. \A i \in 1..Len(r) : SaidIn(q, i) = SaidIn(r, i)
    BY MeaningKept
  <2> QED BY <2>1, <2>2, <2>3
<1>2. Len(r) \in Nat /\ E \in SUBSET (1..Len(r)) /\ Len(h) = c
  BY DEF EndsIn, HeardIn
<1>3. /\ c \in Nat /\ Cardinality(E \cup {n}) = c + 1
      /\ \A i \in E : {j \in E \cup {n} : j <= i} = {j \in E : j <= i}
      /\ {j \in E \cup {n} : j <= n} = E \cup {n}
  BY <1>2, PlacesGrow
<1>4. \A i \in E : PlaceIn(q, i) = PlaceIn(r, i)
  BY <1>1, <1>3 DEF PlaceIn
<1>5. PlaceIn(q, n) = c + 1
  BY <1>1, <1>3 DEF PlaceIn
<1>6. /\ Len(g) = c + 1 /\ g[c + 1] = m
      /\ \A k \in 1..c : g[k] = h[k]
  <2>1. m \in SUBSET Int \/ m \notin SUBSET Int
    OBVIOUS
  <2> QED BY <1>2, <1>3
<1> HIDE DEF E, g, c
<1>7. /\ \A i \in E : PlaceIn(r, i) \in 1..c /\ h[PlaceIn(r, i)] = SaidIn(r, i)
      /\ \A k \in 1..c : \E i \in E : PlaceIn(r, i) = k
  BY <1>2 DEF HeardIn, E
<1>8. ASSUME NEW i \in E \cup {n}
      PROVE  PlaceIn(q, i) \in 1..(c + 1) /\ g[PlaceIn(q, i)] = SaidIn(q, i)
  <2>1. CASE i = n
    BY <2>1, <1>3, <1>5, <1>6
  <2>2. CASE i \in E
    BY <2>2, <1>1, <1>3, <1>4, <1>6, <1>7
  <2> QED BY <2>1, <2>2
<1>9. ASSUME NEW k \in 1..(c + 1)
      PROVE  \E i \in E \cup {n} : PlaceIn(q, i) = k
  <2>1. CASE k = c + 1
    BY <2>1, <1>5
  <2>2. CASE k # c + 1
    <3>1. k \in 1..c
      BY <2>2, <1>3
    <3> QED BY <3>1, <1>4, <1>7
  <2> QED BY <2>1, <2>2
<1> QED BY <1>1, <1>3, <1>6, <1>8, <1>9 DEF HeardIn, g

\* A frame that ends no message changes nothing of what should be heard.
LEMMA HeardStays ==
  ASSUME NEW r \in Seq(Frame), NEW f \in Frame,
         NEW q, q = Append(r, f), NEW n, n = Len(r) + 1,
         NEW h, HeardIn(r, h), ~EndIn(q, n)
  PROVE  HeardIn(q, h)
<1> DEFINE E == EndsIn(r)
<1>1. E \subseteq 1..Len(r)
  BY DEF EndsIn
<1>2. EndsIn(q) = E /\ \A i \in E : SaidIn(q, i) = SaidIn(r, i)
  <2>1. EndsIn(q) = (IF EndIn(q, n) THEN EndsIn(r) \cup {n} ELSE EndsIn(r))
    BY EndsGrow
  <2>2. \A i \in 1..Len(r) : SaidIn(q, i) = SaidIn(r, i)
    BY MeaningKept
  <2> QED BY <1>1, <2>1, <2>2
<1>3. \A i : PlaceIn(q, i) = PlaceIn(r, i)
  BY <1>2 DEF PlaceIn
<1> QED BY <1>2, <1>3 DEF HeardIn

-----------------------------------------------------------------------------
(* The steps.                                                              *)

\* A connection begins with nothing read.
LEMMA InitEstablishes == Init => IInv
<1>1. SUFFICES ASSUME Init
               PROVE  IInv
  OBVIOUS
<1>2. Len(read) = 0 /\ MessagesTypeOK
  BY <1>1 DEF Init, MessagesTypeOK
<1>3. OpenIn(read, 0) = {} /\ EndsIn(read) = {} /\ PingsIn(read) = {}
  BY <1>2 DEF OpenIn, EndsIn, PingsIn
<1>4. TightIn(read, parts, used)
  BY <1>1, NothingIsTight DEF Init
<1>5. HeardIn(read, heard)
  BY <1>1, <1>3, FS_EmptySet DEF Init, HeardIn
<1> QED BY <1>1, <1>2, <1>3, <1>4, <1>5, MessageConstants
        DEF IInv, Init, LiveInv, Assembled, Ponged, Live, Receiving, Last

\* A step that reads nothing, and keeps or frees the buffer, keeps what
\* LiveInv says of the frames.
LEMMA QuietStep ==
  ASSUME IInv, Live, Live', MessagesTypeOK', UNCHANGED <<read, heard>>,
         Assembled', Ponged', \/ UNCHANGED <<parts, used>>
                              \/ parts' = {} /\ used' = 0
  PROVE  LiveInv'
<1>1. LiveInv
  BY DEF IInv
<1>2. TightIn(read, parts', used')
  BY <1>1, NothingIsTight DEF LiveInv
<1> QED BY <1>1, <1>2 DEF LiveInv, Last
\* What the steps that read no frame do.
LEMMA OtherStepsPreserve ==
  ASSUME IInv, Telemetry \/ FirstByte \/ PongSent \/ TimesOut \/ HandlesEvent \/ IsLost \/ Tick
  PROVE  IInv'
<1>0. ponged \cup {Len(read)} \in SUBSET Nat
  <2>1. read \in Seq(Frame) /\ ponged \in SUBSET Nat
    BY DEF IInv, MessagesTypeOK
  <2>2. Len(read) \in Nat
    BY <2>1
  <2> QED BY <2>1, <2>2
<1> USE DEF IInv, MessagesTypeOK, Live, Receiving, Ended, Last
<1>1. CASE Telemetry
  <2>1. MessagesTypeOK'
    BY <1>1 DEF Telemetry
  <2>2. Assembled' /\ Ponged'
    BY <1>1 DEF Telemetry, TelemetryMayCancel, LiveInv, Assembled, Ponged
  <2> QED BY <1>1, <2>1, <2>2, QuietStep DEF Telemetry
<1>2. CASE FirstByte
  <2>1. MessagesTypeOK'
    BY <1>2 DEF FirstByte
  <2>2. Assembled' /\ Ponged'
    BY <1>2 DEF FirstByte, LiveInv, Assembled, Ponged
  <2> QED BY <1>2, <2>1, <2>2, QuietStep DEF FirstByte
<1>3. CASE PongSent
  <2>1. MessagesTypeOK'
    BY <1>0, <1>3 DEF PongSent
  <2>2. Assembled' /\ Ponged'
    BY <1>3 DEF PongSent, LiveInv, Assembled, Ponged
  <2> QED BY <1>3, <2>1, <2>2, QuietStep DEF PongSent
<1>4. CASE TimesOut
  BY <1>4 DEF TimesOut
<1>5. CASE HandlesEvent
  <2>1. MessagesTypeOK'
    <3>2. /\ stage' \in {"frame", "closed"} /\ age' \in Nat /\ ponged' \in SUBSET Nat
          /\ UNCHANGED <<arriving, read, text, parts, used, heard>>
      BY <1>0, <1>5 DEF HandlesEvent, Handled, Receive
    <3> QED BY <3>2
  <2>2. CASE Live'
    <3>1. Assembled'
      BY <1>5, <2>2 DEF HandlesEvent, Handled, Receive, LiveInv, Assembled
    <3>2. Ponged'
      BY <1>5, <2>2 DEF HandlesEvent, Handled, Receive, LiveInv, Assembled, Ponged, PingsIn
    <3> QED BY <1>5, <2>1, <2>2, <3>1, <3>2, QuietStep, MessageConstants
            DEF HandlesEvent, Handled, Receive
  <2>3. CASE ~Live'
    BY <1>5, <2>1, <2>3 DEF HandlesEvent, Handled, Receive
  <2> QED BY <2>2, <2>3
<1>6. CASE IsLost
  BY <1>6 DEF IsLost
<1>7. CASE Tick
  <2>1. MessagesTypeOK'
    BY <1>7 DEF Tick
  <2>2. Assembled' /\ Ponged'
    BY <1>7 DEF Tick, LiveInv, Assembled, Ponged
  <2> QED BY <1>7, <2>1, <2>2, QuietStep, MessageConstants DEF Tick
<1> QED BY <1>1, <1>2, <1>3, <1>4, <1>5, <1>6, <1>7

\* A frame read keeps the types.
LEMMA FrameArrivesTypes ==
  ASSUME MessagesTypeOK, FrameArrives
  PROVE  MessagesTypeOK'
<1> USE DEF MessagesTypeOK
<1>1. PICK f \in arriving :
        /\ read' = Append(read, f)
        /\ IF f.length > Buffer THEN Refuse
           ELSE IF f.opcode \in Control THEN TakeControl(f) ELSE TakeData(f)
  BY DEF FrameArrives
<1>2. /\ f \in Frame /\ f.opcode \in Opcode /\ f.length \in Nat
      /\ read' \in Seq(Frame) /\ Len(read) + 1 \in Nat
  BY <1>1, FrameFields
<1>3. arriving' = {} /\ UNCHANGED <<age, ponged>>
  BY DEF FrameArrives
<1>4. CASE Refuse
  BY <1>2, <1>3, <1>4 DEF Refuse, Ended
<1>5. CASE TakeControl(f)
  <2>1. {Len(read) + 1} \in SUBSET Nat
    BY <1>2
  <2>2. Append(heard, {Len(read) + 1}) \in Seq(SUBSET Nat)
    BY <2>1
  <2>3. CASE Interleaved(f) /\ ~Refuse
    BY <1>2, <1>3, <1>5, <2>3 DEF TakeControl, Return
  <2>4. CASE Return({Last + 1})
    BY <1>2, <1>3, <2>2, <2>4 DEF Return, Last
  <2> QED BY <1>4, <1>5, <2>3, <2>4 DEF TakeControl
<1>6. CASE TakeData(f)
  <2>1. parts \cup {Len(read) + 1} \in SUBSET Nat
    BY <1>2
  <2>2. Append(heard, parts \cup {Len(read) + 1}) \in Seq(SUBSET Nat)
    BY <2>1
  <2>3. CASE Return(parts \cup {Last + 1})
    BY <1>2, <1>3, <2>2, <2>3 DEF Return, Last
  <2>4. CASE ~Refuse /\ ~f.final
    <3>1. used + f.length \in Nat /\ {f.opcode} \in SUBSET Opcode
      BY <1>2
    <3> QED BY <1>2, <1>3, <1>6, <2>1, <2>4, <3>1 DEF TakeData, Last
  <2> QED BY <1>4, <1>6, <2>3, <2>4 DEF TakeData
<1> QED BY <1>1, <1>4, <1>5, <1>6
\* A frame read, with what assemble does of it, keeps the invariant: a refused
\* one is not lawful, and any other is.
LEMMA FrameArrivesPreserves ==
  ASSUME IInv, FrameArrives
  PROVE  IInv'
<1>1. PICK f \in arriving :
        /\ read' = Append(read, f)
        /\ IF f.length > Buffer THEN Refuse
           ELSE IF f.opcode \in Control THEN TakeControl(f) ELSE TakeData(f)
  BY DEF FrameArrives
<1> DEFINE r == read
           q == read'
           n == Len(read) + 1
           open == OpenIn(read, Len(read))
<1>2. MessagesTypeOK' /\ r \in Seq(Frame) /\ f \in Frame /\ used \in Nat
  BY <1>1, FrameArrivesTypes DEF IInv, MessagesTypeOK
<1>3. /\ f.opcode \in Opcode /\ f.final \in BOOLEAN /\ f.length \in Nat
      /\ Buffer \in Nat /\ ControlLimit \in Nat /\ ControlLimit <= Buffer
  BY <1>2, FrameFields, MessageConstants
<1>4. stage = "frame" /\ arriving' = {} /\ UNCHANGED <<age, ponged>>
  BY DEF FrameArrives
<1>5. /\ (text = {}) <=> (parts = {})
      /\ parts = open /\ PingsIn(r) \subseteq ponged
      /\ TightIn(r, parts, used) /\ HeardIn(r, heard)
      /\ \A i \in 1..Len(r) : LawfulIn(r, i)
      /\ heard \in Seq(SUBSET Nat)
  BY <1>4 DEF IInv, Live, Ended, LiveInv, Assembled, Ponged, Last, MessagesTypeOK
<1>6. q = Append(r, f)
  BY <1>1
<1> HIDE DEF r, q, n, open
<1>7. n = Len(r) + 1
  BY DEF n, r
<1>8. /\ Len(q) = n /\ n \in 1..n /\ q[n] = f /\ n - 1 = Len(r) /\ Len(r) \in 0..Len(r)
      /\ 1..n = (1..Len(r)) \cup {n} /\ n \notin 1..Len(r)
      /\ \A i \in 1..Len(r) : q[i] = r[i]
  <2>1. /\ Len(q) = n /\ Len(r) \in Nat /\ n \in 1..n /\ q[n] = f
        /\ \A i \in 1..Len(r) : q[i] = r[i]
    BY <1>2, <1>6, <1>7, FramesKept
  <2> QED BY <2>1, <1>7
<1>9. open \in SUBSET (1..Len(r)) /\ open = OpenIn(r, Len(r)) /\ OpenIn(q, n - 1) = open
  <2>1. \A i \in 0..Len(r) : OpenIn(q, i) = OpenIn(r, i) /\ OpenIn(r, i) \in SUBSET (1..i)
    BY <1>2, <1>6, <1>7, OpenKept
  <2>2. open = OpenIn(r, Len(r))
    BY DEF open, r
  <2> QED BY <1>8, <2>1, <2>2
<1>10. OpenIn(q, n) = IF f.opcode \in Control THEN open
                      ELSE IF f.final THEN {} ELSE open \cup {n}
  <2>1. OpenIn(q, n) = IF f.opcode \in Control THEN OpenIn(r, Len(r))
                       ELSE IF f.final THEN {} ELSE OpenIn(r, Len(r)) \cup {n}
    BY <1>2, <1>6, <1>7, OpenGrows
  <2> QED BY <1>9, <2>1
<1>11. \A i \in 1..Len(r) : LawfulIn(q, i)
  BY <1>2, <1>5, <1>6, <1>7, MeaningKept
<1>12. PingsIn(q) = IF f.opcode = "ping" THEN PingsIn(r) \cup {n} ELSE PingsIn(r)
  BY <1>8 DEF PingsIn
<1>13. /\ TightIn(q, parts, used)
       /\ used + f.length <= Buffer =>
            TightIn(q, parts \cup {n}, used + f.length) /\ FitsIn(q, parts \cup {n})
       /\ used + f.length > Buffer => ~FitsIn(q, parts \cup {n})
  <2>1. parts \in SUBSET (1..Len(r))
    BY <1>5, <1>9
  <2> QED BY <1>2, <1>5, <1>6, <1>7, <2>1, OneFrameMoreIsTight
<1>14. Last = n - 1 /\ Last' = n /\ read' = q
  BY <1>7, <1>8 DEF Last, q, r
<1>15. LawfulIn(q, n) <=>
         IF f.opcode \notin Control
           THEN ((f.opcode = "continue") <=> open # {}) /\ FitsIn(q, open \cup {n})
           ELSE f.final /\ f.length <= ControlLimit /\ f.opcode # "reserved"
  BY <1>8, <1>9 DEF LawfulIn, DataIn
<1>16. EndIn(q, n) <=> IF f.opcode \notin Control THEN f.final
                       ELSE open = {} \/ f.opcode = "close"
  BY <1>8, <1>9 DEF EndIn, DataIn
<1>17. SaidIn(q, n) = IF f.opcode \notin Control THEN open \cup {n} ELSE {n}
  BY <1>8, <1>9 DEF SaidIn, DataIn
<1>18. EndIn(q, n) => HeardIn(q, Append(heard, SaidIn(q, n)))
  BY <1>2, <1>5, <1>6, <1>7, HeardGrows
<1>19. ~EndIn(q, n) => HeardIn(q, heard)
  BY <1>2, <1>5, <1>6, <1>7, HeardStays
<1>20. TightIn(q, {}, 0)
  BY NothingIsTight
\* The frame is refused.
<1>21. ASSUME Refuse, ~LawfulIn(q, n)
       PROVE  IInv'
  BY <1>21, <1>2, <1>8, <1>14 DEF Refuse, IInv, Live, Ended, Receiving
\* The frame ends a message.
<1>22. ASSUME Return(SaidIn(q, n)), EndIn(q, n), LawfulIn(q, n)
       PROVE  IInv'
  <2>1. Assembled'
    BY <1>8, <1>10, <1>14, <1>16, <1>22 DEF Return, Assembled
  <2>2. Ponged'
    BY <1>4, <1>5, <1>12, <1>14, <1>22 DEF Return, Ponged
  <2>3. TightIn(q, parts', used') /\ HeardIn(q, heard')
    BY <1>18, <1>20, <1>22 DEF Return
  <2>4. LiveInv'
    BY <1>8, <1>11, <1>14, <1>22, <2>1, <2>2, <2>3 DEF LiveInv
  <2> QED BY <1>2, <1>22, <2>4 DEF Return, IInv, Live, Ended, Receiving
\* The frame leaves a message open.
<1>23. ASSUME stage' \in {"frame", "pong"}, stage' = "pong" <=> f.opcode = "ping",
              (text' = {}) <=> (parts' = {}), parts' = OpenIn(q, n), UNCHANGED heard,
              TightIn(q, parts', used'), ~EndIn(q, n), LawfulIn(q, n)
       PROVE  IInv'
  <2>1. Assembled'
    BY <1>14, <1>23 DEF Assembled
  <2>2. Ponged'
    BY <1>4, <1>5, <1>12, <1>14, <1>23 DEF Ponged
  <2>3. LiveInv'
    BY <1>8, <1>11, <1>14, <1>19, <1>23, <2>1, <2>2 DEF LiveInv
  <2>4. age' <= MessageTimeout
    BY <1>4 DEF IInv, Receiving
  <2> QED BY <1>2, <1>23, <2>3, <2>4 DEF IInv, Live, Ended, Receiving
<1>24. CASE f.length > Buffer
  <2>1. ~FitsIn(q, open \cup {n})
    BY <1>3, <1>8, <1>24, LongFramesDoNotFit
  <2> QED BY <1>1, <1>3, <1>15, <1>21, <1>24, <2>1
<1>25. CASE ~(f.length > Buffer) /\ f.opcode \in Control
  <2>1. TakeControl(f)
    BY <1>1, <1>25
  <2>2. CASE ~LawfulIn(q, n)
    <3>1. ~f.final \/ f.length > ControlLimit \/ f.opcode = "reserved"
      BY <1>3, <1>15, <1>25, <2>2
    <3> QED BY <1>21, <2>1, <2>2, <3>1 DEF TakeControl
  <2>3. CASE LawfulIn(q, n) /\ Interleaved(f)
    <3>1. f.opcode \in {"ping", "pong"} /\ open # {} /\ parts = open
      BY <1>5, <2>3 DEF Interleaved
    <3>2. /\ stage' = IF f.opcode = "ping" THEN "pong" ELSE "frame"
          /\ UNCHANGED <<text, parts, used, heard>>
      BY <1>3, <1>15, <1>25, <2>1, <2>3 DEF TakeControl
    <3> QED BY <1>5, <1>10, <1>13, <1>16, <1>23, <1>25, <2>3, <3>1, <3>2
  <2>4. CASE LawfulIn(q, n) /\ ~Interleaved(f)
    <3>1. Return({Last + 1})
      BY <1>3, <1>15, <1>25, <2>1, <2>4 DEF TakeControl
    <3>2. open = {} \/ f.opcode = "close"
      BY <1>5, <1>15, <1>25, <2>4 DEF Interleaved, Control
    <3>3. Return(SaidIn(q, n))
      BY <1>7, <1>14, <1>17, <1>25, <3>1 DEF Last, r
    <3> QED BY <1>16, <1>22, <1>25, <2>4, <3>2, <3>3
  <2> QED BY <2>2, <2>3, <2>4
<1>26. CASE ~(f.length > Buffer) /\ f.opcode \notin Control
  <2>1. TakeData(f)
    BY <1>1, <1>26
  <2>2. Last + 1 = n
    BY DEF Last, n
  <2>3. LawfulIn(q, n) <=> ~((f.opcode # "continue") # (text = {}) \/ used + f.length > Buffer)
    BY <1>2, <1>3, <1>5, <1>13, <1>15, <1>26
  <2>4. CASE ~LawfulIn(q, n)
    BY <1>21, <2>1, <2>3, <2>4 DEF TakeData
  <2>5. CASE LawfulIn(q, n) /\ f.final
    <3>1. Return(parts \cup {n})
      BY <2>1, <2>2, <2>3, <2>5 DEF TakeData
    <3>2. Return(SaidIn(q, n))
      BY <1>5, <1>17, <1>26, <3>1
    <3> QED BY <1>16, <1>22, <1>26, <2>5, <3>2
  <2>6. CASE LawfulIn(q, n) /\ ~f.final
    <3>1. /\ text' = (IF f.opcode # "continue" THEN {f.opcode} ELSE text)
          /\ parts' = parts \cup {n} /\ used' = used + f.length
          /\ UNCHANGED <<stage, heard>>
      BY <2>1, <2>2, <2>3, <2>6 DEF TakeData
    <3>2. f.opcode = "continue" => text # {}
      BY <2>3, <2>6
    <3>3. used + f.length <= Buffer
      BY <1>2, <1>3, <2>3, <2>6
    <3>4. TightIn(q, parts', used')
      BY <1>13, <3>1, <3>3
    <3>5. text' # {} /\ parts' # {} /\ parts' = OpenIn(q, n)
      BY <1>5, <1>10, <1>26, <2>6, <3>1, <3>2
    <3>6. f.opcode # "ping"
      BY <1>26 DEF Control
    <3> QED BY <1>4, <1>16, <1>23, <1>26, <2>6, <3>1, <3>4, <3>5, <3>6
  <2> QED BY <2>4, <2>5, <2>6
<1> QED BY <1>24, <1>25, <1>26
\* A step that changes nothing keeps the invariant.
LEMMA StutteringPreserves ==
  ASSUME IInv, UNCHANGED vars
  PROVE  IInv'
BY DEF vars, IInv, MessagesTypeOK, Live, LiveInv, Assembled, Ponged, Last, Receiving

-----------------------------------------------------------------------------
(* What it shows.                                                          *)

\* Messages.tla speaks of the frames read.
LEMMA OfFramesRead ==
  /\ \A i : Said(i) = SaidIn(read, i)
  /\ \A i : Lawful(i) <=> LawfulIn(read, i)
  /\ Ends = EndsIn(read) /\ Pings = PingsIn(read)
<1>1. \A i : Open(i) = OpenIn(read, i)
  BY DEF Open, OpenIn, IsData, DataIn
<1>2. \A i : Said(i) = SaidIn(read, i)
  BY <1>1 DEF Said, SaidIn, IsData, DataIn
<1>3. \A i : Lawful(i) <=> LawfulIn(read, i)
  BY <1>1 DEF Lawful, LawfulIn, IsData, DataIn, Inside, Fits, FitsIn, Placed, PlacedIn
<1>4. Ends = EndsIn(read)
  BY <1>1 DEF Ends, EndsIn, EndIn, Inside, Frames, IsData, DataIn
<1>5. Pings = PingsIn(read)
  BY DEF Pings, PingsIn, Frames
<1> QED BY <1>2, <1>3, <1>4, <1>5

\* The messages heard are the messages said, in the order of their Ends.
LEMMA HeardInOrder ==
  ASSUME heard \in Seq(SUBSET Nat), HeardIn(read, heard)
  PROVE  heard = [n \in 1..Cardinality(Ends) |->
                    Said(CHOOSE i \in Ends : Cardinality({j \in Ends : j <= i}) = n)]
<1> DEFINE c == Cardinality(Ends)
           At(n) == CHOOSE i \in Ends : Cardinality({j \in Ends : j <= i}) = n
<1>1. Len(heard) = c /\ heard = [n \in 1..c |-> heard[n]]
  BY OfFramesRead DEF HeardIn
<1>2. ASSUME NEW n \in 1..c
      PROVE  heard[n] = Said(At(n))
  <2>1. \E i \in Ends : Cardinality({j \in Ends : j <= i}) = n
    BY <1>1, OfFramesRead DEF HeardIn, PlaceIn
  <2>2. At(n) \in Ends /\ Cardinality({j \in Ends : j <= At(n)}) = n
    BY <2>1
  <2> HIDE DEF At
  <2>3. PlaceIn(read, At(n)) = n
    BY <2>2, OfFramesRead DEF PlaceIn
  <2> QED BY <2>2, <2>3, OfFramesRead DEF HeardIn
<1> HIDE DEF c, At
<1>3. heard = [n \in 1..c |-> Said(At(n))]
  BY <1>1, <1>2
<1> QED BY <1>3 DEF c, At

\* The invariant says what Messages.tla promises.
LEMMA InvariantImplies ==
  ASSUME IInv
  PROVE  HearsWhatIsSaid
<1>1. ASSUME stage \notin Ended
      PROVE  /\ heard = [n \in 1..Cardinality(Ends) |->
                           Said(CHOOSE i \in Ends : Cardinality({j \in Ends : j <= i}) = n)]
             /\ Pings \ ponged \subseteq IF stage = "frame" THEN {} ELSE {Last}
             /\ \A i \in Frames : Lawful(i)
  <2>1. LiveInv /\ heard \in Seq(SUBSET Nat)
    BY <1>1 DEF IInv, Live, MessagesTypeOK
  <2>2. heard = [n \in 1..Cardinality(Ends) |->
                   Said(CHOOSE i \in Ends : Cardinality({j \in Ends : j <= i}) = n)]
    BY <2>1, HeardInOrder DEF LiveInv
  <2>3. Pings \ ponged \subseteq IF stage = "frame" THEN {} ELSE {Last}
    BY <2>1, OfFramesRead DEF LiveInv, Ponged
  <2>4. \A i \in Frames : Lawful(i)
    BY <2>1, OfFramesRead DEF LiveInv, Frames, Last
  <2> QED BY <2>2, <2>3, <2>4
<1>2. ASSUME stage = "told"
      PROVE  ~Inside(Last + 1)
  <2>1. Len(read) \in Nat
    BY DEF IInv, MessagesTypeOK
  <2>2. OpenIn(read, Len(read)) = {}
    BY <1>2 DEF IInv, Live, Ended, LiveInv, Assembled, Last
  <2>3. Open(Len(read)) = {}
    BY <2>2 DEF Open, OpenIn, IsData, DataIn
  <2>4. Len(read) + 1 - 1 = Len(read)
    BY <2>1
  <2> QED BY <2>3, <2>4 DEF Inside, Last
<1>3. Receiving => age <= MessageTimeout
  BY DEF IInv
<1>4. stage = "refused" => ~Lawful(Last)
  BY OfFramesRead DEF IInv
<1> QED BY <1>1, <1>2, <1>3, <1>4 DEF HearsWhatIsSaid

\* The inductive invariant holds of every connection.
THEOREM MessagesInvariant == Spec => []IInv
<1>1. Init => IInv
  BY InitEstablishes
<1>2. IInv /\ [Next]_vars => IInv'
  BY OtherStepsPreserve, FrameArrivesPreserves, StutteringPreserves DEF Next
<1> QED BY <1>1, <1>2, PTL DEF Spec

\* Whatever fragments, interleaved control frames, telemetry ticks, slow bytes
\* and slow readers: while a connection lasts, the session has heard exactly
\* the messages that were said, has answered its Pings, and a connection is
\* refused only for a frame no peer may send (next_message, assemble and
\* run_session).
THEOREM EveryMessageIsHeard == Spec => []HearsWhatIsSaid
<1>1. IInv => HearsWhatIsSaid
  BY InvariantImplies
<1> QED BY <1>1, MessagesInvariant, PTL

\* Every variable keeps its type.
THEOREM MessagesAreTyped == Spec => []MessagesTypeOK
<1>1. IInv => MessagesTypeOK
  BY DEF IInv
<1> QED BY <1>1, MessagesInvariant, PTL
=============================================================================
