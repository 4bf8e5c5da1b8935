------------------------- MODULE PollServer_proofs --------------------------
(***************************************************************************)
(* Theorems about PollServer for any number of clients, any table, buffer, *)
(* set of request sizes and number of frames: the loop over the table only *)
(* looks at what poll has reported of the client it serves, and every      *)
(* client that stays has its requests handled as it sent them.             *)
(***************************************************************************)
EXTENDS PollServer, SequenceTheorems, FiniteSetTheorems, TLAPS

\* A client's stream: its frames are at least a header long, and have the sizes
\* clients use.
Cut(b) ==
    /\ Len(b) > 0 /\ b[1] = 0
    /\ \A j, k \in 1 .. Len(b) : j < k => b[j] + kHeadSize <= b[k]
    /\ \A k \in 1 .. Len(b) - 1 : b[k + 1] - b[k] - kHeadSize \in BodySizes

Stream(c) == Cut(bounds[c]) /\ rcvd[c] <= Written(c)

Passed(c) ==
    peer[c] = "open" =>
        /\ Len(handled[c]) <= Len(bounds[c]) - 1
        /\ \A k \in 1 .. Len(handled[c]) :
              handled[c][k] = [at |-> bounds[c][k], size |-> BodySize(c, k)]

\* What is in a slot's buffer has been received from its client and begins, as
\* long as the client stays, with the first frame not yet handled.
Buffered(i) ==
    slot[i] # None =>
        /\ have[i] <= rcvd[slot[i]]
        /\ peer[slot[i]] = "open" =>
              rcvd[slot[i]] - have[i] = bounds[slot[i]][Len(handled[slot[i]]) + 1]

Waiting == {backlog[i] : i \in 1 .. Len(backlog)}

\* A client is in one place: it has not come, or waits, or has one slot.
Seats ==
    /\ \A i \in Slots : i > maxi => slot[i] = None
    /\ \A i, j \in Slots : slot[i] # None /\ slot[i] = slot[j] => i = j
    /\ \A i, j \in 1 .. Len(backlog) : backlog[i] = backlog[j] => i = j
    /\ \A c \in Waiting : peer[c] # "new"
    /\ \A c \in Clients : peer[c] = "new" \/ c \in Waiting =>
          rcvd[c] = 0 /\ handled[c] = <<>> /\ \A i \in Slots : slot[i] # c

Serving == pc \in {"parse", "hup"}

\* The slots from n on with an event in reports.
Ahead(n, reports) == {j \in DOMAIN reports : j >= n /\ reports[j].is # {}}

\* The slot the loop looks at next.
Following == IF Serving THEN at + 1 ELSE at

\* Everyone in the table was there when poll looked.
AllPolled == \A j \in Slots : slot[j] # None => revents[j].of # Unset

\* What is known of the events of a round.  An event still to serve is that of the
\* client in the slot.  A slot that poll has not looked at lies behind them all,
\* and someone is there only if the count does not reach it.
Round ==
    /\ pc \in {"start", "flag", "poll"} => \A j \in Slots : revents[j] = NotPolled
    /\ pc \in {"accept", "table", "parse", "hup"} =>
          /\ \A j, k \in Slots : revents[j].of = Unset /\ revents[k].is # {} => k < j
          /\ \A j \in Slots : j >= Following /\ revents[j].is # {}
                => slot[j] # None /\ revents[j].of = slot[j]
    /\ pc = "accept" => AllPolled /\ at = 1 /\ nready - 1 <= Cardinality(Ahead(1, revents))
    /\ pc \in {"table", "parse", "hup"} =>
          AllPolled \/ nready <= Cardinality(Ahead(Following, revents))

AtClient == Serving => at <= maxi /\ slot[at] # None

IInv ==
    /\ TypeOK
    /\ \A c \in Clients : Stream(c) /\ Passed(c)
    /\ \A i \in Slots : Buffered(i)
    /\ Seats
    /\ Round
    /\ AtClient

-----------------------------------------------------------------------------
(* Streams *)

LEMMA CutWrite ==
    ASSUME NEW b \in Seq(Nat), Cut(b), NEW body \in BodySizes,
           NEW w, w = Append(b, b[Len(b)] + kHeadSize + body)
    PROVE  /\ w \in Seq(Nat) /\ Cut(w) /\ Len(w) = Len(b) + 1
           /\ \A i \in 1 .. Len(b) : w[i] = b[i]
           /\ w[Len(w)] >= b[Len(b)]
  <1>. PICK n \in Nat, last \in Nat : n = Len(b) /\ n > 0 /\ last = b[n]
    BY LenProperties, ElementOfSeq DEF Cut
  <1>1. \A i \in 1 .. n : b[i] \in Nat /\ b[i] <= last
    <2>. TAKE i \in 1 .. n
    <2>1. b[i] \in Nat
      BY ElementOfSeq
    <2>2. i = n \/ b[i] + kHeadSize <= b[n]
      BY DEF Cut
    <2>. QED
      BY <2>1, <2>2, HeadAssumption
  <1>2. /\ w \in Seq(Nat) /\ Len(w) = n + 1
        /\ \A i \in 1 .. n : w[i] = b[i]
        /\ w[n + 1] = last + kHeadSize + body
        /\ body \in Nat
    <2>1. last + kHeadSize + body \in Nat /\ body \in Nat
      BY HeadAssumption, BodyAssumption
    <2>. QED
      BY <2>1, AppendProperties
  <1>3. ASSUME NEW j \in 1 .. n + 1, NEW k \in 1 .. n + 1, j < k
        PROVE  w[j] + kHeadSize <= w[k]
    <2>1. CASE k <= n
      BY <1>2, <1>3, <2>1 DEF Cut
    <2>2. CASE k = n + 1
      BY <1>1, <1>2, <1>3, <2>2, HeadAssumption
    <2>. QED
      BY <2>1, <2>2
  <1>4. ASSUME NEW k \in 1 .. n
        PROVE  w[k + 1] - w[k] - kHeadSize \in BodySizes
    <2>1. CASE k < n
      <3>1. k \in 1 .. n - 1 /\ k + 1 \in 1 .. n
        BY <2>1
      <3>. QED
        BY <3>1, <1>2 DEF Cut
    <2>2. CASE k = n
      <3>1. (last + kHeadSize + body) - last - kHeadSize = body
        BY <1>2, HeadAssumption
      <3>. QED
        BY <2>2, <3>1, <1>2
    <2>. QED
      BY <2>1, <2>2
  <1>5. Cut(w)
    BY <1>2, <1>3, <1>4 DEF Cut
  <1>. QED
    BY <1>2, <1>5, HeadAssumption

\* The header read where a frame begins is that frame's, and read anywhere it
\* shows a size that is not negative.
LEMMA HeaderFacts ==
    ASSUME TypeOK, NEW c \in Clients, Cut(bounds[c])
    PROVE  /\ \A p : HeaderAt(c, p) \subseteq Nat
           /\ \A n \in Frames(c) :
                 /\ HeaderAt(c, bounds[c][n]) = {BodySize(c, n)}
                 /\ bounds[c][n + 1] = bounds[c][n] + BodySize(c, n) + kHeadSize
                 /\ bounds[c][n] \in Nat /\ BodySize(c, n) \in Nat
  <1>. PICK b \in Seq(Nat) : b = bounds[c]
    BY DEF TypeOK
  <1>1. Frames(c) = 1 .. Len(b) - 1 /\ Len(b) \in Nat
    BY LenProperties DEF Frames
  <1>2. \A k \in Frames(c) : BodySize(c, k) \in BodySizes
    BY <1>1 DEF Cut, BodySize
  <1>3. \A p : HeaderAt(c, p) \subseteq Nat
    BY <1>2, BodyAssumption DEF HeaderAt
  <1>4. ASSUME NEW n \in Frames(c)
        PROVE  /\ HeaderAt(c, b[n]) = {BodySize(c, n)}
               /\ b[n + 1] = b[n] + BodySize(c, n) + kHeadSize
               /\ b[n] \in Nat /\ BodySize(c, n) \in Nat
    <2>1. ASSUME NEW j \in Frames(c), b[j] = b[n]
          PROVE  j = n
      <3>1. j \in 1 .. Len(b) /\ n \in 1 .. Len(b) /\ b[j] \in Nat /\ b[n] \in Nat
        BY <1>1, ElementOfSeq
      <3>2. /\ j < n => b[j] + kHeadSize <= b[n]
            /\ n < j => b[n] + kHeadSize <= b[j]
        BY <3>1 DEF Cut
      <3>3. ~ (j < n) /\ ~ (n < j)
        BY <2>1, <3>1, <3>2, HeadAssumption
      <3>. QED
        BY <3>1, <3>3
    <2>2. HeaderAt(c, b[n]) = {BodySize(c, n)}
      BY <2>1 DEF HeaderAt
    <2>3. n \in 1 .. Len(b) /\ n + 1 \in 1 .. Len(b)
      BY <1>1
    <2>4. b[n] \in Nat /\ b[n + 1] \in Nat
      BY <2>3, ElementOfSeq
    <2>5. BodySize(c, n) = b[n + 1] - b[n] - kHeadSize
      BY DEF BodySize
    <2>. QED
      BY <2>2, <2>4, <2>5, <1>2, BodyAssumption, HeadAssumption
  <1>. QED
    BY <1>3, <1>4

-----------------------------------------------------------------------------
(* Events *)

LEMMA AheadFacts ==
    ASSUME NEW m \in Nat, NEW r, DOMAIN r = 1 .. m
    PROVE  /\ \A n : IsFiniteSet(Ahead(n, r)) /\ Cardinality(Ahead(n, r)) \in Nat
           /\ \A n \in 1 .. m : r[n].is = {} => Ahead(n + 1, r) = Ahead(n, r)
           /\ \A n \in 1 .. m : r[n].is # {} =>
                 Cardinality(Ahead(n + 1, r)) = Cardinality(Ahead(n, r)) - 1
  <1>1. \A n : IsFiniteSet(Ahead(n, r)) /\ Cardinality(Ahead(n, r)) \in Nat
    <2>1. \A n : Ahead(n, r) \in SUBSET (1 .. m)
      BY DEF Ahead
    <2>2. IsFiniteSet(1 .. m)
      BY FS_Interval
    <2>. QED
      BY <2>1, <2>2, FS_Subset, FS_CardinalityType
  <1>2. ASSUME NEW n \in 1 .. m
        PROVE  Ahead(n + 1, r) = Ahead(n, r) \ {n}
    <2>1. \A j \in 1 .. m : j >= n + 1 <=> j >= n /\ j # n
      OBVIOUS
    <2>. QED
      BY <2>1 DEF Ahead
  <1>3. ASSUME NEW n \in 1 .. m
        PROVE  n \in Ahead(n, r) <=> r[n].is # {}
    <2>1. n >= n
      OBVIOUS
    <2>. QED
      BY <2>1 DEF Ahead
  <1>4. \A n \in 1 .. m : r[n].is = {} => Ahead(n + 1, r) = Ahead(n, r)
    BY <1>2, <1>3
  <1>5. \A n \in 1 .. m : r[n].is # {} =>
           Cardinality(Ahead(n + 1, r)) = Cardinality(Ahead(n, r)) - 1
    BY <1>1, <1>2, <1>3, FS_RemoveElement
  <1>. QED
    BY <1>1, <1>4, <1>5

LEMMA SlotFacts ==
    ASSUME TypeOK
    PROVE  /\ kMaxFiles \in Nat \ {0} /\ Slots = 1 .. kMaxFiles - 1
           /\ kMaxFiles - 1 \in Nat /\ DOMAIN revents = Slots
           /\ maxi \in 0 .. kMaxFiles - 1 /\ at \in 1 .. kMaxFiles
           /\ \A n : Cardinality(Ahead(n, revents)) \in Nat
  <1>1. /\ kMaxFiles \in Nat \ {0} /\ Slots = 1 .. kMaxFiles - 1
        /\ kMaxFiles - 1 \in Nat /\ DOMAIN revents = Slots
        /\ maxi \in 0 .. kMaxFiles - 1 /\ at \in 1 .. kMaxFiles
    BY LimitsAssumption DEF TypeOK, Slots
  <1>. QED
    BY <1>1, AheadFacts

\* Looking, the loop sees what poll reported of the client it looks at.
LEMMA InvProperties ==
    ASSUME IInv
    PROVE  EventsCurrent /\ HandledAsSent
  <1>1. HandledAsSent
    <2>1. \A c \in Clients : DOMAIN handled[c] = 1 .. Len(handled[c])
      BY LenProperties DEF IInv, TypeOK
    <2>. QED
      BY <2>1 DEF IInv, Passed, HandledAsSent
  <1>2. ASSUME Looking, Client # None
        PROVE  revents[at].of # Unset /\ (revents[at].is # {} => revents[at].of = Client)
    <2>1. /\ at \in Slots /\ pc = "table" /\ nready > 0 /\ Following = at /\ TypeOK
          /\ nready \in Int /\ at >= at
      BY <1>2, SlotFacts DEF IInv, TypeOK, Looking, Following, Serving
    <2>2. revents[at].is # {} => revents[at].of = Client
      BY <2>1 DEF IInv, Round, Client
    <2>3. ASSUME revents[at].of = Unset
          PROVE  FALSE
      <3>1. ~ AllPolled
        BY <1>2, <2>1, <2>3 DEF AllPolled, Client
      <3>2. \A k \in Slots : revents[k].is # {} => k < at
        BY <2>1, <2>3 DEF IInv, Round
      <3>3. Ahead(at, revents) = {}
        BY <2>1, <3>2, SlotFacts DEF Ahead
      <3>4. nready <= 0
        BY <2>1, <3>1, <3>3, FS_EmptySet DEF IInv, Round
      <3>. QED
        BY <2>1, <3>4
    <2>. QED
      BY <2>2, <2>3
  <1>. QED
    BY <1>1, <1>2 DEF EventsCurrent

-----------------------------------------------------------------------------
(* What most steps leave alone *)

\* A step that touches no stream, no slot and no client's place.
LEMMA Quiet ==
    ASSUME IInv, TypeOK', Round', AtClient',
           UNCHANGED <<kMaxFiles, slot, have, maxi, peer, backlog, bounds, rcvd, handled>>
    PROVE  IInv'
  <1>1. Slots' = Slots /\ Waiting' = Waiting
    BY DEF Slots, Waiting
  <1>2. \A c \in Clients : Stream(c)' /\ Passed(c)'
    BY DEF IInv, Stream, Passed, Written, BodySize
  <1>3. \A i \in Slots : Buffered(i)'
    BY DEF IInv, Buffered
  <1>4. Seats'
    BY <1>1 DEF IInv, Seats
  <1>. QED
    BY <1>1, <1>2, <1>3, <1>4 DEF IInv

LEMMA RoundSame ==
    ASSUME IInv, UNCHANGED <<kMaxFiles, slot, maxi, revents, nready, at, pc>>
    PROVE  Round' /\ AtClient'
  <1>1. Slots' = Slots /\ Following' = Following /\ (Serving' <=> Serving)
    BY DEF Slots, Following, Serving
  <1>2. AllPolled' <=> AllPolled
    BY <1>1 DEF AllPolled
  <1>. QED
    BY <1>1, <1>2 DEF IInv, Round, AtClient

\* A step of the loop over the table that counts what it leaves behind.
LEMMA RoundOn ==
    ASSUME IInv, TypeOK', UNCHANGED <<kMaxFiles, revents>>,
           pc \in {"table", "parse", "hup"}, pc' \in {"table", "parse", "hup"},
           Following' >= Following,
           \A j \in Slots : slot'[j] = slot[j] \/ (j < Following' /\ slot'[j] = None),
           nready' - Cardinality(Ahead(Following', revents))
               <= nready - Cardinality(Ahead(Following, revents))
    PROVE  Round'
  <1>1. Slots' = Slots /\ TypeOK /\ Round /\ nready \in Int /\ nready' \in Int
    BY DEF Slots, IInv, TypeOK
  <1>2. /\ Following \in Int /\ Following' \in Int /\ Slots \subseteq Int
    BY <1>1, SlotFacts DEF Following, TypeOK
  <1>3. AllPolled => AllPolled'
    BY <1>1 DEF AllPolled
  <1>4. ASSUME nready <= Cardinality(Ahead(Following, revents))
        PROVE  nready' <= Cardinality(Ahead(Following', revents))
    <2>1. /\ Cardinality(Ahead(Following, revents)) \in Nat
          /\ Cardinality(Ahead(Following', revents)) \in Nat
      BY <1>1, SlotFacts
    <2>. QED
      BY <1>1, <1>4, <2>1
  <1>5. ASSUME NEW j \in Slots, j >= Following', revents[j].is # {}
        PROVE  slot'[j] # None /\ revents[j].of = slot'[j]
    <2>1. j >= Following /\ ~ (j < Following')
      BY <1>2, <1>5
    <2>. QED
      BY <1>1, <1>5, <2>1 DEF Round
  <1>6. \A j, k \in Slots : revents[j].of = Unset /\ revents[k].is # {} => k < j
    BY <1>1 DEF Round
  <1>7. AllPolled' \/ nready' <= Cardinality(Ahead(Following', revents))
    BY <1>1, <1>3, <1>4 DEF Round
  <1>. QED
    BY <1>1, <1>5, <1>6, <1>7 DEF Round

-----------------------------------------------------------------------------
(* The clients *)

LEMMA ConnectsStep ==
    ASSUME IInv, NEW c \in Clients, ClientConnects(c)
    PROVE  IInv'
  <1>1. /\ TypeOK /\ Seats /\ peer[c] = "new" /\ c \notin Waiting
        /\ peer' = [peer EXCEPT ![c] = "open"] /\ backlog' = Append(backlog, c)
        /\ UNCHANGED <<kMaxFiles, running, lisSock, slot, have, revents, nready, maxi, at, pc,
                       spc, bounds, rcvd, inbox, handled>>
    BY DEF IInv, Seats, ClientConnects, loopvars
  <1>2. /\ rcvd[c] = 0 /\ handled[c] = <<>> /\ \A i \in Slots : slot[i] # c
        /\ Slots' = Slots
    BY <1>1 DEF Seats, Slots
  <1>3. /\ peer'[c] = "open" /\ \A d \in Clients \ {c} : peer'[d] = peer[d]
    BY <1>1 DEF TypeOK
  <1>. PICK n \in Nat : n = Len(backlog)
    BY <1>1, LenProperties DEF TypeOK
  <1>4. /\ backlog' \in Seq(Clients) /\ Len(backlog') = n + 1 /\ backlog'[n + 1] = c
        /\ \A i \in 1 .. n : backlog'[i] = backlog[i] /\ backlog[i] \in Clients
    BY <1>1, AppendProperties, ElementOfSeq DEF TypeOK
  <1>5. Waiting' = Waiting \cup {c}
    <2>1. 1 .. n + 1 = (1 .. n) \cup {n + 1}
      OBVIOUS
    <2>. QED
      BY <1>4, <2>1 DEF Waiting
  <1>6. TypeOK'
    BY <1>1, <1>2, <1>4 DEF TypeOK
  <1>7. ASSUME NEW d \in Clients
        PROVE  Stream(d)' /\ Passed(d)'
    <2>1. Stream(d)'
      BY <1>1 DEF IInv, Stream, Written
    <2>2. CASE d = c
      <3>1. Len(bounds[c]) > 0 /\ Len(bounds[c]) \in Nat /\ Len(<<>>) = 0
        BY <1>1, LenProperties DEF IInv, Stream, Cut, TypeOK
      <3>2. Len(handled'[c]) = 0 /\ 0 <= Len(bounds[c]) - 1
        BY <1>1, <1>2, <3>1
      <3>. QED
        BY <1>1, <2>1, <2>2, <3>2 DEF Passed
    <2>3. CASE d # c
      BY <1>1, <1>3, <2>1, <2>3 DEF IInv, Passed, BodySize
    <2>. QED
      BY <2>2, <2>3
  <1>8. ASSUME NEW i \in Slots
        PROVE  Buffered(i)'
    <2>1. slot[i] # None => slot[i] \in Clients \ {c}
      BY <1>1, <1>2 DEF TypeOK
    <2>. QED
      BY <1>1, <1>3, <2>1 DEF IInv, Buffered
  <1>9. Seats'
    <2>1. ASSUME NEW i \in 1 .. n + 1, NEW j \in 1 .. n + 1, backlog'[i] = backlog'[j]
          PROVE  i = j
      <3>1. \A k \in 1 .. n : backlog[k] # c
        BY <1>1 DEF Waiting
      <3>2. CASE i \in 1 .. n /\ j \in 1 .. n
        BY <1>1, <1>4, <2>1, <3>2 DEF Seats
      <3>3. CASE i = n + 1 \/ j = n + 1
        BY <1>4, <2>1, <3>1, <3>3
      <3>. QED
        BY <3>2, <3>3
    <2>2. \A d \in Waiting' : peer'[d] # "new"
      <3>1. Waiting \subseteq Clients
        BY <1>4 DEF Waiting
      <3>. QED
        BY <1>1, <1>3, <1>5, <3>1 DEF Seats
    <2>3. ASSUME NEW d \in Clients, peer'[d] = "new" \/ d \in Waiting'
          PROVE  rcvd[d] = 0 /\ handled[d] = <<>> /\ \A i \in Slots : slot[i] # d
      BY <1>1, <1>2, <1>3, <1>5, <2>3 DEF Seats
    <2>4. \A i \in Slots : i > maxi => slot[i] = None
      BY <1>1 DEF Seats
    <2>5. \A i, j \in Slots : slot[i] # None /\ slot[i] = slot[j] => i = j
      BY <1>1 DEF Seats
    <2>. QED
      BY <1>1, <1>2, <1>4, <2>1, <2>2, <2>3, <2>4, <2>5 DEF Seats
  <1>10. Round' /\ AtClient'
    BY <1>1, RoundSame
  <1>. QED
    BY <1>2, <1>6, <1>7, <1>8, <1>9, <1>10 DEF IInv

LEMMA WritesStep ==
    ASSUME IInv, NEW c \in Clients, ClientWrites(c)
    PROVE  IInv'
  <1>1. /\ TypeOK /\ Seats /\ peer[c] = "open"
        /\ UNCHANGED <<kMaxFiles, running, lisSock, slot, have, revents, nready, maxi, at, pc,
                       spc, peer, backlog, rcvd, inbox, handled>>
        /\ \E body \in BodySizes :
              bounds' = [bounds EXCEPT ![c] =
                            Append(bounds[c], Written(c) + kHeadSize + body)]
    BY DEF IInv, ClientWrites, loopvars
  <1>. PICK b \in Seq(Nat) : b = bounds[c]
    BY <1>1 DEF TypeOK
  <1>. PICK body \in BodySizes :
          bounds' = [bounds EXCEPT ![c] = Append(b, b[Len(b)] + kHeadSize + body)]
    BY <1>1 DEF Written
  <1>. PICK w : w = Append(b, b[Len(b)] + kHeadSize + body)
    OBVIOUS
  <1>2. Cut(b) /\ Len(b) \in Nat
    BY LenProperties DEF IInv, Stream
  <1>3. /\ w \in Seq(Nat) /\ Cut(w) /\ Len(w) = Len(b) + 1
        /\ \A i \in 1 .. Len(b) : w[i] = b[i]
        /\ w[Len(w)] >= b[Len(b)]
    <2>1. \A x : x = Append(b, b[Len(b)] + kHeadSize + body) =>
             /\ x \in Seq(Nat) /\ Cut(x) /\ Len(x) = Len(b) + 1
             /\ \A i \in 1 .. Len(b) : x[i] = b[i]
             /\ x[Len(x)] >= b[Len(b)]
      BY <1>2, CutWrite, Zenon
    <2>. QED
      BY <2>1
  <1>4. bounds'[c] = w /\ \A d \in Clients \ {c} : bounds'[d] = bounds[d]
    BY <1>1 DEF TypeOK
  <1>5. TypeOK'
    BY <1>1, <1>3, <1>4 DEF TypeOK, Slots
  <1>6. Len(handled[c]) \in Nat /\ Len(handled[c]) <= Len(b) - 1
    BY <1>1, LenProperties DEF IInv, Passed, TypeOK
  <1>7. ASSUME NEW d \in Clients
        PROVE  Stream(d)' /\ Passed(d)'
    <2>1. CASE d = c
      <3>1. Stream(c)'
        <4>1. rcvd[c] <= b[Len(b)] /\ rcvd[c] \in Nat
          BY <1>1 DEF IInv, Stream, Written, TypeOK
        <4>2. b[Len(b)] \in Nat /\ w[Len(w)] \in Nat
          BY <1>2, <1>3, ElementOfSeq DEF Cut
        <4>. QED
          BY <1>1, <1>3, <1>4, <4>1, <4>2 DEF Stream, Written
      <3>2. ASSUME NEW k \in 1 .. Len(handled[c])
            PROVE  handled[c][k] = [at |-> w[k], size |-> w[k + 1] - w[k] - kHeadSize]
        <4>1. k \in 1 .. Len(b) /\ k + 1 \in 1 .. Len(b)
          BY <1>2, <1>6
        <4>2. handled[c][k] = [at |-> b[k], size |-> b[k + 1] - b[k] - kHeadSize]
          BY <1>1 DEF IInv, Passed, BodySize
        <4>. QED
          BY <1>3, <4>1, <4>2
      <3>3. Len(handled[c]) <= Len(w) - 1
        BY <1>2, <1>3, <1>6
      <3>. QED
        BY <1>1, <1>4, <2>1, <3>1, <3>2, <3>3 DEF Passed, BodySize
    <2>2. CASE d # c
      BY <1>1, <1>4, <2>2 DEF IInv, Stream, Passed, Written, BodySize
    <2>. QED
      BY <2>1, <2>2
  <1>8. ASSUME NEW i \in Slots
        PROVE  Buffered(i)'
    <2>1. CASE slot[i] = c
      <3>1. Len(handled[c]) + 1 \in 1 .. Len(b)
        BY <1>2, <1>6
      <3>2. c # None
        BY NoneAssumption
      <3>. QED
        BY <1>1, <1>3, <1>4, <2>1, <3>1, <3>2 DEF IInv, Buffered
    <2>2. CASE slot[i] # c
      <3>1. slot[i] # None => slot[i] \in Clients \ {c}
        BY <1>1, <2>2 DEF TypeOK
      <3>. QED
        BY <1>1, <1>4, <3>1 DEF IInv, Buffered
    <2>. QED
      BY <2>1, <2>2
  <1>9. Slots' = Slots /\ Waiting' = Waiting
    BY <1>1 DEF Slots, Waiting
  <1>10. Seats'
    BY <1>1, <1>9 DEF Seats
  <1>11. Round' /\ AtClient'
    BY <1>1, RoundSame
  <1>. QED
    BY <1>5, <1>7, <1>8, <1>9, <1>10, <1>11 DEF IInv

LEMMA ReadsStep ==
    ASSUME IInv, NEW c \in Clients, ClientReads(c)
    PROVE  IInv'
  <1>1. /\ TypeOK /\ inbox' = [inbox EXCEPT ![c] = 0]
        /\ UNCHANGED <<kMaxFiles, running, lisSock, slot, have, revents, nready, maxi, at, pc,
                       spc, peer, backlog, bounds, rcvd, handled>>
    BY DEF IInv, ClientReads, loopvars
  <1>2. TypeOK'
    <2>1. inbox' \in [Clients -> 0 .. Room]
      BY <1>1, RoomAssumption DEF TypeOK
    <2>. QED
      BY <1>1, <2>1 DEF TypeOK, Slots
  <1>3. Round' /\ AtClient'
    BY <1>1, RoundSame
  <1>. QED
    BY <1>1, <1>2, <1>3, Quiet

\* A client that is open no more.
LEMMA Gone ==
    ASSUME IInv, NEW c \in Clients, peer[c] # "new",
           NEW to, to \notin {"new", "open"}, peer' = [peer EXCEPT ![c] = to],
           Waiting' \subseteq Waiting,
           \A i, j \in 1 .. Len(backlog') : backlog'[i] = backlog'[j] => i = j,
           UNCHANGED <<kMaxFiles, slot, have, maxi, bounds, rcvd, handled>>
    PROVE  /\ \A d \in Clients : Stream(d)' /\ Passed(d)'
           /\ \A i \in Slots : Buffered(i)'
           /\ Seats' /\ Slots' = Slots
  <1>1. TypeOK /\ Seats /\ Slots' = Slots
    BY DEF IInv, Slots
  <1>2. peer'[c] = to /\ \A d \in Clients \ {c} : peer'[d] = peer[d]
    BY <1>1 DEF TypeOK
  <1>3. ASSUME NEW d \in Clients
        PROVE  Stream(d)' /\ Passed(d)'
    BY <1>2 DEF IInv, Stream, Passed, Written, BodySize
  <1>4. ASSUME NEW i \in Slots
        PROVE  Buffered(i)'
    <2>1. slot[i] # None => slot[i] \in Clients
      BY <1>1 DEF TypeOK
    <2>. QED
      BY <1>2, <2>1 DEF IInv, Buffered
  <1>5. Seats'
    <2>1. \A d \in Waiting' : peer'[d] # "new"
      <3>1. Waiting \subseteq Clients
        BY <1>1, ElementOfSeq DEF TypeOK, Waiting
      <3>. QED
        BY <1>1, <1>2, <3>1 DEF Seats
    <2>2. ASSUME NEW d \in Clients, peer'[d] = "new" \/ d \in Waiting'
          PROVE  rcvd[d] = 0 /\ handled[d] = <<>> /\ \A i \in Slots : slot[i] # d
      BY <1>1, <1>2, <2>2 DEF Seats
    <2>. QED
      BY <1>1, <2>1, <2>2 DEF Seats
  <1>. QED
    BY <1>1, <1>3, <1>4, <1>5

LEMMA ClosesStep ==
    ASSUME IInv, NEW c \in Clients, ClientCloses(c)
    PROVE  IInv'
  <1>1. /\ TypeOK /\ peer[c] = "open" /\ inbox' = [inbox EXCEPT ![c] = 0]
        /\ peer' = [peer EXCEPT ![c] = "closed"]
        /\ UNCHANGED <<kMaxFiles, running, lisSock, slot, have, revents, nready, maxi, at, pc,
                       spc, backlog, bounds, rcvd, handled>>
    BY DEF IInv, ClientCloses, loopvars
  <1>2. TypeOK'
    <2>1. inbox' \in [Clients -> 0 .. Room]
      BY <1>1, RoomAssumption DEF TypeOK
    <2>. QED
      BY <1>1, <2>1 DEF TypeOK, Slots
  <1>3. Round' /\ AtClient'
    BY <1>1, RoundSame
  <1>4. Waiting' = Waiting
    BY <1>1 DEF Waiting
  <1>5. \A i, j \in 1 .. Len(backlog') : backlog'[i] = backlog'[j] => i = j
    BY <1>1 DEF IInv, Seats
  <1>. QED
    BY <1>1, <1>2, <1>3, <1>4, <1>5, Gone DEF IInv

\* The client that has waited longest waits no more.
LEMMA TakenFromBacklog ==
    ASSUME IInv, backlog # <<>>, backlog' = Tail(backlog)
    PROVE  /\ Head(backlog) \in Clients /\ Head(backlog) \in Waiting
           /\ backlog' \in Seq(Clients)
           /\ Waiting' \subseteq Waiting \ {Head(backlog)}
           /\ \A i, j \in 1 .. Len(backlog') : backlog'[i] = backlog'[j] => i = j
  <1>1. TypeOK /\ Seats /\ backlog \in Seq(Clients)
    BY DEF IInv, TypeOK
  <1>. PICK n \in Nat \ {0} : n = Len(backlog)
    BY <1>1, EmptySeq
  <1>2. /\ Head(backlog) \in Clients /\ Head(backlog) = backlog[1]
        /\ backlog' \in Seq(Clients) /\ Len(backlog') = n - 1
        /\ \A i \in 1 .. n - 1 : backlog'[i] = backlog[i + 1]
    BY <1>1, HeadTailProperties
  <1>3. \A i \in 1 .. n - 1 : i + 1 \in 1 .. n /\ i + 1 # 1
    OBVIOUS
  <1>4. 1 \in 1 .. n
    OBVIOUS
  <1>5. \A i, j \in 1 .. n : backlog[i] = backlog[j] => i = j
    BY <1>1 DEF Seats
  <1>6. Waiting' \subseteq Waiting \ {Head(backlog)}
    <2>1. ASSUME NEW i \in 1 .. n - 1
          PROVE  backlog'[i] \in Waiting /\ backlog'[i] # Head(backlog)
      BY <1>2, <1>3, <1>4, <1>5 DEF Waiting
    <2>. QED
      BY <1>2, <2>1 DEF Waiting
  <1>7. ASSUME NEW i \in 1 .. n - 1, NEW j \in 1 .. n - 1, backlog'[i] = backlog'[j]
        PROVE  i = j
    <2>1. i + 1 = j + 1
      BY <1>2, <1>3, <1>5, <1>7
    <2>. QED
      BY <2>1
  <1>. QED
    BY <1>2, <1>4, <1>6, <1>7 DEF Waiting

LEMMA OtherRunStep ==
    ASSUME IInv, OtherRunAccepts
    PROVE  IInv'
  <1>1. /\ TypeOK /\ Seats /\ backlog # <<>> /\ backlog' = Tail(backlog)
        /\ peer' = [peer EXCEPT ![Head(backlog)] = "elsewhere"]
        /\ UNCHANGED <<kMaxFiles, running, lisSock, slot, have, revents, nready, maxi, at, pc,
                       spc, bounds, rcvd, inbox, handled>>
    BY DEF IInv, OtherRunAccepts, loopvars
  <1>2. /\ Head(backlog) \in Clients /\ Head(backlog) \in Waiting
        /\ backlog' \in Seq(Clients)
        /\ Waiting' \subseteq Waiting \ {Head(backlog)}
        /\ \A i, j \in 1 .. Len(backlog') : backlog'[i] = backlog'[j] => i = j
    BY <1>1, TakenFromBacklog
  <1>3. TypeOK'
    BY <1>1, <1>2 DEF TypeOK, Slots
  <1>4. Round' /\ AtClient'
    BY <1>1, RoundSame
  <1>5. peer[Head(backlog)] # "new" /\ Waiting' \subseteq Waiting
    BY <1>1, <1>2 DEF Seats
  <1>6. /\ \A d \in Clients : Stream(d)' /\ Passed(d)'
        /\ \A i \in Slots : Buffered(i)'
        /\ Seats' /\ Slots' = Slots
    <2>. PICK c \in Clients : c = Head(backlog)
      BY <1>2
    <2>. PICK to \in {"elsewhere"} : to = "elsewhere"
      OBVIOUS
    <2>. QED
      BY <1>1, <1>2, <1>5, Gone
  <1>. QED
    BY <1>3, <1>4, <1>6 DEF IInv

-----------------------------------------------------------------------------
(* Run: poll and accept *)

LEMMA StartStep ==
    ASSUME IInv, Start
    PROVE  IInv'
  <1>1. /\ TypeOK /\ pc \in {"start", "flag"} /\ pc' \in {"flag", "poll"}
        /\ running' \in BOOLEAN
        /\ UNCHANGED <<kMaxFiles, lisSock, slot, have, revents, nready, maxi, at, spc, peer,
                       backlog, bounds, rcvd, inbox, handled>>
    BY DEF IInv, Start, loopvars, clientvars, TypeOK
  <1>2. TypeOK'
    BY <1>1 DEF TypeOK, Slots
  <1>3. Round' /\ AtClient'
    <2>1. \A j \in Slots : revents[j] = NotPolled
      BY <1>1 DEF IInv, Round
    <2>2. NotPolled' = NotPolled /\ Slots' = Slots
      BY <1>1 DEF NotPolled, Slots
    <2>. QED
      BY <1>1, <2>1, <2>2 DEF Round, AtClient, Serving
  <1>. QED
    BY <1>1, <1>2, <1>3, Quiet

LEMMA PollStep ==
    ASSUME IInv, Poll
    PROVE  IInv'
  <1>. DEFINE busy == {i \in Slots : i <= maxi /\ Ready(slot[i]) # {}}
              r == [i \in Slots |-> IF i <= maxi
                                    THEN [of |-> slot[i], is |-> Ready(slot[i])]
                                    ELSE revents[i]]
  <1>1. /\ TypeOK /\ Seats /\ Round /\ pc = "poll"
        /\ nready' = Cardinality(busy)
                        + (IF ~ lisSock \/ backlog # <<>> THEN 1 ELSE 0)
        /\ revents' = r /\ at' = 1
        /\ pc' = IF lisSock /\ backlog # <<>> THEN "accept" ELSE "table"
        /\ UNCHANGED <<kMaxFiles, running, lisSock, slot, have, maxi, spc, peer,
                       backlog, bounds, rcvd, inbox, handled>>
    BY DEF IInv, Poll, clientvars
  <1>2. Slots' = Slots /\ Slots \subseteq Nat /\ DOMAIN r = Slots
    BY <1>1, SlotFacts DEF Slots
  <1>3. \A j \in Slots : revents[j].of = Unset /\ revents[j].is = {}
    BY <1>1 DEF Round, NotPolled
  <1>4. /\ \A j \in Slots : slot[j] # Unset /\ (slot[j] # None => j <= maxi)
        /\ Ready(None) = {}
    <2>1. \A j \in Slots : slot[j] # Unset
      BY <1>1, NoneAssumption DEF TypeOK
    <2>2. \A j \in Slots : slot[j] # None => j <= maxi
      <3>1. \A j \in Slots : j > maxi \/ j <= maxi
        BY <1>1, <1>2, SlotFacts
      <3>. QED
        BY <1>1, <3>1 DEF Seats
    <2>. QED
      BY <2>1, <2>2 DEF Ready
  <1>5. \A j \in Slots : /\ j <= maxi => r[j].of = slot[j] /\ r[j].is = Ready(slot[j])
                         /\ ~ (j <= maxi) => r[j].of = Unset /\ r[j].is = {}
    BY <1>3
  <1>6. busy = Ahead(1, r)
    <2>1. \A j \in Slots : j >= 1
      BY <1>1, SlotFacts
    <2>2. \A j \in Slots : r[j].is # {} <=> j <= maxi /\ Ready(slot[j]) # {}
      BY <1>5
    <2>. QED
      BY <1>2, <2>1, <2>2 DEF Ahead
  <1>7. Cardinality(Ahead(1, r)) \in Nat
    BY <1>1, <1>2, SlotFacts, AheadFacts
  <1>. HIDE DEF busy, r
  <1>8. TypeOK'
    <2>1. \A c : Ready(c) \in SUBSET {"in", "hup"}
      BY DEF Ready
    <2>2. r \in [Slots -> [of : Clients \cup {None, Unset}, is : SUBSET {"in", "hup"}]]
      BY <1>1, <2>1 DEF TypeOK, r
    <2>3. nready' \in Int /\ at' \in 1 .. kMaxFiles
      BY <1>1, <1>6, <1>7, SlotFacts
    <2>. QED
      BY <1>1, <1>2, <2>2, <2>3 DEF TypeOK
  <1>9. Round'
    <2>1. \A j, k \in Slots : r[j].of = Unset /\ r[k].is # {} => k < j
      <3>1. ASSUME NEW j \in Slots, NEW k \in Slots, r[j].of = Unset, r[k].is # {}
            PROVE  k < j
        <4>1. ~ (j <= maxi) /\ k <= maxi
          BY <3>1, <1>4, <1>5
        <4>. QED
          BY <4>1, <1>1, <1>2, SlotFacts
      <3>. QED
        BY <3>1
    <2>2. \A j \in Slots : r[j].is # {} => slot[j] # None /\ r[j].of = slot[j]
      BY <1>4, <1>5
    <2>3. \A j \in Slots : slot[j] # None => r[j].of # Unset
      BY <1>4, <1>5
    <2>4. AllPolled'
      BY <1>1, <1>2, <2>3 DEF AllPolled
    <2>5. pc' = "accept" => nready' - 1 <= Cardinality(Ahead(1, r))
      BY <1>1, <1>6, <1>7
    <2>. QED
      BY <1>1, <1>2, <2>1, <2>2, <2>4, <2>5 DEF Round
  <1>10. AtClient'
    BY <1>1 DEF AtClient, Serving
  <1>. QED
    BY <1>1, <1>8, <1>9, <1>10, Quiet

LEMMA FirstIsThere ==
    ASSUME NEW S, S \subseteq Nat, S # {}
    PROVE  First(S) \in S
  <1>. DEFINE Less == {p \in Nat \X Nat : p[1] < p[2]}
  <1>1. IsWellFoundedOn(Less, Nat)
    BY NatLessThanWellFounded DEF OpToRel
  <1>2. PICK x \in S : \A y \in S : ~ (<<y, x>> \in Less)
    <2>. HIDE DEF Less
    <2>. QED
      BY <1>1, WFMin
  <1>3. ASSUME NEW y \in S
        PROVE  x <= y
    <2>1. x \in Nat /\ y \in Nat /\ <<y, x>> \notin Less
      BY <1>2
    <2>2. <<y, x>> \in Nat \X Nat /\ ~ (<<y, x>>[1] < <<y, x>>[2])
      BY <2>1
    <2>. QED
      BY <2>1, <2>2
  <1>. QED
    BY <1>3 DEF First

LEMMA AcceptStep ==
    ASSUME IInv, Accept
    PROVE  IInv'
  <1>1. /\ TypeOK /\ Seats /\ Round /\ pc = "accept" /\ pc' = "table"
        /\ nready' = nready - 1
        /\ UNCHANGED <<kMaxFiles, running, lisSock, revents, at, spc, bounds, rcvd, inbox,
                       handled>>
    BY DEF IInv, Accept
  <1>2. /\ Slots' = Slots /\ Slots \subseteq Nat /\ kMaxFiles - 1 \in Nat
        /\ at = 1 /\ AllPolled /\ nready' <= Cardinality(Ahead(1, revents))
        /\ nready' \in Int
    BY <1>1, SlotFacts DEF Slots, Round, TypeOK
  <1>3. AtClient' /\ Following' = 1 /\ Following = 1
    BY <1>1, <1>2 DEF AtClient, Serving, Following
  <1>4. /\ \A j, k \in Slots : revents[j].of = Unset /\ revents[k].is # {} => k < j
        /\ \A j \in Slots : revents[j].is # {} => slot[j] # None /\ revents[j].of = slot[j]
    <2>1. \A j \in Slots : j >= 1
      BY <1>1, SlotFacts
    <2>. QED
      BY <1>1, <1>3, <2>1 DEF Round
  <1>5. ASSUME FreeSlots # {}, backlog # <<>>,
               Seat(First(FreeSlots), Head(backlog)), backlog' = Tail(backlog),
               UNCHANGED peer
        PROVE  IInv'
    <2>. PICK i : i = First(FreeSlots)
      OBVIOUS
    <2>. PICK c \in Clients : c = Head(backlog)
      BY <1>5, TakenFromBacklog
    <2>1. i \in Slots /\ slot[i] = None /\ c # None
      BY <1>2, <1>5, FirstIsThere, NoneAssumption DEF FreeSlots
    <2>2. /\ slot' = [slot EXCEPT ![i] = c] /\ have' = [have EXCEPT ![i] = 0]
          /\ maxi' = IF i > maxi THEN i ELSE maxi
      BY <1>5 DEF Seat
    <2>3. /\ c \in Waiting /\ backlog' \in Seq(Clients) /\ Waiting' \subseteq Waiting \ {c}
          /\ \A j, k \in 1 .. Len(backlog') : backlog'[j] = backlog'[k] => j = k
      BY <1>5, TakenFromBacklog
    <2>4. /\ slot'[i] = c /\ have'[i] = 0
          /\ \A j \in Slots \ {i} : slot'[j] = slot[j] /\ have'[j] = have[j]
      BY <1>1, <2>1, <2>2 DEF TypeOK
    <2>5. peer[c] # "new" /\ rcvd[c] = 0 /\ handled[c] = <<>> /\ \A j \in Slots : slot[j] # c
      BY <1>1, <2>3 DEF Seats
    <2>6. maxi' \in 0 .. kMaxFiles - 1 /\ i <= maxi' /\ maxi <= maxi'
      <3>1. i \in 1 .. kMaxFiles - 1 /\ maxi \in 0 .. kMaxFiles - 1
        BY <1>1, <2>1, SlotFacts
      <3>. QED
        BY <1>2, <2>2, <3>1
    <2>7. TypeOK'
      <3>1. slot' \in [Slots -> Clients \cup {None}] /\ have' \in [Slots -> 0 .. BufferSize]
        <4>1. 0 \in 0 .. BufferSize
          BY BufferAssumption
        <4>2. have \in [Slots -> 0 .. BufferSize] /\ slot \in [Slots -> Clients \cup {None}]
          BY <1>1 DEF TypeOK
        <4>3. have' \in [Slots -> 0 .. BufferSize]
          BY <2>2, <4>1, <4>2
        <4>. QED
          BY <2>2, <4>2, <4>3
      <3>. QED
        BY <1>1, <1>2, <1>5, <2>3, <2>6, <3>1 DEF TypeOK
    <2>8. \A d \in Clients : Stream(d)' /\ Passed(d)'
      BY <1>1, <1>5 DEF IInv, Stream, Passed, Written, BodySize
    <2>9. ASSUME NEW j \in Slots
          PROVE  Buffered(j)'
      <3>1. CASE j = i
        <4>1. bounds[c][1] = 0 /\ Len(<<>>) = 0
          BY DEF IInv, Stream, Cut
        <4>. QED
          BY <1>1, <2>4, <2>5, <3>1, <4>1 DEF Buffered
      <3>2. CASE j # i
        BY <1>1, <1>5, <2>4, <3>2 DEF IInv, Buffered
      <3>. QED
        BY <3>1, <3>2
    <2>10. Seats'
      <3>1. ASSUME NEW j \in Slots, j > maxi'
            PROVE  slot'[j] = None
        <4>1. j # i /\ j > maxi
          BY <1>1, <1>2, <2>1, <2>6, <3>1, SlotFacts
        <4>. QED
          BY <1>1, <2>4, <4>1 DEF Seats
      <3>2. ASSUME NEW j \in Slots, NEW k \in Slots, slot'[j] # None, slot'[j] = slot'[k]
            PROVE  j = k
        BY <1>1, <2>4, <2>5, <3>2 DEF Seats
      <3>3. \A d \in Waiting' : peer[d] # "new"
        BY <1>1, <2>3 DEF Seats
      <3>4. ASSUME NEW d \in Clients, peer[d] = "new" \/ d \in Waiting'
            PROVE  rcvd[d] = 0 /\ handled[d] = <<>> /\ \A j \in Slots : slot'[j] # d
        <4>1. d # c /\ (peer[d] = "new" \/ d \in Waiting)
          BY <2>3, <2>5, <3>4
        <4>. QED
          BY <1>1, <2>4, <4>1 DEF Seats
      <3>. QED
        BY <1>1, <1>2, <1>5, <2>3, <3>1, <3>2, <3>3, <3>4 DEF Seats
    <2>11. Round'
      <3>1. \A j \in Slots : revents[j].is # {} => slot'[j] # None /\ revents[j].of = slot'[j]
        BY <1>4, <2>1, <2>4
      <3>. QED
        BY <1>1, <1>2, <1>3, <1>4, <3>1 DEF Round
    <2>. QED
      BY <1>2, <1>3, <2>7, <2>8, <2>9, <2>10, <2>11 DEF IInv
  <1>6. ASSUME UNCHANGED <<slot, have, maxi>>
        PROVE  Round'
    BY <1>1, <1>2, <1>3, <1>4, <1>6 DEF Round
  <1>7. ASSUME backlog # <<>>, peer' = [peer EXCEPT ![Head(backlog)] = "refused"],
               backlog' = Tail(backlog), UNCHANGED <<slot, have, maxi>>
        PROVE  IInv'
    <2>. PICK c \in Clients : c = Head(backlog)
      BY <1>7, TakenFromBacklog
    <2>. PICK to \in {"refused"} : to = "refused"
      OBVIOUS
    <2>1. /\ c \in Waiting /\ backlog' \in Seq(Clients) /\ Waiting' \subseteq Waiting
          /\ \A j, k \in 1 .. Len(backlog') : backlog'[j] = backlog'[k] => j = k
      BY <1>7, TakenFromBacklog
    <2>2. /\ \A d \in Clients : Stream(d)' /\ Passed(d)'
          /\ \A i \in Slots : Buffered(i)'
          /\ Seats'
      BY <1>1, <1>7, <2>1, Gone DEF Seats
    <2>3. TypeOK'
      BY <1>1, <1>2, <1>7, <2>1 DEF TypeOK
    <2>. QED
      BY <1>2, <1>3, <1>6, <1>7, <2>2, <2>3 DEF IInv
  <1>8. ASSUME UNCHANGED <<slot, have, maxi, peer, backlog>>
        PROVE  IInv'
    <2>1. TypeOK'
      BY <1>1, <1>2, <1>8 DEF TypeOK
    <2>. QED
      BY <1>1, <1>3, <1>6, <1>8, <2>1, Quiet
  <1>. QED
    BY <1>5, <1>7, <1>8 DEF Accept

-----------------------------------------------------------------------------
(* Run: the loop over the table *)

LEMMA LookingFacts ==
    ASSUME IInv, Looking
    PROVE  /\ at \in Slots /\ at + 1 \in 1 .. kMaxFiles /\ at \in Nat
           /\ pc = "table" /\ nready \in Int /\ Following = at
           /\ \A n : Cardinality(Ahead(n, revents)) \in Nat
           /\ revents[at].is = {} => Ahead(at + 1, revents) = Ahead(at, revents)
           /\ revents[at].is # {} => Cardinality(Ahead(at + 1, revents))
                                         = Cardinality(Ahead(at, revents)) - 1
           /\ revents[at].is # {} => Client # None
  <1>1. TypeOK /\ Round /\ at <= maxi /\ pc = "table" /\ nready \in Int
    BY DEF IInv, Looking, TypeOK
  <1>2. at \in Slots /\ at + 1 \in 1 .. kMaxFiles /\ at \in Nat /\ at >= at
    BY <1>1, SlotFacts
  <1>3. Following = at
    BY <1>1 DEF Following, Serving
  <1>4. /\ \A n : Cardinality(Ahead(n, revents)) \in Nat
        /\ revents[at].is = {} => Ahead(at + 1, revents) = Ahead(at, revents)
        /\ revents[at].is # {} => Cardinality(Ahead(at + 1, revents))
                                      = Cardinality(Ahead(at, revents)) - 1
    BY <1>1, <1>2, SlotFacts, AheadFacts
  <1>5. revents[at].is # {} => Client # None
    BY <1>1, <1>2, <1>3 DEF Round, Client
  <1>. QED
    BY <1>1, <1>2, <1>3, <1>4, <1>5

LEMMA SkipStep ==
    ASSUME IInv, Skip
    PROVE  IInv'
  <1>1. /\ Looking /\ revents[at].is = {} /\ at' = at + 1
        /\ UNCHANGED <<kMaxFiles, running, lisSock, slot, have, revents, nready, maxi,
                       pc, spc, peer, backlog, bounds, rcvd, inbox, handled>>
    BY LookingFacts DEF Skip, clientvars
  <1>2. /\ at \in Nat /\ at + 1 \in 1 .. kMaxFiles /\ pc = "table" /\ Following = at
        /\ Ahead(at + 1, revents) = Ahead(at, revents) /\ nready \in Int
        /\ Cardinality(Ahead(at, revents)) \in Nat
    BY <1>1, LookingFacts
  <1>3. TypeOK'
    BY <1>1, <1>2 DEF IInv, TypeOK, Slots
  <1>4. Following' = at + 1 /\ AtClient'
    BY <1>1, <1>2 DEF Following, Serving, AtClient
  <1>5. Round'
    BY <1>1, <1>2, <1>3, <1>4, RoundOn
  <1>. QED
    BY <1>1, <1>3, <1>4, <1>5, Quiet

LEMMA BufferFullStep ==
    ASSUME IInv, BufferFull
    PROVE  IInv'
  <1>1. /\ Looking /\ revents[at].is # {} /\ at' = at + 1 /\ nready' = nready - 1
        /\ UNCHANGED <<kMaxFiles, running, lisSock, slot, have, revents, maxi,
                       pc, spc, peer, backlog, bounds, rcvd, inbox, handled>>
    BY DEF BufferFull, clientvars
  <1>2. /\ at \in Nat /\ at + 1 \in 1 .. kMaxFiles /\ pc = "table" /\ Following = at
        /\ Cardinality(Ahead(at + 1, revents)) = Cardinality(Ahead(at, revents)) - 1
        /\ nready \in Int /\ Cardinality(Ahead(at, revents)) \in Nat
    BY <1>1, LookingFacts
  <1>3. TypeOK'
    BY <1>1, <1>2 DEF IInv, TypeOK, Slots
  <1>4. Following' = at + 1 /\ AtClient'
    BY <1>1, <1>2 DEF Following, Serving, AtClient
  <1>5. Round'
    BY <1>1, <1>2, <1>3, <1>4, RoundOn
  <1>. QED
    BY <1>1, <1>3, <1>4, <1>5, Quiet

LEMMA RecvStep ==
    ASSUME IInv, Recv
    PROVE  IInv'
  <1>1. /\ TypeOK /\ Seats /\ Looking /\ revents[at].is # {} /\ Client # None
        /\ nready' = nready - 1 /\ have[at] < BufferSize
        /\ pc' \in {"parse", "hup"}
        /\ UNCHANGED <<kMaxFiles, running, lisSock, slot, revents, maxi, at,
                       spc, peer, backlog, bounds, inbox, handled>>
    BY DEF IInv, Recv, clientvars
  <1>2. /\ at \in Slots /\ at \in Nat /\ pc = "table" /\ Following = at
        /\ Cardinality(Ahead(at + 1, revents)) = Cardinality(Ahead(at, revents)) - 1
        /\ nready \in Int /\ Cardinality(Ahead(at, revents)) \in Nat /\ Slots' = Slots
    BY <1>1, LookingFacts DEF Slots
  <1>. PICK c \in Clients : c = slot[at]
    BY <1>1, <1>2 DEF TypeOK, Client
  <1>3. \/ UNCHANGED <<have, rcvd>>
        \/ \E n \in 1 .. BufferSize - have[at] :
              /\ n <= Written(c) - rcvd[c]
              /\ have' = [have EXCEPT ![at] = have[at] + n]
              /\ rcvd' = [rcvd EXCEPT ![c] = rcvd[c] + n]
    BY DEF Recv, Client
  <1>4. \E n \in 0 .. BufferSize - have[at] :
           /\ rcvd[c] + n <= Written(c)
           /\ have' = [have EXCEPT ![at] = have[at] + n]
           /\ rcvd' = [rcvd EXCEPT ![c] = rcvd[c] + n]
    <2>1. /\ have[at] \in 0 .. BufferSize /\ rcvd[c] \in Nat /\ rcvd[c] <= Written(c)
          /\ Written(c) \in Nat
      <3>1. /\ bounds[c] \in Seq(Nat) /\ Len(bounds[c]) > 0
        BY <1>1 DEF TypeOK, IInv, Stream, Cut
      <3>2. Written(c) \in Nat
        BY <3>1, LenProperties, ElementOfSeq DEF Written
      <3>. QED
        BY <1>1, <1>2, <3>2 DEF TypeOK, IInv, Stream
    <2>2. CASE UNCHANGED <<have, rcvd>>
      <3>1. 0 \in 0 .. BufferSize - have[at] /\ rcvd[c] + 0 = rcvd[c] /\ have[at] + 0 = have[at]
        BY <2>1, BufferAssumption
      <3>2. have' = [have EXCEPT ![at] = have[at]] /\ rcvd' = [rcvd EXCEPT ![c] = rcvd[c]]
        BY <1>1, <2>2 DEF TypeOK
      <3>. QED
        BY <2>1, <3>1, <3>2
    <2>3. CASE \E n \in 1 .. BufferSize - have[at] :
                  /\ n <= Written(c) - rcvd[c]
                  /\ have' = [have EXCEPT ![at] = have[at] + n]
                  /\ rcvd' = [rcvd EXCEPT ![c] = rcvd[c] + n]
      <3>. PICK n \in 1 .. BufferSize - have[at] :
              /\ n <= Written(c) - rcvd[c]
              /\ have' = [have EXCEPT ![at] = have[at] + n]
              /\ rcvd' = [rcvd EXCEPT ![c] = rcvd[c] + n]
        BY <2>3
      <3>1. n \in 0 .. BufferSize - have[at] /\ rcvd[c] + n <= Written(c)
        BY <2>1, BufferAssumption
      <3>. QED
        BY <3>1
    <2>. QED
      BY <1>3, <2>2, <2>3
  <1>. PICK n \in 0 .. BufferSize - have[at] :
          /\ rcvd[c] + n <= Written(c)
          /\ have' = [have EXCEPT ![at] = have[at] + n]
          /\ rcvd' = [rcvd EXCEPT ![c] = rcvd[c] + n]
    BY <1>4
  <1>5. /\ have'[at] = have[at] + n /\ rcvd'[c] = rcvd[c] + n
        /\ \A i \in Slots \ {at} : have'[i] = have[i]
        /\ \A d \in Clients \ {c} : rcvd'[d] = rcvd[d]
        /\ have[at] \in 0 .. BufferSize /\ rcvd[c] \in Nat /\ n \in Nat
    BY <1>1, <1>2, BufferAssumption DEF TypeOK
  <1>6. TypeOK'
    <2>1. have[at] + n \in 0 .. BufferSize /\ rcvd[c] + n \in Nat
      BY <1>5, BufferAssumption
    <2>2. have' \in [Slots -> 0 .. BufferSize] /\ rcvd' \in [Clients -> Nat]
      BY <1>1, <2>1 DEF TypeOK
    <2>3. nready' \in Int
      BY <1>1, <1>2
    <2>. QED
      BY <1>1, <1>2, <2>2, <2>3 DEF TypeOK
  <1>7. ASSUME NEW d \in Clients
        PROVE  Stream(d)' /\ Passed(d)'
    <2>1. rcvd'[d] <= Written(d)
      BY <1>5 DEF IInv, Stream
    <2>. QED
      BY <1>1, <2>1 DEF IInv, Stream, Passed, Written, BodySize
  <1>8. ASSUME NEW i \in Slots
        PROVE  Buffered(i)'
    <2>1. CASE i = at
      <3>. PICK h \in Nat : h = have[at]
        BY <1>5
      <3>. PICK start : start = bounds[c][Len(handled[c]) + 1]
        OBVIOUS
      <3>1. h <= rcvd[c] /\ (peer[c] = "open" => rcvd[c] - h = start)
        BY <1>1, <1>2 DEF IInv, Buffered, Client
      <3>2. h + n <= rcvd[c] + n /\ (rcvd[c] + n) - (h + n) = rcvd[c] - h
        BY <1>5, <3>1
      <3>. QED
        BY <1>1, <1>5, <2>1, <3>1, <3>2 DEF Buffered
    <2>2. CASE i # at
      <3>1. slot[i] # None => slot[i] \in Clients \ {c}
        BY <1>1, <1>2, <2>2 DEF TypeOK, Seats
      <3>. QED
        BY <1>1, <1>5, <2>2, <3>1 DEF IInv, Buffered
    <2>. QED
      BY <2>1, <2>2
  <1>9. Waiting' = Waiting
    BY <1>1 DEF Waiting
  <1>10. Seats'
    <2>1. \A d \in Clients : peer[d] = "new" \/ d \in Waiting => rcvd'[d] = rcvd[d]
      BY <1>1, <1>2, <1>5 DEF Seats
    <2>. QED
      BY <1>1, <1>2, <1>9, <2>1 DEF Seats
  <1>11. Following' = at + 1 /\ AtClient'
    BY <1>1 DEF Following, Serving, AtClient, Looking, Client
  <1>12. Round'
    BY <1>1, <1>2, <1>6, <1>11, RoundOn
  <1>. QED
    BY <1>2, <1>6, <1>7, <1>8, <1>10, <1>11, <1>12 DEF IInv

\* What Handle passes to on_request_ is the next frame of a client that stays.
LEMMA HandleStep ==
    ASSUME IInv, Handle
    PROVE  IInv'
  <1>1. /\ TypeOK /\ Seats /\ pc = "parse" /\ Serving /\ Client # None /\ at <= maxi
        /\ have[at] > kHeadSize
        /\ pc' \in {"parse", "hup"}
        /\ UNCHANGED <<kMaxFiles, running, lisSock, slot, revents, nready, maxi, at,
                       spc, peer, bounds, backlog, rcvd>>
    BY DEF IInv, Handle, AtClient, Serving, Client
  <1>2. at \in Slots /\ Slots' = Slots /\ at \in Nat
    BY <1>1, SlotFacts DEF Slots
  <1>. PICK c \in Clients : c = slot[at]
    BY <1>1, <1>2 DEF TypeOK, Client
  <1>. PICK h \in 0 .. BufferSize : h = have[at]
    BY <1>1, <1>2 DEF TypeOK
  <1>. PICK p \in Nat : p = Pos /\ p = rcvd[c] - h
    <2>1. h <= rcvd[c] /\ rcvd[c] \in Nat
      BY <1>1, <1>2 DEF IInv, Buffered, Client, TypeOK
    <2>. QED
      BY <2>1, BufferAssumption DEF Pos, Client
  <1>3. Cut(bounds[c]) /\ rcvd[c] <= Written(c) /\ rcvd[c] \in Nat
    BY <1>1 DEF IInv, Stream, TypeOK
  <1>. PICK size \in HeaderAt(c, p) :
          /\ size + kHeadSize <= h
          /\ handled' = [handled EXCEPT ![c] =
                            Append(handled[c], [at |-> p, size |-> size])]
          /\ \/ /\ peer[c] = "closed"
                /\ have' = [have EXCEPT ![at] = 0]
                /\ UNCHANGED inbox
             \/ /\ peer[c] # "closed"
                /\ inbox[c] < Room
                /\ inbox' = [inbox EXCEPT ![c] = inbox[c] + 1]
                /\ have' = [have EXCEPT ![at] = h - (size + kHeadSize)]
    BY DEF Handle, Client
  <1>4. size \in Nat /\ [at |-> p, size |-> size] \in [at : Nat, size : Nat]
    BY <1>1, <1>3, HeaderFacts
  <1>. PICK m \in Nat : m = Len(handled[c])
    BY <1>1, LenProperties DEF TypeOK
  <1>5. /\ handled'[c] \in Seq([at : Nat, size : Nat]) /\ Len(handled'[c]) = m + 1
        /\ \A k \in 1 .. m : handled'[c][k] = handled[c][k]
        /\ handled'[c][m + 1] = [at |-> p, size |-> size]
        /\ \A d \in Clients \ {c} : handled'[d] = handled[d]
    <2>. PICK x \in [at : Nat, size : Nat] : x = [at |-> p, size |-> size]
      BY <1>4
    <2>. PICK q \in Seq([at : Nat, size : Nat]) : q = handled[c]
      BY <1>1 DEF TypeOK
    <2>1. handled' = [handled EXCEPT ![c] = Append(q, x)]
      OBVIOUS
    <2>2. handled'[c] = Append(q, x) /\ \A d \in Clients \ {c} : handled'[d] = handled[d]
      BY <1>1, <2>1 DEF TypeOK
    <2>3. /\ Append(q, x) \in Seq([at : Nat, size : Nat]) /\ Len(Append(q, x)) = m + 1
          /\ \A k \in 1 .. m : Append(q, x)[k] = q[k]
          /\ Append(q, x)[m + 1] = x
      BY AppendProperties
    <2>. QED
      BY <2>2, <2>3
  <1>6. /\ have'[at] \in 0 .. BufferSize /\ have'[at] <= h
        /\ peer[c] = "open" => have'[at] = h - (size + kHeadSize)
        /\ \A i \in Slots \ {at} : have'[i] = have[i]
    <2>1. 0 \in 0 .. BufferSize /\ 0 <= h
      BY BufferAssumption
    <2>2. h - (size + kHeadSize) \in 0 .. BufferSize /\ h - (size + kHeadSize) <= h
      BY <1>4, BufferAssumption, HeadAssumption
    <2>. QED
      BY <1>1, <1>2, <2>1, <2>2 DEF TypeOK
  <1>7. TypeOK'
    <2>1. have' \in [Slots -> 0 .. BufferSize]
      <3>1. have' = [have EXCEPT ![at] = have'[at]]
        BY <1>1, <1>2 DEF TypeOK
      <3>. QED
        BY <1>1, <1>6, <3>1 DEF TypeOK
    <2>2. inbox' \in [Clients -> 0 .. Room]
      <3>. PICK n \in 0 .. Room : n = inbox[c]
        BY <1>1 DEF TypeOK
      <3>1. n < Room => n + 1 \in 0 .. Room
        BY RoomAssumption
      <3>. QED
        BY <1>1, <3>1 DEF TypeOK
    <2>3. handled' \in [Clients -> Seq([at : Nat, size : Nat])]
      <3>1. handled' = [handled EXCEPT ![c] = handled'[c]]
        BY <1>1 DEF TypeOK
      <3>. QED
        BY <1>1, <1>5, <3>1 DEF TypeOK
    <2>. QED
      BY <1>1, <1>2, <2>1, <2>2, <2>3 DEF TypeOK
  \* As long as the client stays s points to the beginning of the frame.
  <1>8. ASSUME peer[c] = "open"
        PROVE  /\ m + 1 <= Len(bounds[c]) - 1
               /\ p = bounds[c][m + 1] /\ size = BodySize(c, m + 1)
               /\ bounds[c][m + 2] = p + size + kHeadSize
    <2>. PICK l \in Nat : l = Len(bounds[c])
      BY <1>1, LenProperties DEF TypeOK
    <2>1. p = bounds[c][m + 1] /\ m <= l - 1
      BY <1>1, <1>2, <1>8 DEF IInv, Buffered, Passed, Client
    <2>2. m + 1 # l
      BY <1>1, <1>3, <2>1, HeadAssumption DEF Written
    <2>3. m + 1 \in Frames(c) /\ m + 1 <= l - 1 /\ (m + 1) + 1 = m + 2
      BY <2>1, <2>2 DEF Frames
    <2>4. /\ HeaderAt(c, bounds[c][m + 1]) = {BodySize(c, m + 1)}
          /\ bounds[c][(m + 1) + 1] = bounds[c][m + 1] + BodySize(c, m + 1) + kHeadSize
      BY <1>1, <1>3, <2>3, HeaderFacts
    <2>. QED
      BY <2>1, <2>3, <2>4
  <1>9. ASSUME NEW d \in Clients
        PROVE  Stream(d)' /\ Passed(d)'
    <2>1. Stream(d)'
      BY <1>1 DEF IInv, Stream, Written
    <2>2. CASE d = c /\ peer[c] = "open"
      <3>1. ASSUME NEW k \in 1 .. m + 1
            PROVE  handled'[c][k] = [at |-> bounds[c][k], size |-> BodySize(c, k)]
        <4>1. CASE k \in 1 .. m
          BY <1>5, <2>2, <4>1 DEF IInv, Passed
        <4>2. CASE k = m + 1
          BY <1>5, <1>8, <2>2, <4>2
        <4>. QED
          BY <4>1, <4>2
      <3>. QED
        BY <1>1, <1>5, <1>8, <2>1, <2>2, <3>1 DEF Passed, BodySize
    <2>3. CASE d # c \/ peer[c] # "open"
      BY <1>1, <1>5, <2>1, <2>3 DEF IInv, Passed, BodySize
    <2>. QED
      BY <2>2, <2>3
  <1>10. ASSUME NEW i \in Slots
         PROVE  Buffered(i)'
    <2>1. CASE i = at
      <3>1. have'[at] <= rcvd[c]
        BY <1>3, <1>6, BufferAssumption
      <3>2. ASSUME peer[c] = "open"
            PROVE  rcvd[c] - have'[at] = bounds[c][(m + 1) + 1]
        <4>1. rcvd[c] - (h - (size + kHeadSize)) = (rcvd[c] - h) + size + kHeadSize
          BY <1>3, <1>4, HeadAssumption, BufferAssumption
        <4>2. (m + 1) + 1 = m + 2
          OBVIOUS
        <4>. QED
          BY <1>6, <1>8, <3>2, <4>1, <4>2
      <3>. QED
        BY <1>1, <1>5, <2>1, <3>1, <3>2 DEF Buffered
    <2>2. CASE i # at
      <3>1. slot[i] # None => slot[i] \in Clients \ {c}
        BY <1>1, <1>2, <2>2 DEF TypeOK, Seats, Client
      <3>. QED
        BY <1>1, <1>5, <1>6, <2>2, <3>1 DEF IInv, Buffered
    <2>. QED
      BY <2>1, <2>2
  <1>11. Waiting' = Waiting
    BY <1>1 DEF Waiting
  <1>12. Seats'
    <2>1. \A d \in Clients : peer[d] = "new" \/ d \in Waiting => handled'[d] = handled[d]
      BY <1>1, <1>2, <1>5 DEF Seats
    <2>. QED
      BY <1>1, <1>2, <1>11, <2>1 DEF Seats
  <1>13. Following' = Following /\ Following = at + 1 /\ AtClient'
    BY <1>1 DEF Following, Serving, AtClient, Client
  <1>14. Round'
    <2>1. nready \in Int /\ Cardinality(Ahead(Following, revents)) \in Nat
      BY <1>1, SlotFacts DEF TypeOK
    <2>. QED
      BY <1>1, <1>2, <1>7, <1>13, <2>1, RoundOn
  <1>. QED
    BY <1>2, <1>7, <1>9, <1>10, <1>12, <1>13, <1>14 DEF IInv

LEMMA SaveStep ==
    ASSUME IInv, Save
    PROVE  IInv'
  <1>1. /\ TypeOK /\ AtClient /\ pc = "parse" /\ pc' = "hup"
        /\ UNCHANGED <<kMaxFiles, running, lisSock, slot, have, revents, nready, maxi, at,
                       spc, peer, backlog, bounds, rcvd, inbox, handled>>
    BY DEF IInv, Save, loopvars, clientvars
  <1>2. Slots' = Slots /\ TypeOK'
    BY <1>1 DEF TypeOK, Slots
  <1>3. Following' = Following /\ AtClient' /\ Following \in Int
    BY <1>1, SlotFacts DEF Following, Serving, AtClient
  <1>4. Round'
    <2>1. nready \in Int /\ Cardinality(Ahead(Following, revents)) \in Nat
      BY <1>1, SlotFacts DEF TypeOK
    <2>. QED
      BY <1>1, <1>2, <1>3, <2>1, RoundOn
  <1>. QED
    BY <1>1, <1>2, <1>3, <1>4, Quiet

LEMMA HangupStep ==
    ASSUME IInv, Hangup
    PROVE  IInv'
  <1>1. /\ TypeOK /\ Seats /\ at \in Slots /\ pc = "hup" /\ pc' = "table" /\ at' = at + 1
        /\ at <= maxi /\ Following = at + 1 /\ Following' = at + 1
        /\ UNCHANGED <<kMaxFiles, running, lisSock, revents, maxi, spc, peer, backlog,
                       bounds, rcvd, inbox, handled>>
    BY SlotFacts DEF IInv, Hangup, clientvars, AtClient, Serving, Following
  <1>2. /\ Slots' = Slots /\ at \in Nat /\ at + 1 \in 1 .. kMaxFiles /\ nready \in Int
        /\ Cardinality(Ahead(at + 1, revents)) \in Nat
    BY <1>1, SlotFacts DEF Slots, TypeOK
  <1>3. \A i \in Slots : \/ slot'[i] = slot[i] /\ have'[i] = have[i]
                         \/ i = at /\ slot'[i] = None
    BY <1>1 DEF Hangup, TypeOK
  <1>4. nready' \in Int /\ nready' <= nready
    BY <1>2 DEF Hangup
  <1>5. TypeOK'
    <2>1. 0 \in 0 .. BufferSize
      BY BufferAssumption
    <2>2. have' \in [Slots -> 0 .. BufferSize]
      BY <1>1, <2>1 DEF Hangup, TypeOK
    <2>3. slot' \in [Slots -> Clients \cup {None}]
      BY <1>1 DEF Hangup, TypeOK
    <2>. QED
      BY <1>1, <1>2, <1>4, <2>2, <2>3 DEF TypeOK
  <1>6. \A c \in Clients : Stream(c)' /\ Passed(c)'
    BY <1>1 DEF IInv, Stream, Passed, Written, BodySize
  <1>7. \A i \in Slots : Buffered(i)'
    BY <1>1, <1>3 DEF IInv, Buffered
  <1>8. Seats'
    <2>1. Waiting' = Waiting
      BY <1>1 DEF Waiting
    <2>2. \A i \in Slots : i > maxi => slot'[i] = None
      BY <1>1, <1>3 DEF Seats
    <2>3. \A i, j \in Slots : slot'[i] # None /\ slot'[i] = slot'[j] => i = j
      BY <1>1, <1>3 DEF Seats
    <2>4. ASSUME NEW c \in Clients, peer[c] = "new" \/ c \in Waiting
          PROVE  rcvd[c] = 0 /\ handled[c] = <<>> /\ \A i \in Slots : slot'[i] # c
      BY <1>1, <1>3, <2>4, NoneAssumption DEF Seats
    <2>5. /\ \A i, j \in 1 .. Len(backlog) : backlog[i] = backlog[j] => i = j
          /\ \A c \in Waiting : peer[c] # "new"
      BY <1>1 DEF Seats
    <2>. QED
      BY <1>1, <1>2, <2>1, <2>2, <2>3, <2>4, <2>5 DEF Seats
  <1>9. Round'
    <2>1. \A j \in Slots : slot'[j] = slot[j] \/ (j < Following' /\ slot'[j] = None)
      BY <1>1, <1>2, <1>3
    <2>2. Following' >= Following
      BY <1>1, <1>2
    <2>3. nready' - Cardinality(Ahead(Following', revents))
              <= nready - Cardinality(Ahead(Following, revents))
      BY <1>1, <1>2, <1>4
    <2>. QED
      BY <1>1, <1>5, <2>1, <2>2, <2>3, RoundOn
  <1>10. AtClient'
    BY <1>1 DEF AtClient, Serving
  <1>. QED
    BY <1>2, <1>5, <1>6, <1>7, <1>8, <1>9, <1>10 DEF IInv

LEMMA RoundDoneStep ==
    ASSUME IInv, RoundDone
    PROVE  IInv'
  <1>1. /\ TypeOK /\ pc' = "poll" /\ nready' = 0 /\ at' = 1
        /\ revents' = [i \in Slots |-> NotPolled]
        /\ UNCHANGED <<kMaxFiles, running, lisSock, slot, have, maxi, spc, peer, backlog,
                       bounds, rcvd, inbox, handled>>
    BY DEF IInv, RoundDone, clientvars
  <1>2. Slots' = Slots /\ NotPolled' = NotPolled /\ 1 \in 1 .. kMaxFiles
    BY <1>1, SlotFacts DEF Slots, NotPolled
  <1>3. TypeOK'
    <2>1. revents' \in [Slots -> [of : Clients \cup {None, Unset}, is : SUBSET {"in", "hup"}]]
      BY <1>1 DEF NotPolled
    <2>. QED
      BY <1>1, <1>2, <2>1 DEF TypeOK
  <1>4. Round' /\ AtClient'
    BY <1>1, <1>2 DEF Round, AtClient, Serving
  <1>. QED
    BY <1>1, <1>3, <1>4, Quiet

LEMMA ExitStep ==
    ASSUME IInv, Exit
    PROVE  IInv'
  <1>1. /\ TypeOK /\ Seats /\ pc' = "exit" /\ lisSock' = FALSE
        /\ slot' = [i \in Slots |-> None] /\ have' = [i \in Slots |-> 0]
        /\ UNCHANGED <<kMaxFiles, running, revents, nready, maxi, at, spc, peer, backlog,
                       bounds, rcvd, inbox, handled>>
    BY DEF IInv, Exit, clientvars
  <1>2. Slots' = Slots /\ \A i \in Slots : slot'[i] = None
    BY <1>1 DEF Slots
  <1>3. TypeOK'
    <2>1. 0 \in 0 .. BufferSize
      BY BufferAssumption
    <2>2. /\ slot' \in [Slots -> Clients \cup {None}] /\ have' \in [Slots -> 0 .. BufferSize]
          /\ lisSock' \in BOOLEAN
      BY <1>1, <2>1
    <2>. QED
      BY <1>1, <1>2, <2>2 DEF TypeOK
  <1>4. \A c \in Clients : Stream(c)' /\ Passed(c)'
    BY <1>1 DEF IInv, Stream, Passed, Written, BodySize
  <1>5. \A i \in Slots : Buffered(i)'
    BY <1>2 DEF Buffered
  <1>6. Seats'
    <2>1. Waiting' = Waiting
      BY <1>1 DEF Waiting
    <2>. QED
      BY <1>1, <1>2, <2>1, NoneAssumption DEF Seats
  <1>7. Round' /\ AtClient'
    BY <1>1 DEF Round, AtClient, Serving
  <1>. QED
    BY <1>2, <1>3, <1>4, <1>5, <1>6, <1>7 DEF IInv

-----------------------------------------------------------------------------
(* Stop, and the whole *)

LEMMA StopStep ==
    ASSUME IInv, StopFlag \/ StopClose \/ StopJoin
    PROVE  IInv'
  <1>1. /\ TypeOK /\ spc' \in {"close", "join", "done"}
        /\ running' \in BOOLEAN /\ lisSock' \in BOOLEAN
        /\ UNCHANGED <<kMaxFiles, slot, have, revents, nready, maxi, at, pc, peer,
                       backlog, bounds, rcvd, inbox, handled>>
    BY DEF IInv, TypeOK, StopFlag, StopClose, StopJoin, loopvars, clientvars
  <1>2. TypeOK'
    BY <1>1 DEF TypeOK, Slots
  <1>3. Round' /\ AtClient'
    BY <1>1, RoundSame
  <1>. QED
    BY <1>1, <1>2, <1>3, Quiet

LEMMA IInvInit == Init => IInv
  <1>. SUFFICES ASSUME Init
                PROVE  IInv
    OBVIOUS
  <1>1. kMaxFiles \in Nat \ {0} /\ 0 \in 0 .. kMaxFiles - 1 /\ 1 \in 1 .. kMaxFiles
    BY LimitsAssumption DEF Init
  <1>2. TypeOK
    <2>1. 0 \in 0 .. BufferSize /\ 0 \in 0 .. Room
      BY BufferAssumption, RoomAssumption
    <2>2. /\ slot \in [Slots -> Clients \cup {None}] /\ have \in [Slots -> 0 .. BufferSize]
          /\ revents \in [Slots -> [of : Clients \cup {None, Unset},
                                    is : SUBSET {"in", "hup"}]]
      BY <2>1 DEF Init, NotPolled
    <2>3. /\ peer \in [Clients -> {"new", "open", "closed", "refused", "elsewhere"}]
          /\ backlog \in Seq(Clients)
          /\ rcvd \in [Clients -> Nat] /\ inbox \in [Clients -> 0 .. Room]
      BY <2>1, EmptySeq DEF Init
    <2>4. bounds \in [Clients -> Seq(Nat)] /\ handled \in [Clients -> Seq([at : Nat, size : Nat])]
      BY EmptySeq DEF Init
    <2>5. kMaxFiles \in FileLimits /\ running \in BOOLEAN /\ lisSock \in BOOLEAN
      BY DEF Init
    <2>. QED
      BY <1>1, <2>2, <2>3, <2>4, <2>5 DEF TypeOK, Init
  <1>3. ASSUME NEW c \in Clients
        PROVE  Stream(c) /\ Passed(c)
    <2>. PICK b : b = <<0>>
      OBVIOUS
    <2>1. Len(b) = 1 /\ b[1] = 0
      OBVIOUS
    <2>2. Cut(b)
      BY <2>1 DEF Cut
    <2>3. bounds[c] = b /\ rcvd[c] = 0 /\ peer[c] = "new"
      BY DEF Init
    <2>. QED
      BY <2>1, <2>2, <2>3 DEF Stream, Passed, Written
  <1>4. \A i \in Slots : Buffered(i)
    BY DEF Init, Buffered
  <1>5. Seats
    <2>1. Len(backlog) = 0 /\ Waiting = {}
      BY EmptySeq DEF Init, Waiting
    <2>. QED
      BY <2>1, NoneAssumption DEF Init, Seats
  <1>6. Round /\ AtClient
    BY DEF Init, Round, AtClient, Serving
  <1>. QED
    BY <1>2, <1>3, <1>4, <1>5, <1>6 DEF IInv

LEMMA IInvStep == IInv /\ [Next]_vars => IInv'
  <1>. SUFFICES ASSUME IInv, [Next]_vars
                PROVE  IInv'
    OBVIOUS
  <1>1. CASE \E c \in Clients : \/ ClientConnects(c) \/ ClientWrites(c)
                                \/ ClientReads(c) \/ ClientCloses(c)
    BY <1>1, ConnectsStep, WritesStep, ReadsStep, ClosesStep
  <1>2. CASE OtherRunAccepts
    BY <1>2, OtherRunStep
  <1>3. CASE Run
    BY <1>3, StartStep, PollStep, AcceptStep, SkipStep, BufferFullStep, RecvStep,
       HandleStep, SaveStep, HangupStep, RoundDoneStep, ExitStep DEF Run
  <1>4. CASE StopFlag \/ StopClose \/ StopJoin
    BY <1>4, StopStep
  <1>5. CASE UNCHANGED vars
    <2>1. UNCHANGED <<kMaxFiles, running, lisSock, slot, have, revents, nready, maxi, at, pc,
                      spc, peer, backlog, bounds, rcvd, inbox, handled>>
      BY <1>5 DEF vars, loopvars, clientvars
    <2>2. TypeOK'
      BY <2>1 DEF IInv, TypeOK, Slots
    <2>3. Round' /\ AtClient'
      BY <2>1, RoundSame
    <2>. QED
      BY <2>1, <2>2, <2>3, Quiet
  <1>. QED
    BY <1>1, <1>2, <1>3, <1>4, <1>5 DEF Next

\* The inductive invariant: every client is in one place, a slot's buffer begins
\* with the first frame of its client not yet handled, and the events the loop
\* over the table has still to serve are those of the clients in the slots, with
\* the slots poll has not seen behind them all.
THEOREM PollServerInvariant == Spec => []IInv
  <1>. QED
    BY IInvInit, IInvStep, PTL DEF Spec

\* No buffer is filled beyond its size and no slot outside the table is used,
\* whatever the clients send and however many of them come.
THEOREM TypeCorrect == Spec => []TypeOK
  <1>1. IInv => TypeOK
    BY DEF IInv
  <1>. QED
    BY <1>1, PollServerInvariant, PTL

\* Run never looks at a revents that this round's poll has not written, nor takes
\* one client's event for another's: the count that poll returned is used up
\* before the loop reaches the slot of a client accepted in the round.
THEOREM EventsAreCurrent == Spec => []EventsCurrent
  <1>1. IInv => EventsCurrent
    BY InvProperties
  <1>. QED
    BY <1>1, PollServerInvariant, PTL

\* As long as a client stays, Handle passes on its frames, each once, in order and
\* from the first byte on, wherever recv cut the stream.
THEOREM RequestsAsSent == Spec => []HandledAsSent
  <1>1. IInv => HandledAsSent
    BY InvProperties
  <1>. QED
    BY <1>1, PollServerInvariant, PTL
=============================================================================
