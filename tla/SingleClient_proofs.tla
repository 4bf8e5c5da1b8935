------------------------ MODULE SingleClient_proofs ------------------------
(***************************************************************************)
(* Theorems about SingleClient and SingleServer for any set of calls, any  *)
(* room in the sockets, any sizes a misread header can show, and any       *)
(* number of crashes and retries.                                          *)
(***************************************************************************)
EXTENDS SingleClient, SequenceTheorems, TLAPS

\* What may come next in a stream where the body of the call owed is due, or a
\* header if none is.
Fits(owed, unit) ==
    IF owed = NoCall THEN \E t \in Calls : unit = HeadUnit(t, 1)
                     ELSE unit = BodyUnit(owed)

\* The body due after a unit.
Owed(unit) == IF unit.at = "head" THEN unit.id ELSE NoCall

\* A stream of frames, first of which the body of the call owed.
Framed(owed, s) ==
    \A i \in 1 .. Len(s) : Fits(IF i = 1 THEN owed ELSE Owed(s[i - 1]), s[i])

\* The body due after the stream.
OwedAfter(owed, s) == IF s = <<>> THEN owed ELSE Owed(s[Len(s)])

\* The call whose body each reader and writer of a connection has to go on with.
ServerReads(k) == IF cli = k /\ link[k] = "up" /\ srv = "body" THEN frame.id ELSE NoCall
ServerWrites(k) == IF cli = k /\ link[k] = "up" /\ srv = "replybody" THEN frame.id ELSE NoCall
ClientReads(k) == IF rfd = k /\ rpc = "body" THEN got.id ELSE NoCall
Begun(t, k) == tpc[t] = "body" /\ begunOn[t] = k

\* Whether a thread may send on the connection.
Aimed(k) == k = sock \/ \E t \in Calls : sfd[t] = k

\* From where the server reads to where the threads write there are whole frames.
RequestsOn(k) ==
    link[k] = "up" =>
        /\ Framed(ServerReads(k), c2s[k])
        /\ Aimed(k) =>
              \A t \in Calls : Begun(t, k) <=> OwedAfter(ServerReads(k), c2s[k]) = t

\* So there are from where the client reads to where the server writes.
ResponsesOn(k) ==
    k \in {sock, rfd} =>
        /\ Framed(ClientReads(k), s2c[k])
        /\ link[k] = "up" => OwedAfter(ClientReads(k), s2c[k]) = ServerWrites(k)

Requests == \A k \in Conns : RequestsOn(k)
Responses == \A k \in Conns : ResponsesOn(k)

\* The frames read are those of one call.
Whole ==
    /\ srv # "head" => frame.id \in Calls /\ frame.size = 1
    /\ srv \in {"body", "replybody"} => frame.left = 1
    /\ srv \in {"reply", "replybody"} => frame.data = frame.id
    /\ rpc \in {"body", "callback"} => got.id \in Calls
    /\ rpc = "body" => got.size = 1 /\ got.left = 1
    /\ rpc = "callback" => got.data = got.id
    /\ \A call \in called : call.cbk = call.of

Counts ==
    /\ srv # "head" => frame.size > 0
    /\ srv \in {"body", "replybody"} => frame.left > 0
    /\ rpc = "body" => got.left > 0
    /\ rpc = "connect" => tries < Retries
    /\ rpc \in {"connect", "retry"} => leaked < MaxFds

\* Which connections the client refers to: one that is new is the last one made,
\* and what nobody refers to is closed.
Places ==
    /\ sock \in {None, conn}
    /\ rfd # None => rpc \in {"head", "body"} /\ sock \in {None, rfd}
    /\ rpc = "head" => rfd # None
    /\ rpc = "body" /\ rfd = None => sock = None
    /\ rpc \in {"connect", "retry"} => sock = None
    /\ cli = None => srv = "head"
    /\ \A k \in Conns :
          /\ link[k] # "closed" => Aimed(k) \/ k = rfd
          /\ link[k] = "closed" => c2s[k] = <<>> /\ s2c[k] = <<>>

\* One thread at a time holds lock_send_, and a send that waits began no earlier
\* than the header of its frame.
Locked ==
    /\ \A t, u \in Calls : Sending(t) /\ Sending(u) => t = u
    /\ \A t \in Calls : sfd[t] # None => Sending(t) /\ begunOn[t] <= sfd[t]

Base == TypeOK /\ Counts /\ Places /\ Locked

Sound == ~ torn => Whole /\ Requests /\ Responses

IInv == Base /\ Sound

-----------------------------------------------------------------------------
(* Streams of frames *)

LEMMA FramedTail ==
    ASSUME NEW s \in Seq(Units), s # <<>>, NEW owed, Framed(owed, s)
    PROVE  /\ Fits(owed, Head(s))
           /\ Framed(Owed(Head(s)), Tail(s))
           /\ OwedAfter(Owed(Head(s)), Tail(s)) = OwedAfter(owed, s)
  <1>. PICK n \in Nat \ {0} : n = Len(s)
    BY EmptySeq
  <1>. PICK t \in Seq(Units) : t = Tail(s)
    BY HeadTailProperties
  <1>1. /\ Head(s) = s[1] /\ Len(t) = n - 1
        /\ \A i \in 1 .. n - 1 : t[i] = s[i + 1]
    BY HeadTailProperties
  <1>2. Fits(owed, s[1])
    BY DEF Framed
  <1>3. ASSUME NEW i \in 1 .. n - 1
        PROVE  Fits(IF i = 1 THEN Owed(s[1]) ELSE Owed(t[i - 1]), t[i])
    <2>1. i + 1 \in 1 .. n /\ i + 1 # 1 /\ (i + 1) - 1 = i
      OBVIOUS
    <2>2. Fits(Owed(s[i]), s[i + 1])
      BY <2>1 DEF Framed
    <2>3. i # 1 => t[i - 1] = s[i]
      <3>. SUFFICES ASSUME i # 1
                    PROVE  t[i - 1] = s[i]
        OBVIOUS
      <3>1. i - 1 \in 1 .. n - 1 /\ (i - 1) + 1 = i
        OBVIOUS
      <3>. QED
        BY <1>1, <3>1
    <2>. QED
      BY <1>1, <2>2, <2>3
  <1>4. OwedAfter(Owed(s[1]), t) = OwedAfter(owed, s)
    <2>1. CASE n = 1
      <3>1. t = <<>>
        BY <1>1, <2>1, EmptySeq
      <3>. QED
        BY <2>1, <3>1 DEF OwedAfter
    <2>2. CASE n # 1
      <3>1. n - 1 \in 1 .. n - 1 /\ (n - 1) + 1 = n
        BY <2>2
      <3>2. t[n - 1] = s[(n - 1) + 1]
        BY <1>1, <3>1
      <3>3. n - 1 # 0
        BY <2>2
      <3>4. t # <<>>
        BY <1>1, <3>3, EmptySeq
      <3>. QED
        BY <1>1, <3>1, <3>2, <3>4 DEF OwedAfter
    <2>. QED
      BY <2>1, <2>2
  <1>. QED
    BY <1>1, <1>2, <1>3, <1>4 DEF Framed

LEMMA FramedAppend ==
    ASSUME NEW s \in Seq(Units), NEW owed, Framed(owed, s),
           NEW unit \in Units, Fits(OwedAfter(owed, s), unit)
    PROVE  /\ Framed(owed, Append(s, unit))
           /\ OwedAfter(owed, Append(s, unit)) = Owed(unit)
  <1>. PICK n \in Nat : n = Len(s)
    BY LenProperties
  <1>. PICK t \in Seq(Units) : t = Append(s, unit)
    BY AppendProperties
  <1>1. /\ Len(t) = n + 1 /\ t[n + 1] = unit /\ \A i \in 1 .. n : t[i] = s[i]
    BY AppendProperties
  <1>2. ASSUME NEW i \in 1 .. n + 1
        PROVE  Fits(IF i = 1 THEN owed ELSE Owed(t[i - 1]), t[i])
    <2>1. i # 1 => i - 1 \in 1 .. n
      OBVIOUS
    <2>2. CASE i \in 1 .. n
      <3>1. i # 1 => t[i - 1] = s[i - 1]
        BY <1>1, <2>1
      <3>2. t[i] = s[i] /\ Fits(IF i = 1 THEN owed ELSE Owed(s[i - 1]), s[i])
        BY <1>1, <2>2 DEF Framed
      <3>. QED
        BY <3>1, <3>2
    <2>3. CASE i = n + 1
      <3>1. CASE n = 0
        BY <1>1, <2>3, <3>1, EmptySeq DEF OwedAfter
      <3>2. CASE n # 0
        <4>1. i # 1 /\ i - 1 = n /\ n \in 1 .. n /\ s # <<>>
          BY <2>3, <3>2, EmptySeq
        <4>. QED
          BY <1>1, <2>3, <4>1 DEF OwedAfter
      <3>. QED
        BY <3>1, <3>2
    <2>. QED
      BY <2>2, <2>3
  <1>3. t # <<>>
    BY <1>1, EmptySeq
  <1>. QED
    BY <1>1, <1>2, <1>3 DEF Framed, OwedAfter

LEMMA EmptyStream ==
    ASSUME NEW owed
    PROVE  Framed(owed, <<>>) /\ OwedAfter(owed, <<>>) = owed
  <1>1. \A i \in 1 .. Len(<<>>) : FALSE
    BY EmptySeq
  <1>. QED
    BY <1>1 DEF Framed, OwedAfter

\* What a unit that fits is taken for.
LEMMA FitsFacts ==
    ASSUME NEW unit
    PROVE  /\ Fits(NoCall, unit) =>
                 /\ Owed(unit) \in Calls /\ unit.at = "head"
                 /\ Header(unit) = {Begins(Owed(unit), 1)}
           /\ \A t \in Calls : Fits(t, unit) => unit.call = t /\ Owed(unit) = NoCall
           /\ \A t \in Calls : /\ Fits(NoCall, HeadUnit(t, 1)) /\ Owed(HeadUnit(t, 1)) = t
                               /\ Fits(t, BodyUnit(t)) /\ Owed(BodyUnit(t)) = NoCall
  <1>1. ASSUME NEW t \in Calls, unit = HeadUnit(t, 1)
        PROVE  /\ Owed(unit) \in Calls /\ unit.at = "head"
               /\ Header(unit) = {Begins(Owed(unit), 1)}
    <2>1. unit.at = "head" /\ unit.id = t /\ unit.size = 1
      BY <1>1 DEF HeadUnit
    <2>. QED
      BY <2>1 DEF Header, Owed
  <1>2. \A t \in Calls : t # NoCall
    BY NoCallAssumption
  <1>. QED
    BY <1>1, <1>2 DEF Fits, HeadUnit, BodyUnit, Owed

-----------------------------------------------------------------------------
(* Types, counts and places *)

LEMMA UnitTypes ==
    /\ \A id \in Calls \cup {NoCall}, size \in Nat : HeadUnit(id, size) \in Units
    /\ \A call \in Calls \cup {NoCall} : BodyUnit(call) \in Units
    /\ NoFrame \in Partial
    /\ \A unit \in Units : \A f \in Header(unit) : f \in Partial /\ f.left = f.size
    /\ \A unit \in Units : \A f \in Partial :
          f.left > 0 => /\ Extend(f, unit) \in Partial
                        /\ Extend(f, unit).left = f.left - 1
                        /\ Extend(f, unit).size = f.size
                        /\ Extend(f, unit).id = f.id
  <1>1. /\ \A id \in Calls \cup {NoCall}, size \in Nat : HeadUnit(id, size) \in Units
        /\ \A call \in Calls \cup {NoCall} : BodyUnit(call) \in Units
        /\ NoFrame \in Partial
    BY DEF HeadUnit, BodyUnit, NoFrame, Units, Partial
  <1>2. ASSUME NEW unit \in Units, NEW f \in Header(unit)
        PROVE  f \in Partial /\ f.left = f.size
    <2>1. unit.id \in Calls \cup {NoCall} /\ unit.size \in Nat
      BY DEF Units
    <2>2. \A id \in Calls \cup {NoCall}, n \in Nat :
             Begins(id, n) \in Partial /\ Begins(id, n).left = Begins(id, n).size
      BY DEF Begins, Partial
    <2>3. \E id \in Calls \cup {NoCall}, n \in Nat : f = Begins(id, n)
      BY <1>2, <2>1, SizesAssumption DEF Header
    <2>. QED
      BY <2>2, <2>3
  <1>3. ASSUME NEW unit \in Units, NEW f \in Partial, f.left > 0
        PROVE  /\ Extend(f, unit) \in Partial
               /\ Extend(f, unit).left = f.left - 1
               /\ Extend(f, unit).size = f.size
               /\ Extend(f, unit).id = f.id
    <2>. PICK data \in Calls \cup {NoCall} :
            data = IF f.left = f.size THEN unit.call ELSE f.data
      BY DEF Units, Partial
    <2>. PICK left \in Nat : left = f.left - 1
      BY <1>3 DEF Partial
    <2>1. Extend(f, unit) = [f EXCEPT !.left = left, !.data = data]
      BY DEF Extend
    <2>. QED
      BY <2>1 DEF Partial
  <1>. QED
    BY <1>1, <1>2, <1>3

\* What the steps do to the streams keeps their types.
LEMMA StreamTypes ==
    ASSUME NEW s \in Seq(Units), Len(s) <= Room
    PROVE  /\ Len(s) \in Nat
           /\ <<>> \in Seq(Units) /\ Len(<<>>) <= Room
           /\ s # <<>> => /\ Head(s) \in Units
                         /\ Tail(s) \in Seq(Units) /\ Len(Tail(s)) <= Room
           /\ Len(s) < Room => \A unit \in Units : /\ Append(s, unit) \in Seq(Units)
                                                  /\ Len(Append(s, unit)) <= Room
  <1>1. Len(s) \in Nat /\ Room \in Nat \ {0} /\ <<>> \in Seq(Units) /\ Len(<<>>) = 0
    BY LenProperties, RoomAssumption, EmptySeq
  <1>2. s # <<>> => /\ Head(s) \in Units
                    /\ Tail(s) \in Seq(Units) /\ Len(Tail(s)) = Len(s) - 1
    BY HeadTailProperties
  <1>3. \A unit \in Units : /\ Append(s, unit) \in Seq(Units)
                           /\ Len(Append(s, unit)) = Len(s) + 1
    BY AppendProperties
  <1>. QED
    BY <1>1, <1>2, <1>3

\* Streams and states a set of connections may have.
NetOk(links, requests, responses) ==
    /\ links \in [Conns -> {"up", "cut", "closed"}]
    /\ requests \in [Conns -> Seq(Units)]
    /\ responses \in [Conns -> Seq(Units)]
    /\ \A k \in Conns : Len(requests[k]) <= Room /\ Len(responses[k]) <= Room
    /\ \A k \in Conns :
          links[k] = "closed" => requests[k] = <<>> /\ responses[k] = <<>>

\* NetBecomes leaves what is referred to as it is given, and closes the rest.
LEMMA NetKept ==
    ASSUME NEW links, NEW requests, NEW responses,
           NetOk(links, requests, responses), NetBecomes(links, requests, responses)
    PROVE  /\ NetOk(link', c2s', s2c')
           /\ \A k \in Conns :
                 \/ /\ Aimed(k)' \/ k = rfd'
                    /\ link'[k] = links[k]
                    /\ c2s'[k] = requests[k] /\ s2c'[k] = responses[k]
                 \/ /\ ~ Aimed(k)' /\ k # sock' /\ k # rfd'
                    /\ link'[k] = "closed" /\ c2s'[k] = <<>> /\ s2c'[k] = <<>>
  <1>. DEFINE held == {sock', rfd'} \cup {sfd'[t] : t \in Calls}
  <1>1. \A k \in Conns : k \in held <=> Aimed(k)' \/ k = rfd'
    BY DEF Aimed
  <1>2. \A k \in Conns : k = sock' => Aimed(k)'
    BY DEF Aimed
  <1>3. /\ link' = [k \in Conns |-> IF k \in held THEN links[k] ELSE "closed"]
        /\ c2s' = [k \in Conns |-> IF k \in held THEN requests[k] ELSE <<>>]
        /\ s2c' = [k \in Conns |-> IF k \in held THEN responses[k] ELSE <<>>]
    BY DEF NetBecomes
  <1>4. <<>> \in Seq(Units) /\ Len(<<>>) = 0 /\ Room \in Nat
    BY EmptySeq, RoomAssumption
  <1>. HIDE DEF held
  <1>5. NetOk(link', c2s', s2c')
    <2>1. /\ link' \in [Conns -> {"up", "cut", "closed"}]
          /\ c2s' \in [Conns -> Seq(Units)] /\ s2c' \in [Conns -> Seq(Units)]
      BY <1>3, <1>4 DEF NetOk
    <2>2. ASSUME NEW k \in Conns
          PROVE  /\ Len(c2s'[k]) <= Room /\ Len(s2c'[k]) <= Room
                 /\ link'[k] = "closed" => c2s'[k] = <<>> /\ s2c'[k] = <<>>
      BY <1>3, <1>4 DEF NetOk
    <2>. QED
      BY <2>1, <2>2 DEF NetOk
  <1>. QED
    BY <1>1, <1>2, <1>3, <1>5

\* In these steps the streams change by NetBecomes.
LEMMA BaseNet ==
    ASSUME Base
    PROVE  /\ NetOk(link, c2s, s2c)
           /\ \A k \in Conns : \A unit \in Units :
                 Open(k) /\ Len(c2s[k]) < Room =>
                    NetOk(link, [c2s EXCEPT ![k] = Append(@, unit)], s2c)
           /\ \A k \in Conns :
                 s2c[k] # <<>> => NetOk(link, c2s, [s2c EXCEPT ![k] = Tail(@)])
  <1>1. NetOk(link, c2s, s2c)
    BY DEF Base, TypeOK, Places, NetOk
  <1>2. ASSUME NEW k \in Conns, NEW unit \in Units, Open(k), Len(c2s[k]) < Room
        PROVE  NetOk(link, [c2s EXCEPT ![k] = Append(@, unit)], s2c)
    <2>1. Append(c2s[k], unit) \in Seq(Units) /\ Len(Append(c2s[k], unit)) <= Room
      BY <1>1, <1>2, StreamTypes DEF NetOk
    <2>2. link[k] # "closed"
      BY <1>2 DEF Open
    <2>. QED
      BY <1>1, <2>1, <2>2 DEF NetOk
  <1>3. ASSUME NEW k \in Conns, s2c[k] # <<>>
        PROVE  NetOk(link, c2s, [s2c EXCEPT ![k] = Tail(@)])
    <2>1. Tail(s2c[k]) \in Seq(Units) /\ Len(Tail(s2c[k])) <= Room
      BY <1>1, <1>3, StreamTypes DEF NetOk
    <2>2. link[k] # "closed"
      BY <1>1, <1>3 DEF NetOk
    <2>. QED
      BY <1>1, <2>1, <2>2 DEF NetOk
  <1>. QED
    BY <1>1, <1>2, <1>3

LEMMA NetPlaces ==
    ASSUME NEW links, NEW requests, NEW responses,
           NetOk(links, requests, responses), NetBecomes(links, requests, responses)
    PROVE  \A k \in Conns :
              /\ link'[k] # "closed" => Aimed(k)' \/ k = rfd'
              /\ link'[k] = "closed" => c2s'[k] = <<>> /\ s2c'[k] = <<>>
  <1>1. ASSUME NEW k \in Conns
        PROVE  link'[k] # "closed" => Aimed(k)' \/ k = rfd'
    BY NetKept
  <1>2. NetOk(link', c2s', s2c')
    BY NetKept
  <1>. QED
    BY <1>1, <1>2 DEF NetOk

ServerTypes ==
    /\ server \in {"up", "down"}
    /\ crashes \in 0 .. MaxCrashes
    /\ cli \in 0 .. conn
    /\ srv \in {"head", "body", "reply", "replybody"}
    /\ frame \in Partial

ClientTypes ==
    /\ conn \in Conns
    /\ running \in BOOLEAN
    /\ sock \in 0 .. conn
    /\ request \subseteq Calls
    /\ aged \subseteq Calls
    /\ tpc \in [Calls -> {"idle", "send", "head", "rest", "body", "done"}]
    /\ sfd \in [Calls -> 0 .. conn]
    /\ rpc \in {"start", "top", "connect", "retry", "head", "body", "callback",
                "clean", "exit"}
    /\ rfd \in 0 .. conn
    /\ got \in Partial
    /\ tries \in 0 .. Retries
    /\ leaked \in 0 .. MaxFds
    /\ spc \in {"idle", "close", "join", "done"}
    /\ begunOn \in [Calls -> 0 .. conn]
    /\ torn \in BOOLEAN
    /\ called \subseteq [cbk : Calls, of : Calls \cup {NoCall}]

LEMMA TypeParts ==
    /\ TypeOK => ServerTypes /\ ClientTypes
    /\ NetOk(link', c2s', s2c') /\ ServerTypes' /\ ClientTypes' => TypeOK'
  <1>1. TypeOK => ServerTypes
    BY DEF TypeOK, ServerTypes
  <1>2. TypeOK => ClientTypes
    BY Zenon DEF TypeOK, ClientTypes
  <1>3. NetOk(link', c2s', s2c') /\ ServerTypes' /\ ClientTypes' => TypeOK'
    BY Zenon DEF NetOk, TypeOK, ServerTypes, ClientTypes
  <1>. QED
    BY <1>1, <1>2, <1>3

LEMMA TargetFacts ==
    ASSUME Base, NEW t \in Calls, Open(Target(t))
    PROVE  /\ Target(t) \in Conns /\ link[Target(t)] = "up" /\ Aimed(Target(t))
           /\ Target(t) \in 0 .. conn
  <1>1. Target(t) = sock \/ Target(t) = sfd[t]
    BY DEF Target
  <1>2. sock \in 0 .. conn /\ sfd[t] \in 0 .. conn /\ conn \in Conns
    BY DEF Base, TypeOK
  <1>3. Target(t) \in 0 .. conn /\ Target(t) # 0
    BY <1>1, <1>2 DEF Open, None
  <1>. QED
    BY <1>1, <1>2, <1>3, ConnsAssumption DEF Conns, Open, Aimed

LEMMA BaseStep == Base /\ [Next]_vars => Base'
  <1>. SUFFICES ASSUME Base, [Next]_vars
                PROVE  Base'
    OBVIOUS
  <1>0. TypeOK /\ Counts /\ Places /\ Locked /\ NetOk(link, c2s, s2c)
    BY BaseNet DEF Base
  <1>a. \A k \in Conns : k # 0
    BY DEF Conns
  <1>b. \A k \in 0 .. conn : k # 0 => k \in Conns
    BY <1>0, ConnsAssumption DEF Conns, TypeOK
  <1>c. ServerTypes /\ ClientTypes /\ conn \in Nat
    BY <1>0, TypeParts DEF Conns, TypeOK
  <1>. USE DEF TypeOK, None
  <1>1. ASSUME NEW t \in Calls, Register(t)
        PROVE  Base'
    <2>1. TypeOK'
      BY <1>0, <1>1 DEF Register, netvars, srvvars, runvars
    <2>2. Counts' /\ Places'
      BY <1>0, <1>1 DEF Register, netvars, srvvars, runvars, Counts, Places, Aimed
    <2>3. Locked'
      BY <1>0, <1>1 DEF Register, Locked, Sending
    <2>. QED
      BY <2>1, <2>2, <2>3 DEF Base
  <1>2. ASSUME NEW t \in Calls, LockSend(t)
        PROVE  Base'
    <2>1. TypeOK'
      BY <1>0, <1>2 DEF LockSend, netvars, srvvars, runvars
    <2>2. Counts' /\ Places'
      BY <1>0, <1>2 DEF LockSend, netvars, srvvars, runvars, Counts, Places, Aimed
    <2>3. Locked'
      BY <1>0, <1>2 DEF LockSend, Locked, Sending
    <2>. QED
      BY <2>1, <2>2, <2>3 DEF Base
  <1>3. ASSUME NEW t \in Calls, Block(t)
        PROVE  Base'
    <2>1. sock \in Conns /\ sock = conn
      BY <1>0, <1>3 DEF Block, Open, Places
    <2>2. TypeOK'
      BY <1>0, <1>3 DEF Block, netvars, srvvars, runvars
    <2>3. Counts'
      BY <1>0, <1>3 DEF Block, srvvars, runvars, Counts
    <2>4. Places'
      <3>1. \A k \in Conns : Aimed(k) => Aimed(k)'
        BY <1>0, <1>a, <1>3 DEF Block, Aimed
      <3>. QED
        BY <1>0, <1>3, <3>1 DEF Block, netvars, srvvars, runvars, Places
    <2>5. Locked'
      BY <1>0, <1>3, <2>1 DEF Block, Locked, Sending
    <2>. QED
      BY <2>2, <2>3, <2>4, <2>5 DEF Base
  <1>4. ASSUME NEW t \in Calls, SendUnit(t)
        PROVE  Base'
    <2>. DEFINE k == Target(t)
    <2>1. /\ Open(k) /\ Len(c2s[k]) < Room
          /\ sfd' = [sfd EXCEPT ![t] = None]
          /\ UNCHANGED <<conn, srvvars, running, sock, request, aged, runvars, spc>>
      BY <1>4 DEF SendUnit
    <2>2. k \in Conns /\ k \in 0 .. conn
      BY <2>1, TargetFacts
    <2>3. /\ HeadUnit(t, 1) \in Units /\ BodyUnit(t) \in Units /\ BodyUnit(NoCall) \in Units
      BY UnitTypes
    <2>4. PICK requests : NetOk(link, requests, s2c) /\ NetBecomes(link, requests, s2c)
      <3>1. CASE tpc[t] = "head"
        BY <1>0, <1>4, <3>1 DEF SendUnit
      <3>2. CASE tpc[t] # "head"
        <4>1. PICK unit \in Units : Puts(k, unit)
          BY <1>4, <2>3, <3>2 DEF SendUnit
        <4>. QED
          BY <2>1, <2>2, <4>1, BaseNet DEF Puts
      <3>. QED
        BY <3>1, <3>2
    <2>5. NetOk(link', c2s', s2c')
      BY <2>4, NetKept
    <2>6. /\ tpc' \in [Calls -> {"idle", "send", "head", "rest", "body", "done"}]
          /\ \A u \in Calls : u # t => tpc'[u] = tpc[u]
          /\ begunOn' \in [Calls -> 0 .. conn]
          /\ \A u \in Calls : u # t => begunOn'[u] = begunOn[u]
          /\ Sending(t)
      BY <1>0, <1>4, <2>2 DEF SendUnit, Sending
    <2>7. torn' \in BOOLEAN
      BY <1>0, <1>4, Zenon DEF SendUnit
    <2>. HIDE DEF k
    <2>8. TypeOK'
      <3>1. ServerTypes'
        BY <1>c, <2>1 DEF srvvars, ServerTypes
      <3>2. ClientTypes'
        <4>1. sfd' \in [Calls -> 0 .. conn]
          BY <1>c, <2>1 DEF ClientTypes
        <4>. QED
          BY <1>c, <2>1, <2>6, <2>7, <4>1 DEF runvars, ClientTypes
      <3>. QED
        BY <2>5, <3>1, <3>2, TypeParts
    <2>9. Counts'
      BY <1>0, <2>1 DEF srvvars, runvars, Counts
    <2>10. Places'
      BY <1>0, <2>1, <2>4, NetPlaces DEF srvvars, runvars, Places
    <2>11. Locked'
      BY <1>0, <2>1, <2>6 DEF Locked, Sending
    <2>. QED
      BY <2>8, <2>9, <2>10, <2>11 DEF Base
  <1>5. ASSUME NEW t \in Calls, SendFails(t)
        PROVE  Base'
    <2>1. NetOk(link', c2s', s2c')
      BY <1>0, <1>5, NetKept DEF SendFails
    <2>2. TypeOK'
      <3>1. ServerTypes'
        BY <1>c, <1>5, <2>1 DEF SendFails, srvvars, runvars, ServerTypes
      <3>2. ClientTypes'
        BY <1>c, <1>5, <2>1 DEF SendFails, srvvars, runvars, ClientTypes
      <3>. QED
        BY <2>1, <3>1, <3>2, TypeParts
    <2>3. Counts'
      BY <1>0, <1>5 DEF SendFails, srvvars, runvars, Counts
    <2>4. Places'
      BY <1>0, <1>5, NetPlaces DEF SendFails, srvvars, runvars, Places
    <2>5. Locked'
      BY <1>0, <1>5 DEF SendFails, Locked, Sending
    <2>. QED
      BY <2>2, <2>3, <2>4, <2>5 DEF Base
  <1>6. ASSUME NEW t \in Calls, Age(t)
        PROVE  Base'
    BY <1>0, <1>6 DEF Age, netvars, srvvars, tvars, runvars, Base, Counts, Places, Aimed,
                      Locked, Sending
  <1>7. CASE Start
    BY <1>0, <1>7 DEF Start, netvars, srvvars, tvars, Base, Counts, Places, Aimed, Locked,
                      Sending
  <1>8. CASE Loop
    <2>1. TypeOK'
      BY <1>0, <1>8, RetriesAssumption DEF Loop, netvars, srvvars, tvars
    <2>2. Counts'
      BY <1>0, <1>8, RetriesAssumption DEF Loop, srvvars, Counts
    <2>3. Places'
      <3>1. rfd = None /\ \A k \in Conns : Aimed(k)' = Aimed(k)
        BY <1>0, <1>8 DEF Loop, tvars, Places, Aimed
      <3>2. \/ rpc' = "exit" /\ rfd' = None
            \/ rpc' = "head" /\ rfd' = sock /\ sock # None
            \/ rpc' = "connect" /\ rfd' = None /\ sock = None
        BY <1>8, <3>1 DEF Loop
      <3>3. UNCHANGED <<conn, link, c2s, s2c, sock, cli, srv>>
        BY <1>8 DEF Loop, netvars, srvvars
      <3>4. \A k \in Conns :
               /\ link'[k] # "closed" => Aimed(k)' \/ k = rfd'
               /\ link'[k] = "closed" => c2s'[k] = <<>> /\ s2c'[k] = <<>>
        BY <1>0, <1>a, <3>1, <3>3 DEF Places
      <3>. QED
        BY <1>0, <3>2, <3>3, <3>4 DEF Places
    <2>4. Locked'
      BY <1>0, <1>8 DEF Loop, tvars, Locked, Sending
    <2>. QED
      BY <2>1, <2>2, <2>3, <2>4 DEF Base
  <1>9. CASE Connect
    <2>1. conn + 1 \in Conns /\ conn \in Nat /\ conn \in Conns
      BY <1>0, <1>9, ConnsAssumption DEF Connect, Conns
    <2>2. sock = None /\ rfd = None
      BY <1>0, <1>9 DEF Connect, Places
    <2>3. TypeOK'
      BY <1>0, <1>9, <2>1 DEF Connect, srvvars, tvars
    <2>4. Counts'
      BY <1>0, <1>9 DEF Connect, srvvars, Counts
    <2>5. ASSUME NEW k \in Conns
          PROVE  /\ link'[k] # "closed" => Aimed(k)' \/ k = rfd'
                 /\ link'[k] = "closed" => c2s'[k] = <<>> /\ s2c'[k] = <<>>
      <3>1. CASE k = conn + 1
        BY <1>0, <1>9, <3>1 DEF Connect, Aimed
      <3>2. CASE k # conn + 1
        BY <1>0, <1>a, <1>9, <2>2, <3>2 DEF Connect, Aimed, tvars, Places
      <3>. QED
        BY <3>1, <3>2
    <2>6. Places'
      BY <1>0, <1>9, <2>1, <2>5 DEF Connect, srvvars, Places
    <2>7. Locked'
      BY <1>0, <1>9 DEF Connect, tvars, Locked, Sending
    <2>. QED
      BY <2>3, <2>4, <2>6, <2>7 DEF Base
  <1>10. CASE ConnectFails
    BY <1>0, <1>10, RetriesAssumption DEF ConnectFails, netvars, srvvars, tvars, Base,
       Counts, Places, Aimed, Locked, Sending
  <1>11. CASE Retry
    BY <1>0, <1>11, FdsAssumption DEF Retry, netvars, srvvars, tvars, Base,
       Counts, Places, Aimed, Locked, Sending
  <1>12. CASE RecvHead
    <2>1. rfd \in Conns /\ NetOk(link, c2s, [s2c EXCEPT ![rfd] = Tail(@)]) /\ Takes
      BY <1>0, <1>12, <1>b, BaseNet DEF RecvHead
    <2>2. NetOk(link', c2s', s2c')
      BY <2>1, NetKept DEF Takes
    <2>3. Head(s2c[rfd]) \in Units
      BY <1>0, <1>12, <2>1, StreamTypes DEF RecvHead
    <2>4. \/ rpc' = "top" /\ rfd' = None /\ got' = got
          \/ rpc' = "body" /\ rfd' = sock /\ got' \in Partial /\ got'.left > 0
      BY <1>12, <2>3, UnitTypes DEF RecvHead
    <2>5. TypeOK'
      <3>1. ServerTypes'
        BY <1>c, <1>12, <2>2, <2>4 DEF RecvHead, srvvars, tvars, ServerTypes
      <3>2. ClientTypes'
        BY <1>c, <1>12, <2>2, <2>4 DEF RecvHead, srvvars, tvars, ClientTypes
      <3>. QED
        BY <2>2, <3>1, <3>2, TypeParts
    <2>6. Counts'
      BY <1>0, <1>12, <2>4 DEF RecvHead, srvvars, Counts
    <2>7. Places'
      <3>1. \A k \in Conns :
               /\ link'[k] # "closed" => Aimed(k)' \/ k = rfd'
               /\ link'[k] = "closed" => c2s'[k] = <<>> /\ s2c'[k] = <<>>
        BY <2>1, NetPlaces DEF Takes
      <3>. QED
        BY <1>0, <1>12, <2>4, <3>1 DEF RecvHead, srvvars, Places
    <2>8. Locked'
      BY <1>0, <1>12 DEF RecvHead, tvars, Locked, Sending
    <2>. QED
      BY <2>5, <2>6, <2>7, <2>8 DEF Base
  <1>13. CASE RecvBody
    <2>1. rfd \in Conns /\ NetOk(link, c2s, [s2c EXCEPT ![rfd] = Tail(@)]) /\ Takes
      BY <1>0, <1>13, <1>b, BaseNet DEF RecvBody
    <2>2. NetOk(link', c2s', s2c')
      BY <2>1, NetKept DEF Takes
    <2>3. Head(s2c[rfd]) \in Units
      BY <1>0, <1>13, <2>1, StreamTypes DEF RecvBody
    <2>4. got' \in Partial /\ got'.left \in Nat
      BY <1>0, <1>13, <2>3, UnitTypes DEF RecvBody, Counts, Partial
    <2>5. \/ got'.left = 0 /\ rpc' = "callback" /\ rfd' = None
          \/ got'.left # 0 /\ rpc' = "body" /\ rfd' = sock
      BY <1>13 DEF RecvBody
    <2>6. TypeOK'
      <3>1. ServerTypes'
        BY <1>c, <1>13, <2>2, <2>4, <2>5 DEF RecvBody, srvvars, tvars, ServerTypes
      <3>2. ClientTypes'
        BY <1>c, <1>13, <2>2, <2>4, <2>5 DEF RecvBody, srvvars, tvars, ClientTypes
      <3>. QED
        BY <2>2, <3>1, <3>2, TypeParts
    <2>7. Counts'
      BY <1>0, <1>13, <2>4, <2>5 DEF RecvBody, srvvars, Counts
    <2>8. Places'
      <3>1. \A k \in Conns :
               /\ link'[k] # "closed" => Aimed(k)' \/ k = rfd'
               /\ link'[k] = "closed" => c2s'[k] = <<>> /\ s2c'[k] = <<>>
        BY <2>1, NetPlaces DEF Takes
      <3>. QED
        BY <1>0, <1>13, <2>5, <3>1 DEF RecvBody, srvvars, Places
    <2>9. Locked'
      BY <1>0, <1>13 DEF RecvBody, tvars, Locked, Sending
    <2>. QED
      BY <2>6, <2>7, <2>8, <2>9 DEF Base
  <1>14. CASE Callback
    <2>1. TypeOK'
      <3>1. NetOk(link', c2s', s2c') /\ ServerTypes'
        BY <1>0, <1>c, <1>14 DEF Callback, netvars, srvvars, ServerTypes
      <3>2. got.id \in Calls \cup {NoCall} /\ got.data \in Calls \cup {NoCall}
        BY <1>c DEF ClientTypes, Partial
      <3>3. ClientTypes'
        <4>1. NoFrame \in Partial
          BY UnitTypes
        <4>2. called' \subseteq [cbk : Calls, of : Calls \cup {NoCall}]
          BY <1>c, <1>14, <3>2 DEF Callback, ClientTypes
        <4>3. /\ request' \subseteq request /\ got' = NoFrame /\ rpc' = "top"
              /\ UNCHANGED <<conn, running, sock, aged, tvars, rfd, tries, leaked, spc, torn>>
          BY <1>14 DEF Callback, netvars
        <4>. QED
          BY <1>c, <4>1, <4>2, <4>3 DEF tvars, ClientTypes
      <3>. QED
        BY <3>1, <3>3, TypeParts
    <2>2. Counts' /\ Places'
      BY <1>0, <1>14 DEF Callback, netvars, srvvars, tvars, Counts, Places, Aimed
    <2>3. Locked'
      BY <1>0, <1>14 DEF Callback, tvars, Locked, Sending
    <2>. QED
      BY <2>1, <2>2, <2>3 DEF Base
  <1>15. CASE RecvTimesOut
    <2>1. NetOk(link', c2s', s2c')
      BY <1>0, <1>15, NetKept DEF RecvTimesOut
    <2>2. torn' \in BOOLEAN
      BY <1>0, <1>15, Zenon DEF RecvTimesOut
    <2>3. TypeOK'
      <3>1. ServerTypes'
        BY <1>c, <1>15, <2>1, <2>2, UnitTypes DEF RecvTimesOut, srvvars, tvars, ServerTypes
      <3>2. ClientTypes'
        BY <1>c, <1>15, <2>1, <2>2, UnitTypes DEF RecvTimesOut, srvvars, tvars, ClientTypes
      <3>. QED
        BY <2>1, <3>1, <3>2, TypeParts
    <2>4. Counts'
      BY <1>0, <1>15 DEF RecvTimesOut, srvvars, Counts
    <2>5. Places'
      BY <1>0, <1>15, NetPlaces DEF RecvTimesOut, srvvars, Places
    <2>6. Locked'
      BY <1>0, <1>15 DEF RecvTimesOut, tvars, Locked, Sending
    <2>. QED
      BY <2>3, <2>4, <2>5, <2>6 DEF Base
  <1>16. CASE RecvFails
    <2>1. NetOk(link', c2s', s2c')
      BY <1>0, <1>16, NetKept DEF RecvFails
    <2>2. TypeOK'
      <3>1. ServerTypes'
        BY <1>c, <1>16, <2>1, UnitTypes DEF RecvFails, srvvars, tvars, ServerTypes
      <3>2. ClientTypes'
        BY <1>c, <1>16, <2>1, UnitTypes DEF RecvFails, srvvars, tvars, ClientTypes
      <3>. QED
        BY <2>1, <3>1, <3>2, TypeParts
    <2>3. Counts'
      BY <1>0, <1>16 DEF RecvFails, srvvars, Counts
    <2>4. Places'
      BY <1>0, <1>16, NetPlaces DEF RecvFails, srvvars, Places
    <2>5. Locked'
      BY <1>0, <1>16 DEF RecvFails, tvars, Locked, Sending
    <2>. QED
      BY <2>2, <2>3, <2>4, <2>5 DEF Base
  <1>17. CASE Clean
    BY <1>0, <1>17 DEF Clean, netvars, srvvars, tvars, Base, Counts, Places, Aimed, Locked,
                       Sending
  <1>18. CASE Stop
    <2>1. NetOk(link', c2s', s2c')
      BY <1>0, <1>18, NetKept DEF Stop
    <2>2. sock' \in {None, sock} /\ conn' = conn /\ UNCHANGED <<srvvars, tvars, runvars>>
      BY <1>18 DEF Stop
    <2>3. TypeOK'
      <3>1. ServerTypes'
        BY <1>c, <2>2 DEF srvvars, ServerTypes
      <3>2. ClientTypes'
        <4>1. running' \in BOOLEAN /\ spc' \in {"idle", "close", "join", "done"}
          BY <1>c, <1>18, Zenon DEF Stop, ClientTypes
        <4>2. UNCHANGED <<request, aged, torn>>
          BY <1>18 DEF Stop
        <4>. QED
          BY <1>c, <2>2, <4>1, <4>2 DEF tvars, runvars, ClientTypes
      <3>. QED
        BY <2>1, <3>1, <3>2, TypeParts
    <2>4. Counts'
      BY <1>0, <2>2 DEF srvvars, runvars, Counts
    <2>5. Places'
      <3>1. \A k \in Conns :
               /\ link'[k] # "closed" => Aimed(k)' \/ k = rfd'
               /\ link'[k] = "closed" => c2s'[k] = <<>> /\ s2c'[k] = <<>>
        BY <1>0, <1>18, NetPlaces DEF Stop
      <3>. QED
        BY <1>0, <2>2, <3>1 DEF srvvars, runvars, Places
    <2>6. Locked'
      BY <1>0, <2>2 DEF tvars, Locked, Sending
    <2>. QED
      BY <2>3, <2>4, <2>5, <2>6 DEF Base
  <1>19. ASSUME ServerRun \/ ServerExits \/ ServerStarts, UNCHANGED clientvars
         PROVE  Base'
    <2>1. /\ UNCHANGED <<conn, running, sock, request, aged, tpc, sfd, begunOn, rpc, rfd, got>>
          /\ UNCHANGED <<tries, leaked, called, spc, torn>>
      BY <1>19 DEF clientvars, tvars, runvars, ServerRun, ServerExits, ServerStarts,
         ServerAccepts, ServerReadsHead, ServerReadsBody, ServerReplies, ServerLosesClient,
         netvars
    <2>2. Locked'
      BY <1>0, <2>1 DEF Locked, Sending
    <2>3. \A k \in Conns : Aimed(k)' = Aimed(k)
      BY <2>1 DEF Aimed
    <2>. DEFINE ServerOk ==
            /\ NetOk(link', c2s', s2c')
            /\ \A k \in Conns : link'[k] # "closed" => link[k] # "closed"
            /\ server' \in {"up", "down"} /\ crashes' \in 0 .. MaxCrashes /\ cli' \in 0 .. conn
            /\ srv' \in {"head", "body", "reply", "replybody"} /\ frame' \in Partial
            /\ srv' # "head" => frame'.size > 0
            /\ srv' \in {"body", "replybody"} => frame'.left > 0
            /\ cli' = None => srv' = "head"
    <2>4. ServerOk => Base'
      <3>. SUFFICES ASSUME ServerOk
                    PROVE  Base'
        OBVIOUS
      <3>1. TypeOK'
        <4>1. ServerTypes' /\ ClientTypes'
          BY <1>c, <2>1 DEF ServerTypes, ClientTypes
        <4>. QED
          BY <4>1, TypeParts
      <3>2. Counts' /\ Places'
        BY <1>0, <2>1, <2>3 DEF Counts, Places, NetOk
      <3>. QED
        BY <2>2, <3>1, <3>2 DEF Base
    <2>5. Together => cli \in Conns /\ link[cli] = "up"
      BY <1>0, ConnsAssumption DEF Together, Conns
    <2>6. CASE ServerAccepts
      <3>1. cli' \in 0 .. conn /\ srv' = "head"
        <4>1. PICK k \in Conns : link[k] = "up" /\ cli' = k
          BY <2>6 DEF ServerAccepts
        <4>2. Aimed(k) \/ k = rfd
          BY <1>0, <4>1 DEF Places
        <4>3. k \in 0 .. conn
          BY <1>0, <4>2 DEF Aimed
        <4>. QED
          BY <1>0, <2>6, <4>1, <4>3 DEF ServerAccepts, Places
      <3>. QED
        BY <1>0, <2>4, <2>6, <3>1 DEF ServerAccepts, netvars
    <2>7. CASE ServerReadsHead \/ ServerReadsBody
      <3>1. cli \in Conns /\ link[cli] = "up" /\ TakesRequest /\ UNCHANGED <<link, s2c, cli, server, crashes>>
            /\ cli # None
        BY <2>5, <2>7 DEF ServerReadsHead, ServerReadsBody, Together
      <3>2. /\ Head(c2s[cli]) \in Units
            /\ Tail(c2s[cli]) \in Seq(Units) /\ Len(Tail(c2s[cli])) <= Room
        BY <1>0, <3>1, StreamTypes DEF TakesRequest
      <3>3. NetOk(link', c2s', s2c')
        BY <1>0, <3>1, <3>2 DEF TakesRequest, NetOk
      <3>4. CASE ServerReadsHead
        BY <1>0, <2>4, <3>1, <3>2, <3>3, <3>4, UnitTypes DEF ServerReadsHead, Counts
      <3>5. CASE ServerReadsBody
        <4>1. frame' \in Partial /\ frame'.left \in Nat /\ frame'.size > 0
          BY <1>0, <3>2, <3>5, UnitTypes DEF ServerReadsBody, Counts, Partial
        <4>2. srv' \in {"body", "reply"} /\ (srv' = "body" => frame'.left > 0)
          BY <3>5, <4>1 DEF ServerReadsBody
        <4>. QED
          BY <1>0, <2>4, <3>1, <3>3, <4>1, <4>2
      <3>. QED
        BY <2>7, <3>4, <3>5
    <2>8. CASE ServerReplies
      <3>1. /\ cli \in Conns /\ cli # None /\ link[cli] = "up" /\ Len(s2c[cli]) < Room
            /\ UNCHANGED <<link, c2s, cli, server, crashes>>
        BY <2>5, <2>8 DEF ServerReplies, Together
      <3>2. \E unit \in Units : s2c' = [s2c EXCEPT ![cli] = Append(@, unit)]
        BY <1>0, <2>8, UnitTypes DEF ServerReplies, Partial
      <3>3. NetOk(link', c2s', s2c')
        <4>1. PICK unit \in Units : s2c' = [s2c EXCEPT ![cli] = Append(@, unit)]
          BY <3>2
        <4>2. Append(s2c[cli], unit) \in Seq(Units) /\ Len(Append(s2c[cli], unit)) <= Room
          BY <1>0, <3>1, StreamTypes
        <4>. QED
          BY <1>0, <3>1, <4>1, <4>2 DEF NetOk
      <3>4. /\ srv' \in {"head", "replybody"} /\ frame' \in Partial
            /\ srv' # "head" => frame'.size > 0 /\ frame'.left > 0
        <4>1. frame \in Partial /\ frame.size \in Nat /\ frame.left \in Nat /\ NoFrame \in Partial
          BY <1>0, UnitTypes DEF Partial
        <4>2. \A n \in Nat : /\ [frame EXCEPT !.left = n] \in Partial
                             /\ [frame EXCEPT !.left = n].left = n
                             /\ [frame EXCEPT !.left = n].size = frame.size
          BY <4>1 DEF Partial
        <4>3. frame.size > 0 /\ (srv = "replybody" => frame.left > 0)
          BY <1>0, <2>8 DEF ServerReplies, Counts
        <4>4. CASE srv = "reply"
          BY <2>8, <4>1, <4>2, <4>3, <4>4 DEF ServerReplies
        <4>5. CASE srv = "replybody"
          <5>1. CASE frame.left = 1
            BY <2>8, <4>1, <4>5, <5>1 DEF ServerReplies
          <5>2. CASE frame.left # 1
            <6>1. frame.left - 1 \in Nat /\ frame.left - 1 > 0
              BY <4>1, <4>3, <4>5, <5>2
            <6>. QED
              BY <2>8, <4>1, <4>2, <4>3, <4>5, <5>2, <6>1 DEF ServerReplies
          <5>. QED
            BY <5>1, <5>2
        <4>. QED
          BY <2>8, <4>4, <4>5 DEF ServerReplies
      <3>. QED
        BY <1>0, <2>4, <3>1, <3>3, <3>4
    <2>9. CASE ServerLosesClient
      BY <1>0, <1>c, <2>4, <2>9, UnitTypes DEF ServerLosesClient, netvars
    <2>10. CASE ServerExits
      <3>1. NetOk(link', c2s', s2c')
        BY <1>0, <2>10, EmptySeq, RoomAssumption DEF ServerExits, NetOk
      <3>2. \A k \in Conns : link'[k] # "closed" => link[k] # "closed"
        BY <2>10 DEF ServerExits
      <3>3. crashes' \in 0 .. MaxCrashes
        BY <1>0, <2>10, CrashAssumption DEF ServerExits
      <3>4. server' = "down" /\ cli' = 0 /\ srv' = "head" /\ frame' \in Partial
        BY <2>10, UnitTypes DEF ServerExits
      <3>5. 0 \in 0 .. conn
        BY <1>c
      <3>. QED
        BY <2>4, <3>1, <3>2, <3>3, <3>4, <3>5
    <2>11. CASE ServerStarts
      BY <1>0, <2>4, <2>11 DEF ServerStarts, netvars, Counts, Places
    <2>. QED
      BY <1>19, <2>6, <2>7, <2>8, <2>9, <2>10, <2>11 DEF ServerRun
  <1>20. CASE UNCHANGED vars
    BY <1>0, <1>20 DEF vars, netvars, srvvars, tvars, runvars, Base, Counts, Places, Aimed,
                       Locked, Sending
  <1>21. ASSUME NEW t \in Calls, Register(t) \/ SendRequest(t) \/ Age(t)
         PROVE  Base'
    BY <1>1, <1>2, <1>3, <1>4, <1>5, <1>6, <1>21 DEF SendRequest
  <1>22. CASE Run
    BY <1>7, <1>8, <1>9, <1>10, <1>11, <1>12, <1>13, <1>14, <1>15, <1>16, <1>17, <1>22
       DEF Run
  <1>. QED
    BY <1>18, <1>19, <1>20, <1>21, <1>22 DEF Next

-----------------------------------------------------------------------------
(* What steps elsewhere leave of the streams *)

LEMMA RequestsKept ==
    ASSUME NEW k \in Conns, RequestsOn(k),
           link'[k] = "up" => /\ link[k] = "up" /\ c2s'[k] = c2s[k]
                              /\ ServerReads(k)' = ServerReads(k),
           link'[k] = "up" /\ Aimed(k)' =>
              Aimed(k) /\ \A t \in Calls : Begun(t, k)' <=> Begun(t, k)
    PROVE  RequestsOn(k)'
  <1>. SUFFICES ASSUME link'[k] = "up"
                PROVE  RequestsOn(k)'
    BY DEF RequestsOn
  <1>1. /\ c2s'[k] = c2s[k] /\ ServerReads(k)' = ServerReads(k)
        /\ Framed(ServerReads(k), c2s[k])
    BY DEF RequestsOn
  <1>2. Framed(ServerReads(k), c2s[k])'
    BY <1>1 DEF Framed
  <1>3. OwedAfter(ServerReads(k), c2s[k])' = OwedAfter(ServerReads(k), c2s[k])
    BY <1>1 DEF OwedAfter
  <1>. QED
    BY <1>2, <1>3 DEF RequestsOn

LEMMA ResponsesKept ==
    ASSUME NEW k \in Conns, ResponsesOn(k),
           k \in {sock', rfd'} =>
              /\ k \in {sock, rfd} /\ s2c'[k] = s2c[k]
              /\ ClientReads(k)' = ClientReads(k)
              /\ link'[k] = "up" => link[k] = "up" /\ ServerWrites(k)' = ServerWrites(k)
    PROVE  ResponsesOn(k)'
  <1>. SUFFICES ASSUME k \in {sock', rfd'}
                PROVE  ResponsesOn(k)'
    BY DEF ResponsesOn
  <1>1. /\ s2c'[k] = s2c[k] /\ ClientReads(k)' = ClientReads(k)
        /\ Framed(ClientReads(k), s2c[k])
    BY DEF ResponsesOn
  <1>2. Framed(ClientReads(k), s2c[k])'
    BY <1>1 DEF Framed
  <1>3. OwedAfter(ClientReads(k), s2c[k])' = OwedAfter(ClientReads(k), s2c[k])
    BY <1>1 DEF OwedAfter
  <1>. QED
    BY <1>2, <1>3 DEF ResponsesOn

\* Connections are left as they are or closed, and what the client refers to can
\* only become less.
LEMMA SoundKept ==
    ASSUME Requests, Responses, UNCHANGED <<cli, srv, frame>>,
           \A k \in Conns :
              \/ link'[k] = link[k] /\ c2s'[k] = c2s[k] /\ s2c'[k] = s2c[k]
              \/ link'[k] = "closed" /\ k # sock' /\ k # rfd',
           \A k \in Conns :
              k \in {sock', rfd'} =>
                 k \in {sock, rfd} /\ ClientReads(k)' = ClientReads(k),
           \A k \in Conns :
              link[k] = "up" /\ link'[k] = "up" /\ Aimed(k)' =>
                 Aimed(k) /\ \A t \in Calls : Begun(t, k)' <=> Begun(t, k)
    PROVE  Requests' /\ Responses'
  <1>. SUFFICES ASSUME NEW k \in Conns
                PROVE  RequestsOn(k)' /\ ResponsesOn(k)'
    BY DEF Requests, Responses
  <1>1. RequestsOn(k) /\ ResponsesOn(k)
    BY DEF Requests, Responses
  <1>2. link'[k] = "up" => /\ link[k] = "up" /\ c2s'[k] = c2s[k]
                           /\ ServerReads(k)' = ServerReads(k)
                           /\ ServerWrites(k)' = ServerWrites(k)
    BY DEF ServerReads, ServerWrites
  <1>3. link'[k] = "up" /\ Aimed(k)' =>
           Aimed(k) /\ \A t \in Calls : Begun(t, k)' <=> Begun(t, k)
    BY <1>2
  <1>4. RequestsOn(k)'
    BY <1>1, <1>2, <1>3, RequestsKept
  <1>5. k \in {sock', rfd'} =>
              /\ k \in {sock, rfd} /\ s2c'[k] = s2c[k]
              /\ ClientReads(k)' = ClientReads(k)
              /\ link'[k] = "up" => link[k] = "up" /\ ServerWrites(k)' = ServerWrites(k)
    BY <1>2
  <1>6. ResponsesOn(k)'
    BY <1>1, <1>5, ResponsesKept
  <1>. QED
    BY <1>4, <1>6

\* A step by which no stream becomes longer or shorter.
LEMMA NetShrinks ==
    ASSUME Base, NetBecomes(link, c2s, s2c)
    PROVE  \A k \in Conns :
              \/ link'[k] = link[k] /\ c2s'[k] = c2s[k] /\ s2c'[k] = s2c[k]
              \/ link'[k] = "closed" /\ k # sock' /\ k # rfd'
  BY BaseNet, NetKept

-----------------------------------------------------------------------------
(* The steps that read and write *)

LEMMA OwedTypes ==
    ASSUME NEW s \in Seq(Units), NEW owed \in Calls \cup {NoCall}
    PROVE  OwedAfter(owed, s) \in Calls \cup {NoCall}
  <1>1. CASE s = <<>>
    BY <1>1 DEF OwedAfter
  <1>2. CASE s # <<>>
    <2>1. Len(s) \in Nat \ {0} /\ s[Len(s)] \in Units
      BY <1>2, EmptySeq, LenProperties, ElementOfSeq
    <2>. QED
      BY <1>2, <2>1 DEF OwedAfter, Owed, Units
  <1>. QED
    BY <1>1, <1>2

LEMMA SendUnitSound ==
    ASSUME Base, Whole, Requests, Responses, ~ torn',
           NEW t \in Calls, SendUnit(t)
    PROVE  Whole' /\ Requests' /\ Responses'
  <1>0. TypeOK /\ Locked /\ t # NoCall
    BY NoCallAssumption DEF Base
  <1>. PICK k \in Conns : k = Target(t)
    BY TargetFacts DEF SendUnit
  <1>1. /\ Open(k) /\ Len(c2s[k]) < Room
        /\ sfd' = [sfd EXCEPT ![t] = None]
        /\ UNCHANGED <<cli, srv, frame, sock, rpc, rfd, got, called>>
    BY DEF SendUnit, srvvars, runvars
  <1>2. k \in Conns /\ link[k] = "up" /\ Aimed(k) /\ k \in 0 .. conn
    BY <1>1, TargetFacts
  <1>3. Whole'
    BY <1>1 DEF Whole
  <1>4. \A j \in Conns : Aimed(j)' => Aimed(j)
    <2>1. \A j \in Conns : j # None
      BY DEF Conns, None
    <2>2. \A u \in Calls : sfd'[u] = sfd[u] \/ sfd'[u] = None
      BY <1>0, <1>1 DEF TypeOK
    <2>. QED
      BY <1>1, <2>1, <2>2 DEF Aimed
  <1>5. \A j \in Conns : ClientReads(j)' = ClientReads(j)
    BY <1>1 DEF ClientReads
  <1>6. /\ Sending(t) /\ \A u \in Calls : u # t => ~ Sending(u)
    BY <1>0 DEF SendUnit, Locked, Sending
  <1>7. \A u \in Calls, j \in Conns : u # t => ~ Begun(u, j) /\ ~ Begun(u, j)'
    <2>1. \A u \in Calls : u # t => tpc'[u] = tpc[u]
      BY <1>0 DEF SendUnit, TypeOK
    <2>. QED
      BY <1>6, <2>1 DEF Begun, Sending
  <1>8. CASE tpc[t] = "head"
    <2>1. NetBecomes(link, c2s, s2c) /\ tpc' = [tpc EXCEPT ![t] = "rest"]
      BY <1>8 DEF SendUnit
    <2>2. \A j \in Conns : ~ Begun(t, j) /\ ~ Begun(t, j)'
      BY <1>0, <1>8, <2>1 DEF Begun, TypeOK
    <2>3. \A j \in Conns :
             \/ link'[j] = link[j] /\ c2s'[j] = c2s[j] /\ s2c'[j] = s2c[j]
             \/ link'[j] = "closed" /\ j # sock' /\ j # rfd'
      BY <2>1, NetShrinks
    <2>4. \A j \in Conns : j \in {sock', rfd'} =>
             j \in {sock, rfd} /\ ClientReads(j)' = ClientReads(j)
      BY <1>1, <1>5
    <2>5. \A u \in Calls, j \in Conns : Begun(u, j)' <=> Begun(u, j)
      BY <1>7, <2>2
    <2>. QED
      BY <1>1, <1>3, <1>4, <2>3, <2>4, <2>5, SoundKept
  <1>9. CASE tpc[t] # "head"
    \* The unit, the body owed before and after it, on the connection begun.
    <2>1. PICK unit \in Units :
             /\ NetBecomes(link, [c2s EXCEPT ![k] = Append(@, unit)], s2c)
             /\ \/ /\ tpc[t] = "rest" /\ tpc' = [tpc EXCEPT ![t] = "body"]
                   /\ unit = HeadUnit(t, 1)
                \/ /\ tpc[t] = "body" /\ tpc' = [tpc EXCEPT ![t] = "done"]
                   /\ unit = BodyUnit(t)
             /\ begunOn[t] = k /\ begunOn' = begunOn
      <3>1. HeadUnit(t, 1) \in Units /\ BodyUnit(t) \in Units
        BY UnitTypes
      <3>2. CASE tpc[t] = "rest"
        <4>1. /\ begunOn[t] = k /\ begunOn' = [begunOn EXCEPT ![t] = k]
              /\ tpc' = [tpc EXCEPT ![t] = "body"]
              /\ Puts(k, HeadUnit(t, 1))
          BY <3>2 DEF SendUnit
        <4>2. begunOn' = begunOn
          BY <1>0, <4>1 DEF TypeOK
        <4>. QED
          BY <3>1, <3>2, <4>1, <4>2 DEF Puts
      <3>3. CASE tpc[t] = "body"
        <4>1. /\ begunOn[t] = k /\ begunOn' = begunOn
              /\ tpc' = [tpc EXCEPT ![t] = "done"]
              /\ Puts(k, BodyUnit(t))
          BY <3>3 DEF SendUnit
        <4>. QED
          BY <3>1, <3>3, <4>1 DEF Puts
      <3>. QED
        BY <1>6, <1>9, <3>2, <3>3 DEF Sending
    <2>2. /\ tpc[t] = "rest" => tpc'[t] = "body"
          /\ tpc[t] = "body" => tpc'[t] = "done"
      BY <1>0, <2>1 DEF TypeOK
    <2>3. ASSUME NEW j \in Conns
          PROVE  /\ j # k => ~ Begun(t, j) /\ ~ Begun(t, j)'
                 /\ j = k => (Begun(t, j) <=> tpc[t] = "body")
                 /\ j = k => (Begun(t, j)' <=> tpc[t] = "rest")
      BY <1>6, <1>9, <2>1, <2>2 DEF Begun, Sending
    <2>4. ASSUME NEW j \in Conns
          PROVE  \/ /\ link'[j] = link[j] /\ s2c'[j] = s2c[j]
                    /\ c2s'[j] = [c2s EXCEPT ![k] = Append(@, unit)][j]
                 \/ link'[j] = "closed" /\ j # sock' /\ j # rfd'
      <3>. DEFINE requests == [c2s EXCEPT ![k] = Append(@, unit)]
      <3>1. NetOk(link, requests, s2c) /\ NetBecomes(link, requests, s2c)
        BY <1>1, <2>1, BaseNet
      <3>. HIDE DEF requests
      <3>2. \/ link'[j] = link[j] /\ c2s'[j] = requests[j] /\ s2c'[j] = s2c[j]
            \/ link'[j] = "closed" /\ j # sock' /\ j # rfd'
        BY <3>1, NetKept
      <3>. QED
        BY <3>2 DEF requests
    <2>5. ASSUME NEW j \in Conns
          PROVE  ResponsesOn(j)'
      <3>1. link'[j] = "up" => link[j] = "up" /\ ServerWrites(j)' = ServerWrites(j)
        BY <1>1, <2>4 DEF ServerWrites
      <3>2. j \in {sock', rfd'} =>
              /\ j \in {sock, rfd} /\ s2c'[j] = s2c[j] /\ ClientReads(j)' = ClientReads(j)
              /\ link'[j] = "up" => link[j] = "up" /\ ServerWrites(j)' = ServerWrites(j)
        BY <1>1, <1>5, <2>4, <3>1
      <3>. QED
        BY <3>2, ResponsesKept DEF Responses
    <2>6. ASSUME NEW j \in Conns, j # k
          PROVE  RequestsOn(j)'
      <3>1. link'[j] = "up" => /\ link[j] = "up" /\ c2s'[j] = c2s[j]
                               /\ ServerReads(j)' = ServerReads(j)
        BY <1>0, <1>1, <2>4, <2>6 DEF ServerReads, TypeOK
      <3>2. \A u \in Calls : Begun(u, j)' <=> Begun(u, j)
        BY <1>7, <2>3, <2>6
      <3>. QED
        BY <1>4, <3>1, <3>2, RequestsKept DEF Requests
    <2>7. RequestsOn(k)'
      <3>. SUFFICES ASSUME link'[k] = "up"
                    PROVE  RequestsOn(k)'
        BY DEF RequestsOn
      <3>. DEFINE owed == ServerReads(k)
                  after == OwedAfter(owed, c2s[k])
      <3>1. c2s'[k] = Append(c2s[k], unit) /\ ServerReads(k)' = owed
        BY <1>0, <1>1, <1>2, <2>4 DEF TypeOK, ServerReads
      <3>2. Framed(owed, c2s[k]) /\ \A u \in Calls : Begun(u, k) <=> after = u
        BY <1>2 DEF Requests, RequestsOn
      <3>3. owed \in Calls \cup {NoCall} /\ c2s[k] \in Seq(Units)
        BY <1>0, <1>2 DEF ServerReads, TypeOK, Partial
      <3>4. after \in Calls \cup {NoCall}
        BY <3>3, OwedTypes
      <3>. HIDE DEF owed, after
      <3>5. Fits(after, unit) /\ Owed(unit) = IF tpc[t] = "rest" THEN t ELSE NoCall
        <4>1. CASE tpc[t] = "rest"
          <5>1. after = NoCall
            BY <1>2, <1>7, <2>3, <3>2, <3>4, <4>1
          <5>. QED
            BY <2>1, <4>1, <5>1, FitsFacts
        <4>2. CASE tpc[t] = "body"
          <5>1. after = t
            BY <1>2, <2>3, <3>2, <4>2
          <5>. QED
            BY <2>1, <4>2, <5>1, FitsFacts
        <4>. QED
          BY <2>1, <4>1, <4>2
      <3>6. /\ Framed(owed, Append(c2s[k], unit))
            /\ OwedAfter(owed, Append(c2s[k], unit)) = Owed(unit)
        BY <3>2, <3>3, <3>5, FramedAppend DEF after
      <3>7. Framed(ServerReads(k), c2s[k])'
        BY <3>1, <3>6 DEF Framed
      <3>8. OwedAfter(ServerReads(k), c2s[k])' = Owed(unit)
        BY <3>1, <3>6 DEF OwedAfter
      <3>9. \A u \in Calls : Begun(u, k)' <=> Owed(unit) = u
        BY <1>0, <1>2, <1>7, <2>1, <2>3, <3>5, NoCallAssumption
      <3>. QED
        BY <3>7, <3>8, <3>9 DEF RequestsOn
    <2>. QED
      BY <1>3, <2>5, <2>6, <2>7 DEF Requests, Responses
  <1>. QED
    BY <1>8, <1>9

\* A unit read by the client leaves its stream, on the connection it is read from.
LEMMA TakesKept ==
    ASSUME Base, Takes, rfd \in Conns, s2c[rfd] # <<>>, sock' = sock, sfd' = sfd
    PROVE  \A k \in Conns :
              /\ link'[k] = "up" => link[k] = "up" /\ c2s'[k] = c2s[k]
              /\ Aimed(k)' <=> Aimed(k)
              /\ k \in {sock', rfd'} /\ k = rfd => s2c'[k] = Tail(s2c[k])
  <1>. DEFINE responses == [s2c EXCEPT ![rfd] = Tail(@)]
  <1>1. NetOk(link, c2s, responses) /\ NetBecomes(link, c2s, responses)
    BY BaseNet DEF Takes
  <1>2. responses[rfd] = Tail(s2c[rfd])
    BY DEF Base, TypeOK
  <1>. HIDE DEF responses
  <1>3. \A k \in Conns :
           \/ link'[k] = link[k] /\ c2s'[k] = c2s[k] /\ s2c'[k] = responses[k]
           \/ link'[k] = "closed" /\ k # sock' /\ k # rfd'
    BY <1>1, NetKept
  <1>4. \A k \in Conns : Aimed(k)' <=> Aimed(k)
    BY DEF Aimed
  <1>. QED
    BY <1>2, <1>3, <1>4

LEMMA RecvSound ==
    ASSUME Base, Whole, Requests, Responses, RecvHead \/ RecvBody
    PROVE  Whole' /\ Requests' /\ Responses'
  <1>0. TypeOK /\ Places
    BY DEF Base
  <1>1. /\ UNCHANGED <<conn, cli, srv, frame, sock, tpc, sfd, begunOn, called>>
        /\ Takes /\ rfd # None /\ s2c[rfd] # <<>>
    BY DEF RecvHead, RecvBody, srvvars, tvars
  <1>2. rfd \in Conns /\ sock \in {None, rfd}
    BY <1>0, <1>1, ConnsAssumption DEF TypeOK, Conns, None, Places
  <1>. PICK r \in Conns : r = rfd
    BY <1>2
  <1>3. \A k \in Conns :
           /\ link'[k] = "up" => link[k] = "up" /\ c2s'[k] = c2s[k]
           /\ Aimed(k)' <=> Aimed(k)
           /\ k \in {sock', rfd'} /\ k = r => s2c'[k] = Tail(s2c[k])
    BY <1>1, TakesKept
  <1>4. \A t \in Calls, k \in Conns : Begun(t, k)' <=> Begun(t, k)
    BY <1>1 DEF Begun
  <1>5. Requests'
    <2>. SUFFICES ASSUME NEW k \in Conns
                  PROVE  RequestsOn(k)'
      BY DEF Requests
    <2>1. link'[k] = "up" => /\ link[k] = "up" /\ c2s'[k] = c2s[k]
                             /\ ServerReads(k)' = ServerReads(k)
      BY <1>1, <1>3 DEF ServerReads
    <2>2. link'[k] = "up" /\ Aimed(k)' =>
             Aimed(k) /\ \A t \in Calls : Begun(t, k)' <=> Begun(t, k)
      BY <1>3, <1>4
    <2>. QED
      BY <2>1, <2>2, RequestsKept DEF Requests
  <1>. DEFINE unit == Head(s2c[r])
              rest == Tail(s2c[r])
              owed == ClientReads(r)
  <1>6. /\ s2c[r] \in Seq(Units) /\ s2c[r] # <<>>
        /\ Framed(owed, s2c[r])
        /\ link[r] = "up" => OwedAfter(owed, s2c[r]) = ServerWrites(r)
    BY <1>0, <1>1 DEF TypeOK, Responses, ResponsesOn
  <1>7. /\ Fits(owed, unit)
        /\ Framed(Owed(unit), rest)
        /\ OwedAfter(Owed(unit), rest) = OwedAfter(owed, s2c[r])
    BY <1>6, FramedTail
  <1>8. ASSUME rfd' \in {sock', None},
               r = sock' => ClientReads(r)' = Owed(unit)
        PROVE  Responses'
    <2>. SUFFICES ASSUME NEW k \in Conns, k \in {sock', rfd'}
                  PROVE  ResponsesOn(k)'
      BY DEF Responses, ResponsesOn
    <2>1. k = r /\ k = sock'
      BY <1>1, <1>2, <1>8 DEF Conns, None
    <2>2. s2c'[k] = rest /\ ClientReads(k)' = Owed(unit)
      BY <1>3, <1>8, <2>1
    <2>3. Framed(ClientReads(k), s2c[k])'
      BY <1>7, <2>2 DEF Framed
    <2>4. OwedAfter(ClientReads(k), s2c[k])' = OwedAfter(owed, s2c[r])
      BY <1>7, <2>2 DEF OwedAfter
    <2>5. link'[k] = "up" => link[k] = "up" /\ ServerWrites(k)' = ServerWrites(k)
      BY <1>1, <1>3 DEF ServerWrites
    <2>. QED
      BY <1>6, <2>1, <2>3, <2>4, <2>5 DEF ResponsesOn
  \* A header is read where one is due.
  <1>9. CASE RecvHead
    <2>1. owed = NoCall
      BY <1>9 DEF RecvHead, ClientReads
    <2>. PICK o \in Calls : o = Owed(unit) /\ Header(unit) = {Begins(o, 1)}
      BY <1>7, <2>1, FitsFacts
    <2>2. PICK f \in Header(unit) :
             \/ f.size = 0 /\ rpc' = "top" /\ rfd' = None /\ UNCHANGED got
             \/ f.size > 0 /\ got' = f /\ rpc' = "body" /\ rfd' = sock
      BY <1>9 DEF RecvHead
    <2>3. f = Begins(o, 1) /\ f.size = 1 /\ f.left = 1 /\ f.id = o
      BY DEF Begins
    <2>4. got' = f /\ rpc' = "body" /\ rfd' = sock
      BY <2>2, <2>3
    <2>5. r = sock' => ClientReads(r)' = Owed(unit)
      BY <1>1, <2>3, <2>4 DEF ClientReads
    <2>6. Responses'
      BY <1>1, <1>8, <2>4, <2>5
    <2>7. Whole'
      BY <1>1, <2>3, <2>4 DEF Whole
    <2>. QED
      BY <1>5, <2>6, <2>7
  \* A body is that of the response whose header was read.
  <1>10. CASE RecvBody
    <2>1. /\ owed = got.id /\ got.id \in Calls /\ got.left = 1 /\ got.size = 1
          /\ got \in Partial
      BY <1>0, <1>10 DEF RecvBody, ClientReads, Whole, TypeOK
    <2>2. unit.call = got.id /\ Owed(unit) = NoCall
      BY <1>7, <2>1, FitsFacts
    <2>3. got'.id = got.id /\ got'.data = got.id /\ got'.left = 0
      BY <1>10, <2>1, <2>2 DEF RecvBody, Extend, Partial
    <2>4. rpc' = "callback" /\ rfd' = None
      BY <1>10, <2>3 DEF RecvBody
    <2>5. ClientReads(r)' = Owed(unit)
      BY <2>2, <2>4 DEF ClientReads
    <2>6. Responses'
      BY <1>8, <2>4, <2>5
    <2>7. Whole'
      BY <1>1, <2>1, <2>3, <2>4 DEF Whole
    <2>. QED
      BY <1>5, <2>6, <2>7
  <1>. QED
    BY <1>9, <1>10

LEMMA ServerSound ==
    ASSUME Base, Whole, Requests, Responses, ServerRun, UNCHANGED clientvars
    PROVE  Whole' /\ Requests' /\ Responses'
  <1>0. TypeOK /\ Places
    BY DEF Base
  <1>1. /\ UNCHANGED <<sock, tpc, sfd, begunOn, rpc, rfd, got, called>>
        /\ UNCHANGED <<conn, link>>
    BY DEF clientvars, tvars, runvars, ServerRun, ServerAccepts, ServerReadsHead,
           ServerReadsBody, ServerReplies, ServerLosesClient, netvars
  <1>2. /\ \A k \in Conns : Aimed(k)' = Aimed(k) /\ ClientReads(k)' = ClientReads(k)
        /\ \A t \in Calls, k \in Conns : Begun(t, k)' = Begun(t, k)
    BY <1>1 DEF Aimed, ClientReads, Begun
  <1>3. ASSUME NEW k \in Conns, c2s'[k] = c2s[k], ServerReads(k)' = ServerReads(k)
        PROVE  RequestsOn(k)'
    BY <1>1, <1>2, <1>3, RequestsKept DEF Requests
  <1>4. ASSUME NEW k \in Conns, s2c'[k] = s2c[k], ServerWrites(k)' = ServerWrites(k)
        PROVE  ResponsesOn(k)'
    BY <1>1, <1>2, <1>4, ResponsesKept DEF Responses
  <1>5. CASE ServerAccepts \/ ServerLosesClient
    <2>1. srv' = "head" /\ UNCHANGED <<c2s, s2c>>
      BY <1>0, <1>5 DEF ServerAccepts, ServerLosesClient, netvars, Places
    <2>2. \A k \in Conns : /\ ServerReads(k) = NoCall /\ ServerWrites(k) = NoCall
                           /\ ServerReads(k)' = NoCall /\ ServerWrites(k)' = NoCall
      BY <1>5, <2>1 DEF ServerReads, ServerWrites, ServerAccepts, ServerLosesClient,
                        Together, Conns, None
    <2>3. Whole'
      BY <1>1, <2>1 DEF Whole
    <2>. QED
      BY <1>3, <1>4, <2>1, <2>2, <2>3 DEF Requests, Responses
  <1>6. CASE ServerReadsHead \/ ServerReadsBody \/ ServerReplies
    <2>1. Together /\ cli' = cli
      BY <1>6 DEF ServerReadsHead, ServerReadsBody, ServerReplies
    <2>. PICK c \in Conns : c = cli /\ link[c] = "up"
      BY <1>0, <2>1, ConnsAssumption DEF Together, TypeOK, Conns, None
    <2>2. \A k \in Conns : k # c => /\ ServerReads(k) = NoCall /\ ServerWrites(k) = NoCall
                                   /\ ServerReads(k)' = NoCall /\ ServerWrites(k)' = NoCall
      BY <2>1 DEF ServerReads, ServerWrites
    <2>3. /\ ServerReads(c) = IF srv = "body" THEN frame.id ELSE NoCall
          /\ ServerWrites(c) = IF srv = "replybody" THEN frame.id ELSE NoCall
          /\ ServerReads(c)' = IF srv' = "body" THEN frame'.id ELSE NoCall
          /\ ServerWrites(c)' = IF srv' = "replybody" THEN frame'.id ELSE NoCall
      BY <1>1, <2>1 DEF ServerReads, ServerWrites
    <2>4. /\ \A k \in Conns : c2s'[k] = c2s[k] \/ k = c
          /\ \A k \in Conns : s2c'[k] = s2c[k] \/ k = c
      BY <1>0, <1>6 DEF ServerReadsHead, ServerReadsBody, ServerReplies, TakesRequest, TypeOK
    <2>5. \A k \in Conns : k # c => RequestsOn(k)' /\ ResponsesOn(k)'
      BY <1>3, <1>4, <2>2, <2>4
    <2>6. RequestsOn(c)' /\ ResponsesOn(c)' => Requests' /\ Responses'
      BY <2>5 DEF Requests, Responses
    <2>7. /\ Framed(ServerReads(c), c2s[c])
          /\ Aimed(c) => \A t \in Calls :
                Begun(t, c) <=> OwedAfter(ServerReads(c), c2s[c]) = t
      BY DEF Requests, RequestsOn
    <2>8. ASSUME c2s[c] # <<>>, c2s' = [c2s EXCEPT ![c] = Tail(@)],
                 ServerReads(c)' = Owed(Head(c2s[c]))
          PROVE  RequestsOn(c)'
      <3>1. c2s'[c] = Tail(c2s[c]) /\ c2s[c] \in Seq(Units)
        BY <1>0, <2>8 DEF TypeOK
      <3>2. /\ Framed(Owed(Head(c2s[c])), Tail(c2s[c]))
            /\ OwedAfter(Owed(Head(c2s[c])), Tail(c2s[c]))
                  = OwedAfter(ServerReads(c), c2s[c])
        BY <2>7, <2>8, <3>1, FramedTail
      <3>3. Framed(ServerReads(c), c2s[c])'
        BY <2>8, <3>1, <3>2 DEF Framed
      <3>4. OwedAfter(ServerReads(c), c2s[c])' = OwedAfter(ServerReads(c), c2s[c])
        BY <2>8, <3>1, <3>2 DEF OwedAfter
      <3>. QED
        BY <1>2, <2>7, <3>3, <3>4 DEF RequestsOn
    <2>9. CASE ServerReadsHead
      <3>1. /\ srv = "head" /\ c2s[c] # <<>> /\ c2s' = [c2s EXCEPT ![c] = Tail(@)]
            /\ UNCHANGED s2c /\ c2s[c] \in Seq(Units)
        BY <1>0, <2>9 DEF ServerReadsHead, TakesRequest, TypeOK
      <3>2. Fits(NoCall, Head(c2s[c]))
        BY <2>3, <2>7, <3>1, FramedTail
      <3>. PICK o \in Calls : /\ o = Owed(Head(c2s[c]))
                              /\ Header(Head(c2s[c])) = {Begins(o, 1)}
        BY <3>2, FitsFacts
      <3>3. /\ srv' = "body" /\ frame' = Begins(o, 1)
            /\ frame'.id = o /\ frame'.size = 1 /\ frame'.left = 1
        BY <2>9 DEF ServerReadsHead, Begins
      <3>4. ServerReads(c)' = o /\ ServerWrites(c)' = NoCall /\ ServerWrites(c) = NoCall
        BY <2>3, <3>1, <3>3
      <3>5. RequestsOn(c)'
        BY <2>8, <3>1, <3>4
      <3>6. ResponsesOn(c)'
        BY <1>4, <3>1, <3>4
      <3>7. Whole'
        BY <1>1, <3>3 DEF Whole
      <3>. QED
        BY <2>6, <3>5, <3>6, <3>7
    <2>10. CASE ServerReadsBody
      <3>1. /\ srv = "body" /\ c2s[c] # <<>> /\ c2s' = [c2s EXCEPT ![c] = Tail(@)]
            /\ UNCHANGED s2c /\ c2s[c] \in Seq(Units)
            /\ frame' = Extend(frame, Head(c2s[c])) /\ frame \in Partial
        BY <1>0, <2>10 DEF ServerReadsBody, TakesRequest, TypeOK
      <3>. PICK o \in Calls : o = frame.id
        BY <3>1 DEF Whole
      <3>2. Fits(o, Head(c2s[c]))
        BY <2>3, <2>7, <3>1, FramedTail
      <3>3. Head(c2s[c]).call = o /\ Owed(Head(c2s[c])) = NoCall
        BY <3>2, FitsFacts
      <3>4. frame'.id = o /\ frame'.data = o /\ frame'.left = 0 /\ frame'.size = 1
        BY <3>1, <3>3 DEF Whole, Extend, Partial
      <3>5. srv' = "reply"
        BY <2>10, <3>4 DEF ServerReadsBody
      <3>6. /\ ServerReads(c)' = NoCall /\ ServerWrites(c)' = NoCall
            /\ ServerWrites(c) = NoCall
        BY <2>3, <3>1, <3>5
      <3>7. RequestsOn(c)'
        BY <2>8, <3>1, <3>3, <3>6
      <3>8. ResponsesOn(c)'
        BY <1>4, <3>1, <3>6
      <3>9. Whole'
        BY <1>1, <3>4, <3>5 DEF Whole
      <3>. QED
        BY <2>6, <3>7, <3>8, <3>9
    <2>11. CASE ServerReplies
      <3>1. /\ UNCHANGED c2s /\ s2c[c] \in Seq(Units) /\ frame \in Partial
            /\ srv \in {"reply", "replybody"}
        BY <1>0, <2>11 DEF ServerReplies, TypeOK
      <3>. PICK o \in Calls : o = frame.id /\ o = frame.data
        BY <3>1 DEF Whole
      <3>2. HeadUnit(o, 1) \in Units /\ BodyUnit(o) \in Units
        BY UnitTypes
      <3>3. ServerReads(c) = NoCall /\ ServerWrites(c) = IF srv = "reply" THEN NoCall ELSE o
        BY <2>3, <3>1
      <3>4. ASSUME NEW unit \in Units, s2c' = [s2c EXCEPT ![c] = Append(@, unit)],
                   Fits(ServerWrites(c), unit), ServerWrites(c)' = Owed(unit)
            PROVE  ResponsesOn(c)'
        <4>. SUFFICES ASSUME c \in {sock, rfd}
                      PROVE  ResponsesOn(c)'
          BY <1>1 DEF ResponsesOn
        <4>1. /\ Framed(ClientReads(c), s2c[c])
              /\ OwedAfter(ClientReads(c), s2c[c]) = ServerWrites(c)
          BY DEF Responses, ResponsesOn
        <4>2. s2c'[c] = Append(s2c[c], unit)
          BY <1>0, <3>4 DEF TypeOK
        <4>3. /\ Framed(ClientReads(c), Append(s2c[c], unit))
              /\ OwedAfter(ClientReads(c), Append(s2c[c], unit)) = Owed(unit)
          BY <3>1, <3>4, <4>1, FramedAppend
        <4>4. Framed(ClientReads(c), s2c[c])'
          BY <1>2, <4>2, <4>3 DEF Framed
        <4>5. OwedAfter(ClientReads(c), s2c[c])' = ServerWrites(c)'
          BY <1>2, <3>4, <4>2, <4>3 DEF OwedAfter
        <4>. QED
          BY <4>4, <4>5 DEF ResponsesOn
      <3>5. CASE srv = "reply"
        <4>1. /\ s2c' = [s2c EXCEPT ![c] = Append(@, HeadUnit(o, 1))] /\ srv' = "replybody"
              /\ frame.size = 1 /\ frame' = [frame EXCEPT !.left = frame.size]
          BY <2>11, <3>5 DEF ServerReplies, Whole
        <4>2. frame'.id = o /\ frame'.data = o /\ frame'.left = 1 /\ frame'.size = 1
          BY <3>1, <4>1 DEF Partial
        <4>3. ServerReads(c)' = NoCall /\ ServerWrites(c)' = o
          BY <2>3, <4>1, <4>2
        <4>4. ResponsesOn(c)'
          BY <3>2, <3>3, <3>4, <3>5, <4>1, <4>3, FitsFacts
        <4>5. RequestsOn(c)'
          BY <1>3, <3>1, <3>3, <4>3
        <4>6. Whole'
          BY <1>1, <4>1, <4>2 DEF Whole
        <4>. QED
          BY <2>6, <4>4, <4>5, <4>6
      <3>6. CASE srv = "replybody"
        <4>1. s2c' = [s2c EXCEPT ![c] = Append(@, BodyUnit(o))] /\ srv' = "head"
          BY <2>11, <3>6 DEF ServerReplies, Whole
        <4>2. ServerReads(c)' = NoCall /\ ServerWrites(c)' = NoCall
          BY <2>3, <4>1
        <4>3. ResponsesOn(c)'
          BY <3>2, <3>3, <3>4, <3>6, <4>1, <4>2, FitsFacts
        <4>4. RequestsOn(c)'
          BY <1>3, <3>1, <3>3, <4>2
        <4>5. Whole'
          BY <1>1, <4>1 DEF Whole
        <4>. QED
          BY <2>6, <4>3, <4>4, <4>5
      <3>. QED
        BY <3>1, <3>5, <3>6
    <2>. QED
      BY <1>6, <2>9, <2>10, <2>11
  <1>. QED
    BY <1>5, <1>6 DEF ServerRun

\* A send fails on a connection that has gone, and never inside a frame begun on
\* the one that is there: a send that waits began no later than there.
LEMMA SendFailsSound ==
    ASSUME Base, Whole, Requests, Responses, NEW t \in Calls, SendFails(t)
    PROVE  Whole' /\ Requests' /\ Responses'
  <1>0. TypeOK /\ Places /\ Locked
    BY DEF Base
  <1>1. /\ UNCHANGED <<conn, cli, srv, frame, sock, rpc, rfd, got, called, begunOn>>
        /\ NetBecomes(link, c2s, s2c)
        /\ sfd' = [sfd EXCEPT ![t] = None] /\ tpc' = [tpc EXCEPT ![t] = "done"]
        /\ Sending(t) /\ ~ Open(Target(t))
    BY DEF SendFails, srvvars, runvars
  <1>2. \A k \in Conns : ClientReads(k)' = ClientReads(k) /\ k # None
    BY <1>1 DEF ClientReads, Conns, None
  <1>3. \A u \in Calls : u # t => sfd[u] = None
    BY <1>0, <1>1 DEF Locked
  <1>4. \A k \in Conns : Aimed(k)' => k = sock
    BY <1>0, <1>1, <1>2, <1>3 DEF Aimed, TypeOK
  <1>5. ASSUME NEW k \in Conns, link[k] = "up", k = sock
        PROVE  ~ Begun(t, k)
    <2>1. k = conn /\ conn \in Nat
      BY <1>0, <1>2, <1>5 DEF Places, TypeOK, Conns
    <2>2. sfd[t] # None /\ sfd[t] # k
      BY <1>1, <1>2, <1>5 DEF Target, Open
    <2>3. begunOn[t] <= sfd[t] /\ sfd[t] \in 0 .. conn /\ begunOn[t] \in 0 .. conn
      BY <1>0, <2>2 DEF Locked, TypeOK
    <2>4. begunOn[t] # k
      BY <2>1, <2>2, <2>3
    <2>. QED
      BY <2>4 DEF Begun
  <1>6. \A u \in Calls, k \in Conns : u # t => (Begun(u, k)' <=> Begun(u, k))
    BY <1>0, <1>1 DEF Begun, TypeOK
  <1>7. \A k \in Conns : ~ Begun(t, k)'
    BY <1>0, <1>1 DEF Begun, TypeOK
  <1>8. \A k \in Conns :
           link[k] = "up" /\ link'[k] = "up" /\ Aimed(k)' =>
              Aimed(k) /\ \A u \in Calls : Begun(u, k)' <=> Begun(u, k)
    BY <1>4, <1>5, <1>6, <1>7 DEF Aimed
  <1>9. \A k \in Conns :
           \/ link'[k] = link[k] /\ c2s'[k] = c2s[k] /\ s2c'[k] = s2c[k]
           \/ link'[k] = "closed" /\ k # sock' /\ k # rfd'
    BY <1>1, NetShrinks
  <1>10. Requests' /\ Responses'
    BY <1>1, <1>2, <1>8, <1>9, SoundKept
  <1>. QED
    BY <1>1, <1>10 DEF Whole

LEMMA ConnectSound ==
    ASSUME Base, Whole, Requests, Responses, Connect
    PROVE  Whole' /\ Requests' /\ Responses'
  <1>0. TypeOK /\ Places
    BY DEF Base
  <1>1. /\ UNCHANGED <<cli, srv, frame, called, tpc, sfd, begunOn, c2s, s2c>>
        /\ sock' = conn + 1 /\ rfd' = conn + 1 /\ rpc' = "head"
        /\ link' = [link EXCEPT ![conn + 1] = "up"]
        /\ rpc = "connect" /\ conn < MaxConns
    BY DEF Connect, srvvars, tvars
  <1>2. /\ conn \in Nat /\ cli \in 0 .. conn /\ sock \in 0 .. conn /\ rfd \in 0 .. conn
        /\ \A t \in Calls : begunOn[t] \in 0 .. conn /\ sfd[t] \in 0 .. conn
    BY <1>0 DEF TypeOK, Conns
  <1>. PICK c \in Conns : c = conn + 1
    BY <1>1, <1>2, ConnsAssumption DEF Conns
  <1>3. ~ Aimed(c) /\ c # rfd
    BY <1>2 DEF Aimed
  <1>4. link[c] = "closed" /\ c2s[c] = <<>> /\ s2c[c] = <<>>
    BY <1>0, <1>3 DEF Places, TypeOK
  <1>5. ServerReads(c)' = NoCall /\ ServerWrites(c)' = NoCall /\ ClientReads(c)' = NoCall
    BY <1>1, <1>2 DEF ServerReads, ServerWrites, ClientReads
  <1>6. \A t \in Calls : ~ Begun(t, c)'
    BY <1>1, <1>2 DEF Begun
  <1>7. /\ Framed(ServerReads(c), c2s[c])' /\ OwedAfter(ServerReads(c), c2s[c])' = NoCall
        /\ Framed(ClientReads(c), s2c[c])' /\ OwedAfter(ClientReads(c), s2c[c])' = NoCall
    <2>1. Framed(NoCall, <<>>) /\ OwedAfter(NoCall, <<>>) = NoCall
      BY EmptyStream
    <2>2. c2s'[c] = <<>> /\ s2c'[c] = <<>>
      BY <1>1, <1>4
    <2>. QED
      BY <1>5, <2>1, <2>2 DEF Framed, OwedAfter
  <1>8. RequestsOn(c)' /\ ResponsesOn(c)'
    BY <1>5, <1>6, <1>7, NoCallAssumption DEF RequestsOn, ResponsesOn
  <1>9. ASSUME NEW k \in Conns, k # c
        PROVE  RequestsOn(k)' /\ ResponsesOn(k)'
    <2>1. link'[k] = link[k] /\ k \notin {sock', rfd'}
      BY <1>0, <1>1, <1>9 DEF TypeOK
    <2>2. Aimed(k)' => Aimed(k)
      BY <1>1, <1>9 DEF Aimed
    <2>3. ServerReads(k)' = ServerReads(k) /\ \A t \in Calls : Begun(t, k)' <=> Begun(t, k)
      BY <1>1, <2>1 DEF ServerReads, Begun
    <2>4. RequestsOn(k)'
      BY <1>1, <2>1, <2>2, <2>3, RequestsKept DEF Requests
    <2>. QED
      BY <2>1, <2>4 DEF ResponsesOn
  <1>10. Whole'
    BY <1>1 DEF Whole
  <1>. QED
    BY <1>8, <1>9, <1>10 DEF Requests, Responses

LEMMA SoundStep ==
    ASSUME Base, Whole, Requests, Responses, [Next]_vars, ~ torn'
    PROVE  Whole' /\ Requests' /\ Responses'
  <1>0. TypeOK /\ Places
    BY DEF Base
  <1>1. ASSUME UNCHANGED <<cli, srv, frame, tpc, sfd, begunOn>>,
               UNCHANGED <<link, c2s, s2c>> \/ NetBecomes(link, c2s, s2c),
               sock' \in {sock, None}, rfd' \in {rfd, sock', None},
               rpc' = "body" => rpc = "body" /\ UNCHANGED <<rfd, got>>,
               rpc = "body" => UNCHANGED <<rpc, rfd, got>> \/ (rfd' = None /\ sock' = None)
        PROVE  Requests' /\ Responses'
    <2>1. \A k \in Conns :
             \/ link'[k] = link[k] /\ c2s'[k] = c2s[k] /\ s2c'[k] = s2c[k]
             \/ link'[k] = "closed" /\ k # sock' /\ k # rfd'
      BY <1>1, NetShrinks
    <2>2. ASSUME NEW k \in Conns, k \in {sock', rfd'}
          PROVE  k \in {sock, rfd} /\ ClientReads(k)' = ClientReads(k)
      <3>1. k # None
        BY DEF Conns, None
      <3>2. rpc = "body" => UNCHANGED <<rpc, rfd, got>>
        BY <1>1, <2>2, <3>1
      <3>. QED
        BY <1>1, <2>2, <3>1, <3>2 DEF ClientReads
    <2>3. \A k \in Conns : Aimed(k)' => Aimed(k)
      <3>1. \A k \in Conns : k # None
        BY DEF Conns, None
      <3>. QED
        BY <1>1, <3>1 DEF Aimed
    <2>4. \A t \in Calls, k \in Conns : Begun(t, k)' <=> Begun(t, k)
      BY <1>1 DEF Begun
    <2>. QED
      BY <1>1, <2>1, <2>2, <2>3, <2>4, SoundKept
  <1>2. ASSUME NEW t \in Calls, Register(t) \/ LockSend(t) \/ Block(t) \/ Age(t)
        PROVE  Whole' /\ Requests' /\ Responses'
    <2>1. /\ UNCHANGED <<link, c2s, s2c, cli, srv, frame, sock, called, rpc, rfd, got>>
          /\ UNCHANGED begunOn
      BY <1>2 DEF Register, LockSend, Block, Age, netvars, srvvars, runvars, tvars
    <2>2. \A u \in Calls, k \in Conns : Begun(u, k)' <=> Begun(u, k)
      BY <1>0, <1>2, <2>1 DEF Register, LockSend, Block, Age, tvars, Begun, TypeOK
    <2>3. \A k \in Conns : Aimed(k)' => Aimed(k)
      <3>1. \A u \in Calls : sfd'[u] \in {sfd[u], sock}
        BY <1>0, <1>2 DEF Register, LockSend, Block, Age, tvars, TypeOK
      <3>. QED
        BY <2>1, <3>1 DEF Aimed
    <2>4. \A k \in Conns : ClientReads(k)' = ClientReads(k)
      BY <2>1 DEF ClientReads
    <2>5. Requests' /\ Responses'
      BY <2>1, <2>2, <2>3, <2>4, SoundKept
    <2>. QED
      BY <2>1, <2>5 DEF Whole
  <1>3. ASSUME Start \/ Loop \/ ConnectFails \/ Retry \/ Clean \/ Callback
        PROVE  Whole' /\ Requests' /\ Responses'
    <2>1. /\ UNCHANGED <<link, c2s, s2c, cli, srv, frame, sock, tpc, sfd, begunOn>>
          /\ rpc # "body" /\ rpc' \notin {"body", "callback"}
          /\ rfd' \in {rfd, sock}
      BY <1>3 DEF Start, Loop, ConnectFails, Retry, Clean, Callback, netvars, srvvars, tvars
    <2>2. Requests' /\ Responses'
      BY <1>1, <2>1
    \* The content is the response to the call whose id the header bears.
    <2>3. \A call \in called' : call.cbk = call.of
      BY <1>3 DEF Start, Loop, ConnectFails, Retry, Clean, Callback, Whole
    <2>4. Whole'
      BY <2>1, <2>3 DEF Whole
    <2>. QED
      BY <2>2, <2>4
  \* A receive that times out inside a response counts as torn.
  <1>4. ASSUME RecvTimesOut \/ RecvFails
        PROVE  Whole' /\ Requests' /\ Responses'
    <2>1. /\ UNCHANGED <<cli, srv, frame, tpc, sfd, begunOn, called>>
          /\ NetBecomes(link, c2s, s2c)
          /\ rpc' = "clean" /\ rfd' = None
          /\ (sock' = sock /\ rpc = "head") \/ sock' = None
      BY <1>4 DEF RecvTimesOut, RecvFails, Silent, InRecv, srvvars, tvars
    <2>2. Requests' /\ Responses'
      BY <1>1, <2>1
    <2>. QED
      BY <2>1, <2>2 DEF Whole
  <1>5. CASE Stop
    <2>1. /\ UNCHANGED <<cli, srv, frame, tpc, sfd, begunOn, rpc, rfd, got, called>>
          /\ NetBecomes(link, c2s, s2c) /\ sock' \in {sock, None}
      BY <1>5 DEF Stop, srvvars, tvars, runvars
    <2>2. Requests' /\ Responses'
      BY <1>1, <2>1
    <2>. QED
      BY <2>1, <2>2 DEF Whole
  \* Nobody reads a request on a connection that is cut.
  <1>6. ASSUME ServerExits, UNCHANGED clientvars
        PROVE  Whole' /\ Requests' /\ Responses'
    <2>1. /\ UNCHANGED <<s2c, sock, rpc, rfd, got, called>> /\ srv' = "head"
          /\ \A k \in Conns : link'[k] # "up"
      BY <1>0, <1>6 DEF ServerExits, clientvars, runvars, TypeOK
    <2>2. \A k \in Conns : ClientReads(k)' = ClientReads(k)
      BY <2>1 DEF ClientReads
    <2>3. Requests'
      BY <2>1 DEF Requests, RequestsOn
    <2>4. ASSUME NEW k \in Conns
          PROVE  ResponsesOn(k)'
      BY <2>1, <2>2, ResponsesKept DEF Responses
    <2>5. Whole'
      BY <2>1 DEF Whole
    <2>. QED
      BY <2>3, <2>4, <2>5 DEF Responses
  <1>7. ASSUME ServerStarts \/ UNCHANGED vars, ServerStarts => UNCHANGED clientvars
        PROVE  Whole' /\ Requests' /\ Responses'
    <2>1. /\ UNCHANGED <<link, c2s, s2c, cli, srv, frame, sock, called, rpc, rfd, got>>
          /\ UNCHANGED <<tpc, sfd, begunOn>>
      BY <1>7 DEF ServerStarts, netvars, clientvars, tvars, runvars, vars, srvvars
    <2>2. Requests' /\ Responses'
      BY <1>1, <2>1
    <2>. QED
      BY <2>1, <2>2 DEF Whole
  <1>8. ASSUME NEW t \in Calls, Register(t) \/ SendRequest(t) \/ Age(t)
        PROVE  Whole' /\ Requests' /\ Responses'
    BY <1>2, <1>8, SendUnitSound, SendFailsSound DEF SendRequest
  <1>9. CASE Run
    BY <1>3, <1>4, <1>9, ConnectSound, RecvSound DEF Run
  <1>10. ASSUME ServerRun \/ ServerExits \/ ServerStarts, UNCHANGED clientvars
         PROVE  Whole' /\ Requests' /\ Responses'
    BY <1>6, <1>7, <1>10, ServerSound
  <1>11. CASE UNCHANGED vars
    <2>1. ~ ServerStarts \/ UNCHANGED clientvars
      BY <1>11 DEF vars, clientvars
    <2>. QED
      BY <1>7, <1>11, <2>1
  <1>. QED
    BY <1>5, <1>8, <1>9, <1>10, <1>11 DEF Next

-----------------------------------------------------------------------------

LEMMA IInvInit == Init => IInv
  <1>. SUFFICES ASSUME Init
                PROVE  IInv
    OBVIOUS
  <1>1. /\ \A k \in Conns : c2s[k] = <<>> /\ s2c[k] = <<>>
        /\ \A k \in Conns : link[k] = IF k = 1 THEN "up" ELSE "closed"
        /\ sock = 1 /\ rfd = 0 /\ cli = 0 /\ srv = "head" /\ rpc = "start"
        /\ \A t \in Calls : tpc[t] = "idle" /\ sfd[t] = 0 /\ begunOn[t] = 0
    BY DEF Init, ServerInit, None
  <1>2. Base
    <2>1. <<>> \in Seq(Units) /\ Len(<<>>) = 0 /\ NoFrame \in Partial
      BY EmptySeq, UnitTypes
    <2>2. 0 \in 0 .. MaxCrashes /\ 0 \in 0 .. Retries /\ 0 \in 0 .. MaxFds /\ 0 <= Room
      BY CrashAssumption, RetriesAssumption, FdsAssumption, RoomAssumption
    <2>3. /\ conn = 1 /\ 1 \in Conns /\ 1 \in 0 .. conn /\ 0 \in 0 .. conn
      BY ConnsAssumption DEF Init, ServerInit, Conns
    <2>4. /\ tpc \in [Calls -> {"idle", "send", "head", "rest", "body", "done"}]
          /\ sfd \in [Calls -> 0 .. conn]
          /\ begunOn \in [Calls -> 0 .. conn]
      BY <2>3 DEF Init, None
    <2>5. running \in BOOLEAN /\ torn \in BOOLEAN
      BY Zenon DEF Init
    <2>6. /\ link \in [Conns -> {"up", "cut", "closed"}]
          /\ c2s \in [Conns -> Seq(Units)] /\ s2c \in [Conns -> Seq(Units)]
          /\ \A k \in Conns : Len(c2s[k]) <= Room /\ Len(s2c[k]) <= Room
      BY <1>1, <2>1, <2>2 DEF Init, ServerInit
    <2>7. ServerTypes
      BY <2>1, <2>2, <2>3 DEF Init, ServerInit, ServerTypes, None
    <2>8. ClientTypes
      BY <2>1, <2>2, <2>3, <2>4, <2>5 DEF Init, ClientTypes, None
    <2>9. TypeOK
      BY <2>6, <2>7, <2>8, Zenon DEF ServerTypes, ClientTypes, TypeOK
    <2>10. Counts
      BY <1>1 DEF Counts
    <2>11. Places
      BY <1>1, <2>3 DEF Places, Aimed, None
    <2>12. Locked
      BY <1>1 DEF Locked, Sending, None
    <2>. QED
      BY <2>9, <2>10, <2>11, <2>12 DEF Base
  <1>3. Whole
    BY <1>1 DEF Init, Whole
  <1>4. \A k \in Conns : /\ ServerReads(k) = NoCall /\ ServerWrites(k) = NoCall
                         /\ ClientReads(k) = NoCall
                         /\ \A t \in Calls : ~ Begun(t, k)
    BY <1>1 DEF ServerReads, ServerWrites, ClientReads, Begun
  <1>5. Requests /\ Responses
    BY <1>1, <1>4, EmptyStream, NoCallAssumption DEF Requests, RequestsOn, Responses, ResponsesOn
  <1>. QED
    BY <1>2, <1>3, <1>5 DEF IInv, Sound

LEMMA IInvStep == IInv /\ [Next]_vars => IInv'
  <1>. SUFFICES ASSUME IInv, [Next]_vars, ~ torn'
                PROVE  Whole' /\ Requests' /\ Responses'
    BY BaseStep DEF IInv, Sound
  <1>1. ~ torn
    BY DEF Next, SendRequest, Register, LockSend, Block, SendUnit, SendFails, Age, Run, Start,
           Loop, Connect, ConnectFails, Retry, RecvHead, RecvBody, Callback, RecvTimesOut,
           RecvFails, Clean, Stop, clientvars, vars
  <1>. QED
    BY <1>1, SoundStep DEF IInv, Sound

\* The inductive invariant: where no frame has been torn, every connection the
\* client refers to carries whole frames both ways, from where one side reads to
\* where the other writes.
THEOREM SingleInvariant == Spec => []IInv
  <1>. QED
    BY IInvInit, IInvStep, PTL DEF Spec

\* Client, connections and server keep their types, torn or not: no more connect
\* attempts than kReConnectCount, no more descriptors than there are, and no read
\* of a body that is complete.
THEOREM TypeCorrect == Spec => []TypeOK
  <1>1. IInv => TypeOK
    BY DEF IInv, Base
  <1>. QED
    BY <1>1, SingleInvariant, PTL

\* However connections, timeouts, the server's exits and Stop interleave, a
\* callback is given the response to its own request until a frame is torn.
THEOREM OwnResponses == Spec => []OwnResponse
  <1>1. IInv => OwnResponse
    BY DEF IInv, Sound, Whole, OwnResponse
  <1>. QED
    BY <1>1, SingleInvariant, PTL
=============================================================================
