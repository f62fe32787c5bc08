--------------------- MODULE TerminalOutput_proofs ---------------------
(***************************************************************************)
(* The output of a session reaches the screen in order and whole.           *)
(*                                                                         *)
(* The inductive invariant follows the text on its way: the batch of a reader *)
(* and the events (Stream), what has come to the window (Came), the line from *)
(* the capture over the tab, the startup buffer and the queue to the screen   *)
(* (Line), and who takes what the latest session sends (Attended).           *)
(* Prints, Emits, Closes and Hearing move text along the first part, Parses to *)
(* AddsToQueue along the second.                                             *)
(***************************************************************************)
EXTENDS TerminalOutput, Lists_proofs, TLAPS

(* Chunks in their order, and sets of chunks.  Ahead compares those of one  *)
(* session only.                                                            *)
Sorted(q) == \A i, j \in DOMAIN q : i < j => Before(q[i], q[j])
Below(A, B) == \A c \in A, d \in B : Before(c, d)
Ahead(A, B) == \A c \in A, d \in B : c[1] = d[1] => c[2] < d[2]

(* What was sent, and what has come to the window.  The batch of a session    *)
(* and the data of an event are of the session and in their order; and what   *)
(* is nearer to the window was sent before what is farther.                   *)
Batch(rd, s) == ToSet(rd[s].batch)
Data(ev, i) == ToSet(ev[i].data)
Of(rd, A, s) == \A c \in A : c[1] = s /\ c[2] <= rd[s].sent

Flying(ev) == UNION {Data(ev, i) : i \in DOMAIN ev}

FromReader(rd) ==
    \A s \in Session :
        /\ rd[s].at = "none" => rd[s].sent = 0
        /\ rd[s].at # "running" => rd[s].batch = <<>>
        /\ Sorted(rd[s].batch) /\ Of(rd, Batch(rd, s), s)

InFlight(rd, ev) ==
    /\ \A i \in DOMAIN ev :
         /\ ev[i].kind = "closed" => ev[i].data = <<>>
         /\ Sorted(ev[i].data) /\ Of(rd, Data(ev, i), ev[i].session)
         /\ \A s \in Session : Ahead(Data(ev, i), Batch(rd, s))
    /\ \A i, j \in DOMAIN ev : i < j => Ahead(Data(ev, i), Data(ev, j))

AtWindow(rd, ev, came) ==
    /\ \A c \in came : c[2] <= rd[c[1]].sent
    /\ \A i \in DOMAIN ev : Ahead(came, Data(ev, i))
    /\ \A s \in Session : Ahead(came, Batch(rd, s))

Stream(rd, ev, came) == FromReader(rd) /\ InFlight(rd, ev) /\ AtWindow(rd, ev, came)

InQueue == ToSet(queue.writing) \cup ToSet(queue.chunks)
Handed == ToSet(panel.startup) \cup ToSet(tab.warmup) \cup ToSet(capture.data)
Came == ToSet(shown) \cup InQueue \cup Handed

(* One request after another is made and answered.                          *)
Requests ==
    /\ connect[1] # "none"
    /\ \A s \in Session :
         /\ connect[s] \in {"none", "asked", "refused"} => reader[s].at = "none"
         /\ connect[s] = "opened" => reader[s].at # "none"
    /\ \A r, s \in Session : r < s /\ connect[s] # "none" => connect[r] = "done"

(* The tab before and after its session, and closed.  All that is handed over *)
(* is of the first session.                                                 *)
Tabs ==
    /\ ~tab.open =>
         /\ tab.session = None /\ ~capture.on /\ capture.data = <<>>
         /\ queue.chunks = <<>> /\ queue.writing = <<>>
    /\ connect[1] # "done" => ~capture.grace /\ (tab.open => capture.on)
    /\ tab.session = None => tab.warmup = <<>> /\ ~panel.mounted
    /\ tab.session # None => connect[1] = "done" /\ capture.data = <<>>
    /\ \A c \in Handed : c[1] = 1

Unmounted ==
    /\ panel = NoPanel
    /\ tab.open => /\ \A s \in Session : s > 1 => connect[s] = "none"
                   /\ shown = <<>> /\ queue.chunks = <<>> /\ queue.writing = <<>>
                   /\ tab.session \in {None, 1}

(* The panel shows the session of its request, or that of the one before     *)
(* while it reconnects; what came is of no later one.                        *)
Reconnecting ==
    /\ panel.session = None /\ panel.request > 1
    /\ connect[panel.request] \in {"asked", "opened", "refused"}
    /\ panel.wasRequest \in Session /\ panel.wasRequest < panel.request
    /\ panel.was \in {None, panel.wasRequest}
    /\ \A r \in Session : panel.wasRequest < r /\ r < panel.request => reader[r].at = "none"

Mounted ==
    /\ panel.request \in Session /\ connect[panel.request] # "none"
    /\ panel.session \in {None, panel.request}
    /\ panel.ready => panel.hears = Listener
    /\ panel.request > 1 => panel.ready /\ ~panel.buffering
    /\ ~panel.buffering => panel.startup = <<>>
    /\ \A r \in Session : r > panel.request =>
         connect[r] \in {"none", "done"} /\ reader[r].at = "none"
    /\ \A r \in Session : r > 1 /\ connect[r] \in {"asked", "opened", "refused"} =>
         panel.reconnecting /\ r = panel.request
    /\ panel.reconnecting => Reconnecting
    /\ \A c \in Came : c[1] <= panel.request

Panels == IF panel.mounted THEN Mounted ELSE Unmounted

(* While the capture is on the panel has written no more than there is; and   *)
(* a reconnection that did not come too early found it off.                   *)
Taking ==
    "hasty" \notin odd =>
      /\ capture.on => panel.written <= Len(tab.warmup)
      /\ tab.open /\ (\E s \in Session : s > 1 /\ connect[s] # "none") =>
           ~capture.on /\ Unwritten = <<>>

(* What came stands in one line, from the screen to the capture.             *)
Orderly == odd \cap {"early", "behind", "hasty"} = {}

InOrder(a, b, c, d, e, f) ==
    /\ Sorted(a) /\ Sorted(b) /\ Sorted(c) /\ Sorted(d) /\ Sorted(e) /\ Sorted(f)
    /\ Below(ToSet(a), ToSet(b) \cup ToSet(c) \cup ToSet(d) \cup ToSet(e) \cup ToSet(f))
    /\ Below(ToSet(b), ToSet(c) \cup ToSet(d) \cup ToSet(e) \cup ToSet(f))
    /\ Below(ToSet(c), ToSet(d) \cup ToSet(e) \cup ToSet(f))
    /\ Below(ToSet(d), ToSet(e) \cup ToSet(f))
    /\ Below(ToSet(e), ToSet(f))

Line == InOrder(shown, queue.writing, queue.chunks, panel.startup, Unwritten, capture.data)

InLine ==
    Orderly => /\ Line
               /\ panel.mounted /\ ~panel.buffering => Unwritten = <<>> /\ ~capture.on

(* Somebody takes what the latest session sends.                             *)
Attended(s) ==
    \/ reader[s].at = "none"
    \/ s = 1 /\ capture.on
    \/ panel.mounted /\ ~panel.buffering /\ panel.hears = Listener /\ panel.request = s

Delivered == \A s \in Session : Latest(s) /\ ~Excused => Attended(s)

IInv ==
    /\ TypeOK /\ Stream(reader, events, Came) /\ Requests /\ Tabs /\ Panels /\ Taking
    /\ InLine /\ Delivered /\ NothingLost

(* The reconnection that came too early is of a later session than the first. *)
Begun ==
    /\ DOMAIN connect = Session /\ connect[1] # "none"
    /\ "hasty" \in odd => \E s \in Session : s > 1 /\ connect[s] # "none"

-----------------------------------------------------------------------------
(* Chunks and sequences of them.                                           *)

LEMMA Sessions ==
    /\ Session \subseteq Nat /\ 1 \in Session /\ \A s \in Session : s >= 1
    /\ None \notin Session /\ None \notin Nat
    /\ MaxOutput \in Nat /\ BatchBytes \in Nat \ {0} /\ BatchChars \in Nat \ {0}
    /\ \A r, s \in Session : s = r \/ s < r \/ s > r
  BY OutputAssumption DEF Session

LEMMA ChunkNumbers ==
    ASSUME NEW c \in Chunk
    PROVE  c[1] \in Session /\ c[1] \in Nat /\ c[2] \in Nat /\ c[2] >= 1
  BY OutputAssumption DEF Chunk, Session

LEMMA ToSetType ==
    ASSUME NEW S, NEW q \in Seq(S)
    PROVE  ToSet(q) \subseteq S /\ (ToSet(q) = {} <=> q = <<>>)
  <1>1. ToSet(q) \subseteq S
    BY DEF ToSet
  <1>2. q # <<>> => q[1] \in ToSet(q)
    BY DEF ToSet
  <1>3. q = <<>> => ToSet(q) = {}
    BY DEF ToSet
  <1> QED BY <1>1, <1>2, <1>3

LEMMA Empty == <<>> \in Seq(Chunk) /\ ToSet(<<>>) = {} /\ Sorted(<<>>)
  <1>1. <<>> \in Seq(Chunk)
    OBVIOUS
  <1>2. Sorted(<<>>)
    BY DEF Sorted
  <1> QED BY <1>1, <1>2, ToSetType

LEMMA Single ==
    ASSUME NEW c
    PROVE  ToSet(<<c>>) = {c} /\ Sorted(<<c>>)
  <1>1. ToSet(<<c>>) = {c}
    BY DEF ToSet
  <1> QED BY <1>1 DEF Sorted

LEMMA CatSet ==
    ASSUME NEW S, NEW p \in Seq(S), NEW q \in Seq(S)
    PROVE  p \o q \in Seq(S) /\ ToSet(p \o q) = ToSet(p) \cup ToSet(q)
  <1>1. ToSet(p \o q) \subseteq ToSet(p) \cup ToSet(q)
    BY DEF ToSet
  <1>2. ToSet(p) \subseteq ToSet(p \o q)
    BY DEF ToSet
  <1>3. ToSet(q) \subseteq ToSet(p \o q)
    <2> SUFFICES ASSUME NEW i \in DOMAIN q
                 PROVE  q[i] \in ToSet(p \o q)
      BY DEF ToSet
    <2>1. Len(p) + i \in DOMAIN (p \o q) /\ (p \o q)[Len(p) + i] = q[i]
      OBVIOUS
    <2> QED BY <2>1 DEF ToSet
  <1> QED BY <1>1, <1>2, <1>3

LEMMA CatSorted ==
    ASSUME NEW p \in Seq(Chunk), NEW q \in Seq(Chunk)
    PROVE  Sorted(p \o q) <=> Sorted(p) /\ Sorted(q) /\ Below(ToSet(p), ToSet(q))
  <1> DEFINE r == p \o q
  <1>1. /\ \A i \in DOMAIN p : i \in DOMAIN r /\ r[i] = p[i]
        /\ \A i \in DOMAIN q : Len(p) + i \in DOMAIN r /\ r[Len(p) + i] = q[i]
        /\ \A k \in DOMAIN r : k \in DOMAIN p \/ \E i \in DOMAIN q : k = Len(p) + i
        /\ Len(p) \in Nat /\ DOMAIN p = 1..Len(p) /\ DOMAIN q = 1..Len(q) /\ Len(q) \in Nat
    <2>1. \A k \in DOMAIN r : k \notin DOMAIN p =>
             k - Len(p) \in DOMAIN q /\ k = Len(p) + (k - Len(p))
      OBVIOUS
    <2>2. /\ \A i \in DOMAIN p : i \in DOMAIN r /\ r[i] = p[i]
          /\ \A i \in DOMAIN q : Len(p) + i \in DOMAIN r /\ r[Len(p) + i] = q[i]
      OBVIOUS
    <2> HIDE DEF r
    <2> QED BY <2>1, <2>2
  <1> HIDE DEF r
  <1>2. ASSUME Sorted(r)
        PROVE  Sorted(p) /\ Sorted(q) /\ Below(ToSet(p), ToSet(q))
    <2>1. Sorted(p)
      BY <1>1, <1>2 DEF Sorted
    <2>2. Sorted(q)
      <3> SUFFICES ASSUME NEW i \in DOMAIN q, NEW j \in DOMAIN q, i < j
                   PROVE  Before(q[i], q[j])
        BY DEF Sorted
      <3>1. Len(p) + i < Len(p) + j
        BY <1>1
      <3> QED BY <1>1, <1>2, <3>1 DEF Sorted
    <2>3. Below(ToSet(p), ToSet(q))
      <3> SUFFICES ASSUME NEW i \in DOMAIN p, NEW j \in DOMAIN q
                   PROVE  Before(p[i], q[j])
        BY DEF Below, ToSet
      <3>1. i < Len(p) + j
        BY <1>1
      <3> QED BY <1>1, <1>2, <3>1 DEF Sorted
    <2> QED BY <2>1, <2>2, <2>3
  <1>3. ASSUME Sorted(p), Sorted(q), Below(ToSet(p), ToSet(q)),
               NEW i \in DOMAIN r, NEW j \in DOMAIN r, i < j
        PROVE  Before(r[i], r[j])
    <2>1. CASE i \in DOMAIN p /\ j \in DOMAIN p
      BY <1>1, <1>3, <2>1 DEF Sorted
    <2>2. CASE i \in DOMAIN p /\ j \notin DOMAIN p
      <3>1. PICK k \in DOMAIN q : j = Len(p) + k
        BY <1>1, <2>2
      <3> QED BY <1>1, <1>3, <2>2, <3>1 DEF Below, ToSet
    <2>3. CASE i \notin DOMAIN p
      <3>1. PICK h \in DOMAIN q : i = Len(p) + h
        BY <1>1, <2>3
      <3>2. j \notin DOMAIN p
        BY <1>1, <1>3, <3>1
      <3>3. PICK k \in DOMAIN q : j = Len(p) + k
        BY <1>1, <3>2
      <3>4. h < k
        BY <1>1, <1>3, <3>1, <3>3
      <3> QED BY <1>1, <1>3, <3>1, <3>3, <3>4 DEF Sorted
    <2> QED BY <2>1, <2>2, <2>3
  <1>4. Sorted(p) /\ Sorted(q) /\ Below(ToSet(p), ToSet(q)) => Sorted(r)
    BY <1>3 DEF Sorted
  <1> QED BY <1>2, <1>4 DEF r

LEMMA SameSeq ==
    ASSUME NEW S, NEW p \in Seq(S), NEW q \in Seq(S), Len(p) = Len(q),
           \A i \in 1..Len(q) : p[i] = q[i]
    PROVE  p = q
  OBVIOUS

LEMMA CutSeq ==
    ASSUME NEW S, NEW q \in Seq(S), NEW n \in 0..Len(q)
    PROVE  /\ SubSeq(q, 1, n) \in Seq(S) /\ SubSeq(q, n + 1, Len(q)) \in Seq(S)
           /\ Len(SubSeq(q, 1, n)) = n
           /\ SubSeq(q, 1, n) \o SubSeq(q, n + 1, Len(q)) = q
  <1> DEFINE a == SubSeq(q, 1, n)
             b == SubSeq(q, n + 1, Len(q))
  <1>1. a \in Seq(S) /\ Len(a) = n /\ \A i \in 1..n : a[i] = q[i]
    OBVIOUS
  <1>2. b \in Seq(S) /\ Len(b) = Len(q) - n /\ \A i \in 1..(Len(q) - n) : b[i] = q[n + i]
    OBVIOUS
  <1> HIDE DEF a, b
  <1>3. a \o b \in Seq(S) /\ Len(a \o b) = Len(q)
    BY <1>1, <1>2, SMTT(30)
  <1>4. \A i \in 1..Len(q) : (a \o b)[i] = q[i]
    <2> SUFFICES ASSUME NEW i \in 1..Len(q)
                 PROVE  (a \o b)[i] = q[i]
      OBVIOUS
    <2>1. CASE i <= n
      BY <1>1, <1>2, <2>1
    <2>2. CASE i > n
      <3>1. i - n \in 1..(Len(q) - n) /\ n + (i - n) = i
        BY <2>2
      <3>2. (a \o b)[i] = b[i - n]
        BY <1>1, <1>2, <2>2
      <3>3. b[i - n] = q[n + (i - n)]
        BY <1>2, <3>1
      <3> QED BY <3>1, <3>2, <3>3
    <2>3. i <= n \/ i > n
      OBVIOUS
    <2> QED BY <2>1, <2>2, <2>3
  <1>5. a \o b = q
    BY <1>3, <1>4, SameSeq
  <1> QED BY <1>1, <1>2, <1>5 DEF a, b

(* Text that the panel has yet to write: what is left of the warmup.        *)
LEMMA RestOf ==
    ASSUME NEW S, NEW w \in Seq(S), NEW n \in Nat
    PROVE  /\ SubSeq(w, n + 1, Len(w)) \in Seq(S)
           /\ ToSet(SubSeq(w, n + 1, Len(w))) \subseteq ToSet(w)
           /\ n >= Len(w) => SubSeq(w, n + 1, Len(w)) = <<>>
           /\ n = 0 => SubSeq(w, n + 1, Len(w)) = w
  <1> DEFINE u == SubSeq(w, n + 1, Len(w))
  <1>1. u \in Seq(S)
    OBVIOUS
  <1>2. CASE n >= Len(w)
    <2>1. Len(u) = 0
      BY <1>2
    <2>2. u = <<>>
      BY <1>1, <2>1
    <2>3. n = 0 => w = <<>>
      BY <1>2
    <2> HIDE DEF u
    <2>4. ToSet(u) \subseteq ToSet(w)
      BY <1>1, <2>2, ToSetType
    <2> QED BY <1>1, <2>2, <2>3, <2>4 DEF u
  <1>3. CASE n < Len(w)
    <2>1. n \in 0..Len(w)
      BY <1>3
    <2>2. SubSeq(w, 1, n) \in Seq(S) /\ SubSeq(w, 1, n) \o u = w
      BY <2>1, CutSeq
    <2>3. ToSet(u) \subseteq ToSet(w)
      <3> HIDE DEF u
      <3>1. ToSet(SubSeq(w, 1, n) \o u) = ToSet(SubSeq(w, 1, n)) \cup ToSet(u)
        BY <1>1, <2>2, CatSet, ZenonT(60)
      <3> QED BY <2>2, <3>1
    <2>4. n = 0 => u = w
      OBVIOUS
    <2> QED BY <1>1, <1>3, <2>3, <2>4
  <1> QED BY <1>2, <1>3

LEMMA RestOfCat ==
    ASSUME NEW S, NEW w \in Seq(S), NEW d \in Seq(S), NEW n \in 0..Len(w)
    PROVE  SubSeq(w \o d, n + 1, Len(w \o d)) = SubSeq(w, n + 1, Len(w)) \o d
  <1> DEFINE a == SubSeq(w \o d, n + 1, Len(w \o d))
             b == SubSeq(w, n + 1, Len(w))
  <1>1. w \o d \in Seq(S) /\ Len(w \o d) = Len(w) + Len(d)
    OBVIOUS
  <1>2. /\ a \in Seq(S) /\ Len(a) = Len(w) + Len(d) - n
        /\ \A i \in 1..(Len(w) + Len(d) - n) : a[i] = (w \o d)[n + i]
    BY <1>1
  <1>3. b \in Seq(S) /\ Len(b) = Len(w) - n /\ \A i \in 1..(Len(w) - n) : b[i] = w[n + i]
    OBVIOUS
  <1> HIDE DEF a, b
  <1>4. b \o d \in Seq(S) /\ Len(b \o d) = Len(a)
    BY <1>2, <1>3
  <1>5. \A i \in 1..Len(b \o d) : a[i] = (b \o d)[i]
    <2> SUFFICES ASSUME NEW i \in 1..Len(b \o d)
                 PROVE  a[i] = (b \o d)[i]
      OBVIOUS
    <2>1. a[i] = (w \o d)[n + i]
      BY <1>2, <1>4
    <2>2. CASE i <= Len(w) - n
      <3>1. (w \o d)[n + i] = w[n + i]
        BY <2>2
      <3>2. (b \o d)[i] = b[i]
        BY <1>3, <2>2
      <3> QED BY <1>3, <2>1, <2>2, <3>1, <3>2
    <2>3. CASE i > Len(w) - n
      <3>1. (w \o d)[n + i] = d[n + i - Len(w)]
        <4>1. n + i \in Len(w) + 1 .. Len(w) + Len(d)
          BY <1>2, <1>4, <2>3
        <4> QED  BY <4>1
      <3>2. (b \o d)[i] = d[i - (Len(w) - n)]
        BY <1>3, <1>4, <2>3
      <3>3. i - (Len(w) - n) = n + i - Len(w)
        OBVIOUS
      <3> QED BY <2>1, <3>1, <3>2, <3>3
    <2>4. i <= Len(w) - n \/ i > Len(w) - n
      OBVIOUS
    <2> QED BY <2>2, <2>3, <2>4
  <1>6. a = b \o d
    BY <1>2, <1>4, <1>5, SameSeq
  <1> QED BY <1>6 DEF a, b

(* The startup text is trimmed: some chunks go, the others keep their order. *)
LEMMA Normalized ==
    ASSUME NEW q \in Seq(Chunk)
    PROVE  LET n == normalizeStartupOutput(q) IN
           /\ n \in Seq(Chunk) /\ ToSet(n) \subseteq ToSet(q)
           /\ Sorted(q) => Sorted(n)
  <1> DEFINE text == {i \in DOMAIN q : \E j \in 1..i : q[j][2] \notin Blank}
             Repeated(i) == i - 1 \in text /\ q[i][2] \in Copies /\ q[i - 1][2] + 1 = q[i][2]
             at == {i \in text : ~Repeated(i)}
             n == At(q, at)
  <1>1. normalizeStartupOutput(q) = n
    BY DEF normalizeStartupOutput
  <1>2. at \in SUBSET DOMAIN q
    OBVIOUS
  <1> HIDE DEF at
  <1>3. /\ n \in Seq(Chunk)
        /\ \A k \in DOMAIN n : \E i \in at : n[k] = q[i]
        /\ \A k, m \in DOMAIN n : k < m => \E i, j \in at : i < j /\ n[k] = q[i] /\ n[m] = q[j]
    BY <1>2, AtPositions
  <1> HIDE DEF n
  <1>4. ToSet(n) \subseteq ToSet(q)
    BY <1>2, <1>3 DEF ToSet
  <1>5. Sorted(q) => Sorted(n)
    BY <1>2, <1>3 DEF Sorted
  <1> QED BY <1>1, <1>3, <1>4, <1>5

LEMMA AppendSeq ==
    ASSUME NEW q \in Seq(Chunk), NEW x \in Chunk
    PROVE  /\ Append(q, x) \in Seq(Chunk) /\ Append(q, x) # <<>>
           /\ Len(Append(q, x)) = Len(q) + 1
           /\ ToSet(Append(q, x)) = ToSet(q) \cup {x}
           /\ Sorted(Append(q, x)) <=> Sorted(q) /\ \A c \in ToSet(q) : Before(c, x)
  <1>1. Append(q, x) \in Seq(Chunk) /\ Append(q, x) # <<>> /\ Len(Append(q, x)) = Len(q) + 1
    <2>1. Append(q, x) \in Seq(Chunk) /\ Len(Append(q, x)) = Len(q) + 1
      OBVIOUS
    <2>2. Len(q) + 1 # 0
      OBVIOUS
    <2>3. Len(<<>>) = 0
      OBVIOUS
    <2> QED BY <2>1, <2>2, <2>3
  <1>7. <<x>> \in Seq(Chunk)
    OBVIOUS
  <1>2. Append(q, x) = q \o <<x>>
    OBVIOUS
  <1>3. ToSet(<<x>>) = {x} /\ Sorted(<<x>>)
    BY Single
  <1>4. ToSet(q \o <<x>>) = ToSet(q) \cup ToSet(<<x>>)
    BY <1>7, CatSet
  <1>5. Sorted(q \o <<x>>) <=> Sorted(q) /\ Sorted(<<x>>) /\ Below(ToSet(q), ToSet(<<x>>))
    BY <1>7, CatSorted
  <1>6. Below(ToSet(q), {x}) <=> \A c \in ToSet(q) : Before(c, x)
    BY DEF Below
  <1> QED BY <1>1, <1>2, <1>3, <1>4, <1>5, <1>6, <1>7

-----------------------------------------------------------------------------
(* The stream of a session: printed, emitted, closed, heard.               *)

Streams(rd, ev, came) ==
    rd \in [Session -> ReaderState] /\ ev \in Seq(Event) /\ came \subseteq Chunk

LEMMA StreamTypes ==
    ASSUME NEW rd, NEW ev, NEW came, Streams(rd, ev, came)
    PROVE  /\ \A s \in Session :
                /\ rd[s].at \in {"none", "running", "ended"}
                /\ rd[s].sent \in 0..MaxOutput /\ rd[s].sent \in Nat
                /\ rd[s].batch \in Seq(Chunk) /\ Batch(rd, s) \subseteq Chunk
           /\ \A i \in DOMAIN ev :
                /\ ev[i] \in Event
                /\ ev[i].session \in Session /\ ev[i].data \in Seq(Chunk)
                /\ Data(ev, i) \subseteq Chunk
  <1>1. \A s \in Session : rd[s] \in ReaderState
    BY DEF Streams
  <1>2. \A i \in DOMAIN ev : ev[i] \in Event
    BY DEF Streams
  <1>3. \A r \in ReaderState : /\ r.at \in {"none", "running", "ended"}
                               /\ r.sent \in 0..MaxOutput /\ r.sent \in Nat
                               /\ r.batch \in Seq(Chunk)
    BY Sessions DEF ReaderState
  <1>4. \A e \in Event : e.session \in Session /\ e.data \in Seq(Chunk)
    BY DEF Event
  <1>5. \A q \in Seq(Chunk) : ToSet(q) \subseteq Chunk
    BY ToSetType
  <1> QED BY <1>1, <1>2, <1>3, <1>4, <1>5 DEF Batch, Data

LEMMA Prints ==
    ASSUME NEW rd, NEW ev, NEW came, Streams(rd, ev, came), Stream(rd, ev, came),
           NEW s \in Session, NEW rd2 \in [Session -> ReaderState],
           rd2[s].at = "running", rd2[s].sent = rd[s].sent + 1,
           rd2[s].batch = Append(rd[s].batch, <<s, rd2[s].sent>>),
           \A r \in Session : r # s => rd2[r] = rd[r]
    PROVE  Stream(rd2, ev, came)
  <1> DEFINE x == <<s, rd2[s].sent>>
  <1>1. /\ \A r \in Session : /\ rd[r].sent \in Nat /\ rd[r].batch \in Seq(Chunk)
                              /\ Batch(rd, r) \subseteq Chunk
        /\ \A i \in DOMAIN ev : Data(ev, i) \subseteq Chunk /\ ev[i].session \in Session
    BY StreamTypes
  <1>2. x \in Chunk /\ x[1] = s /\ x[2] = rd[s].sent + 1
    <2>1. Streams(rd2, ev, came)
      BY DEF Streams
    <2>2. rd2[s].sent \in 0..MaxOutput /\ rd2[s].sent >= 1
      BY <1>1, <2>1, StreamTypes
    <2> QED BY <2>2, Sessions DEF Chunk
  <1> HIDE DEF x
  <1>3. \A r \in Session : rd[r].sent <= rd2[r].sent /\ rd2[r].sent \in Nat
    BY <1>1
  <1>4. /\ Batch(rd2, s) = Batch(rd, s) \cup {x}
        /\ Sorted(rd2[s].batch) <=> Sorted(rd[s].batch) /\ \A c \in Batch(rd, s) : Before(c, x)
    <2>1. rd2[s].batch = Append(rd[s].batch, x)
      BY DEF x
    <2>2. rd[s].batch \in Seq(Chunk)
      BY <1>1
    <2>3. /\ ToSet(Append(rd[s].batch, x)) = ToSet(rd[s].batch) \cup {x}
          /\ Sorted(Append(rd[s].batch, x)) <=>
               Sorted(rd[s].batch) /\ \A c \in ToSet(rd[s].batch) : Before(c, x)
      BY <1>2, <2>2, AppendSeq, Zenon
    <2> QED BY <2>1, <2>3 DEF Batch
  <1>5. \A r \in Session : r # s => Batch(rd2, r) = Batch(rd, r)
    BY DEF Batch
  <1>6. \A c \in Chunk : c[1] \in Session /\ c[2] \in Nat
    BY ChunkNumbers
  <1>7. /\ \A r \in Session : \A c \in Batch(rd, r) : c[1] = r /\ c[2] <= rd[r].sent
        /\ \A i \in DOMAIN ev : \A c \in Data(ev, i) :
             c[1] = ev[i].session /\ c[2] <= rd[ev[i].session].sent
        /\ \A c \in came : c[1] \in Session /\ c[2] \in Nat /\ c[2] <= rd[c[1]].sent
    BY <1>6 DEF Stream, Streams, FromReader, InFlight, AtWindow, Of
  <1>8. FromReader(rd2)
    <2>1. \A c \in Batch(rd, s) : Before(c, x)
      <3> SUFFICES ASSUME NEW c \in Batch(rd, s)
                   PROVE  Before(c, x)
        OBVIOUS
      <3>1. c[1] = s /\ c[2] <= rd[s].sent /\ c[2] \in Nat
        BY <1>1, <1>6, <1>7
      <3> QED BY <1>1, <1>2, <3>1 DEF Before
    <2>2. Sorted(rd2[s].batch)
      BY <1>4, <2>1 DEF Stream, FromReader
    <2>3. Of(rd2, Batch(rd2, s), s)
      <3> SUFFICES ASSUME NEW c \in Batch(rd2, s)
                   PROVE  c[1] = s /\ c[2] <= rd2[s].sent
        BY DEF Of
      <3>1. CASE c = x
        BY <1>1, <1>2, <3>1
      <3>2. CASE c \in Batch(rd, s)
        BY <1>1, <1>6, <1>7, <3>2
      <3> QED BY <1>4, <3>1, <3>2
    <2>4. ASSUME NEW r \in Session, r # s
          PROVE  /\ rd2[r].at = "none" => rd2[r].sent = 0
                 /\ rd2[r].at # "running" => rd2[r].batch = <<>>
                 /\ Sorted(rd2[r].batch) /\ Of(rd2, Batch(rd2, r), r)
      BY <1>5, <2>4 DEF Stream, FromReader, Of
    <2> QED BY <2>2, <2>3, <2>4 DEF FromReader
  <1>9. InFlight(rd2, ev)
    <2>1. ASSUME NEW i \in DOMAIN ev
          PROVE  Of(rd2, Data(ev, i), ev[i].session)
      <3> SUFFICES ASSUME NEW c \in Data(ev, i)
                   PROVE  c[1] = ev[i].session /\ c[2] <= rd2[ev[i].session].sent
        BY DEF Of
      <3>1. c[1] = ev[i].session /\ c[2] <= rd[ev[i].session].sent /\ c[2] \in Nat
        BY <1>1, <1>6, <1>7
      <3> QED BY <1>1, <1>3, <3>1
    <2>2. ASSUME NEW i \in DOMAIN ev, NEW r \in Session
          PROVE  Ahead(Data(ev, i), Batch(rd2, r))
      <3>1. Ahead(Data(ev, i), Batch(rd, r))
        BY DEF Stream, InFlight
      <3>2. \A c \in Data(ev, i) : c[1] = x[1] => c[2] < x[2]
        <4> SUFFICES ASSUME NEW c \in Data(ev, i), c[1] = s
                     PROVE  c[2] < rd[s].sent + 1
          BY <1>2
        <4>1. c[2] <= rd[s].sent /\ c[2] \in Nat
          BY <1>1, <1>6, <1>7
        <4> QED BY <1>1, <4>1
      <3> QED BY <1>4, <1>5, <3>1, <3>2 DEF Ahead
    <2> QED BY <2>1, <2>2 DEF Stream, InFlight
  <1>10. AtWindow(rd2, ev, came)
    <2>1. ASSUME NEW c \in came
          PROVE  c[2] <= rd2[c[1]].sent
      BY <1>1, <1>3, <1>7
    <2>2. ASSUME NEW r \in Session
          PROVE  Ahead(came, Batch(rd2, r))
      <3>1. Ahead(came, Batch(rd, r))
        BY DEF Stream, AtWindow
      <3>2. \A c \in came : c[1] = x[1] => c[2] < x[2]
        BY <1>1, <1>2, <1>7
      <3> QED BY <1>4, <1>5, <3>1, <3>2 DEF Ahead
    <2> QED BY <2>1, <2>2 DEF Stream, AtWindow
  <1> QED BY <1>8, <1>9, <1>10 DEF Stream

(* A batch becomes an event. *)
LEMMA Emits ==
    ASSUME NEW rd, NEW ev, NEW came, Streams(rd, ev, came), Stream(rd, ev, came),
           NEW s \in Session, NEW rd2 \in [Session -> ReaderState],
           rd2[s].at = rd[s].at, rd2[s].sent = rd[s].sent, rd2[s].batch = <<>>,
           \A r \in Session : r # s => rd2[r] = rd[r]
    PROVE  /\ Stream(rd2, Append(ev, OutputEvent(s, rd[s].batch)), came)
           /\ Append(ev, OutputEvent(s, rd[s].batch)) \in Seq(Event)
  <1> DEFINE e == OutputEvent(s, rd[s].batch)
             ev2 == Append(ev, e)
  <1>1. /\ \A r \in Session : /\ rd[r].sent \in Nat /\ rd[r].batch \in Seq(Chunk)
                              /\ Batch(rd, r) \subseteq Chunk
        /\ \A i \in DOMAIN ev : Data(ev, i) \subseteq Chunk /\ ev[i].session \in Session
    BY StreamTypes
  <1>2. e \in Event /\ e.session = s /\ e.data = rd[s].batch /\ e.kind = "output"
    BY <1>1 DEF OutputEvent, Event
  <1>3. ev \in Seq(Event)
    BY DEF Streams
  <1> HIDE DEF e
  <1>4. /\ ev2 \in Seq(Event) /\ Len(ev2) = Len(ev) + 1 /\ Len(ev) \in Nat
        /\ DOMAIN ev2 = 1..Len(ev2) /\ DOMAIN ev = 1..Len(ev)
    BY <1>2, <1>3
  <1>5. /\ \A i \in DOMAIN ev2 : i = Len(ev) + 1 \/ i \in DOMAIN ev
        /\ \A i \in DOMAIN ev : ev2[i] = ev[i] /\ i < Len(ev) + 1
        /\ ev2[Len(ev) + 1] = e
    BY <1>2, <1>3, <1>4
  <1> DEFINE m == Len(ev) + 1
  <1>6. /\ \A i \in DOMAIN ev : Data(ev2, i) = Data(ev, i)
        /\ Data(ev2, m) = Batch(rd, s)
    BY <1>2, <1>5 DEF Data, Batch
  <1>7. /\ Batch(rd2, s) = {} /\ Sorted(rd2[s].batch)
        /\ \A r \in Session : r # s => Batch(rd2, r) = Batch(rd, r)
        /\ \A r \in Session : rd2[r].sent = rd[r].sent
    BY Empty DEF Batch
  <1> HIDE DEF ev2
  <1>8. \A r, t \in Session : r # t => Ahead(Batch(rd, r), Batch(rd, t))
    BY DEF Stream, FromReader, Of, Ahead
  <1>9. FromReader(rd2)
    <2>1. /\ rd2[s].at = "none" => rd2[s].sent = 0
          /\ rd2[s].at # "running" => rd2[s].batch = <<>>
          /\ Sorted(rd2[s].batch) /\ Of(rd2, Batch(rd2, s), s)
      BY <1>7 DEF Stream, FromReader, Of
    <2>2. ASSUME NEW r \in Session, r # s
          PROVE  /\ rd2[r].at = "none" => rd2[r].sent = 0
                 /\ rd2[r].at # "running" => rd2[r].batch = <<>>
                 /\ Sorted(rd2[r].batch) /\ Of(rd2, Batch(rd2, r), r)
      BY <1>7, <2>2 DEF Stream, FromReader, Of
    <2> QED BY <2>1, <2>2 DEF FromReader
  <1>10. InFlight(rd2, ev2)
    <2>1. ASSUME NEW i \in DOMAIN ev
          PROVE  /\ ev2[i].kind = "closed" => ev2[i].data = <<>>
                 /\ Sorted(ev2[i].data) /\ Of(rd2, Data(ev2, i), ev2[i].session)
                 /\ \A r \in Session : Ahead(Data(ev2, i), Batch(rd2, r))
      BY <1>1, <1>5, <1>6, <1>7 DEF Stream, InFlight, Of, Ahead
    <2>2. /\ ev2[m].kind = "closed" => ev2[m].data = <<>>
          /\ Sorted(ev2[m].data) /\ Of(rd2, Data(ev2, m), ev2[m].session)
          /\ \A r \in Session : Ahead(Data(ev2, m), Batch(rd2, r))
      <3>1. Sorted(ev2[m].data) /\ Of(rd2, Data(ev2, m), ev2[m].session)
        BY <1>2, <1>5, <1>6, <1>7 DEF Stream, FromReader, Of
      <3>2. ASSUME NEW r \in Session
            PROVE  Ahead(Data(ev2, m), Batch(rd2, r))
        <4>1. CASE r = s
          BY <1>7, <4>1 DEF Ahead
        <4>2. CASE r # s
          BY <1>6, <1>7, <1>8, <4>2
        <4> QED BY <4>1, <4>2
      <3>3. ev2[m].kind # "closed"
        BY <1>2, <1>5
      <3> QED BY <3>1, <3>2, <3>3
    <2>3. ASSUME NEW i \in DOMAIN ev2, NEW j \in DOMAIN ev2, i < j
          PROVE  Ahead(Data(ev2, i), Data(ev2, j))
      <3>1. i \in DOMAIN ev
        BY <1>4, <2>3
      <3>2. CASE j \in DOMAIN ev
        BY <1>6, <2>3, <3>1, <3>2 DEF Stream, InFlight
      <3>3. CASE j = m
        <4>1. Ahead(Data(ev, i), Batch(rd, s))
          BY <3>1 DEF Stream, InFlight
        <4> QED BY <1>6, <3>1, <3>3, <4>1
      <3> QED BY <1>5, <3>2, <3>3
    <2>4. \A i \in DOMAIN ev2 : i = m \/ i \in DOMAIN ev
      BY <1>5
    <2> HIDE DEF m
    <2> QED BY <2>1, <2>2, <2>3, <2>4 DEF InFlight
  <1>11. AtWindow(rd2, ev2, came)
    <2>1. \A c \in came : c[2] <= rd2[c[1]].sent
      BY <1>7, ChunkNumbers DEF Stream, Streams, AtWindow
    <2>2. ASSUME NEW i \in DOMAIN ev2
          PROVE  Ahead(came, Data(ev2, i))
      <3>1. CASE i \in DOMAIN ev
        BY <1>6, <3>1 DEF Stream, AtWindow
      <3>2. CASE i = m
        <4>1. Ahead(came, Batch(rd, s))
          BY DEF Stream, AtWindow
        <4> QED BY <1>6, <3>2, <4>1
      <3> QED BY <1>5, <3>1, <3>2
    <2>3. ASSUME NEW r \in Session
          PROVE  Ahead(came, Batch(rd2, r))
      BY <1>7 DEF Stream, AtWindow, Ahead
    <2> QED BY <2>1, <2>2, <2>3 DEF AtWindow
  <1>12. Stream(rd2, ev2, came)
    BY <1>9, <1>10, <1>11 DEF Stream
  <1> QED BY <1>4, <1>12 DEF ev2, e

(* An event without data says nothing of what was printed. *)
LEMMA Closes ==
    ASSUME NEW rd, NEW ev, NEW came, Streams(rd, ev, came), Stream(rd, ev, came),
           NEW s \in Session
    PROVE  /\ Stream(rd, Append(ev, ClosedEvent(s)), came)
           /\ Append(ev, ClosedEvent(s)) \in Seq(Event)
  <1> DEFINE e == ClosedEvent(s)
             ev2 == Append(ev, e)
  <1>1. e \in Event /\ e.session = s /\ e.data = <<>>
    BY Empty DEF ClosedEvent, Event
  <1>2. ev \in Seq(Event)
    BY DEF Streams
  <1> HIDE DEF e
  <1>3. /\ ev2 \in Seq(Event) /\ Len(ev2) = Len(ev) + 1 /\ Len(ev) \in Nat
        /\ DOMAIN ev2 = 1..Len(ev2) /\ DOMAIN ev = 1..Len(ev)
    BY <1>1, <1>2
  <1>4. /\ \A i \in DOMAIN ev2 : i = Len(ev) + 1 \/ i \in DOMAIN ev
        /\ \A i \in DOMAIN ev : ev2[i] = ev[i]
        /\ ev2[Len(ev) + 1] = e
    BY <1>1, <1>2, <1>3
  <1> HIDE DEF ev2
  <1>5. \A i \in DOMAIN ev2 :
          \/ i \in DOMAIN ev /\ ev2[i] = ev[i] /\ Data(ev2, i) = Data(ev, i)
          \/ ev2[i].data = <<>> /\ Sorted(ev2[i].data) /\ Data(ev2, i) = {}
    BY <1>1, <1>4, Empty DEF Data
  <1>6. InFlight(rd, ev2)
    <2>1. ASSUME NEW i \in DOMAIN ev2
          PROVE  /\ ev2[i].kind = "closed" => ev2[i].data = <<>>
                 /\ Sorted(ev2[i].data) /\ Of(rd, Data(ev2, i), ev2[i].session)
                 /\ \A r \in Session : Ahead(Data(ev2, i), Batch(rd, r))
      BY <1>5 DEF Stream, InFlight, Of, Ahead
    <2>2. ASSUME NEW i \in DOMAIN ev2, NEW j \in DOMAIN ev2, i < j
          PROVE  Ahead(Data(ev2, i), Data(ev2, j))
      <3>1. CASE Data(ev2, i) = {} \/ Data(ev2, j) = {}
        BY <3>1 DEF Ahead
      <3>2. CASE ~(Data(ev2, i) = {} \/ Data(ev2, j) = {})
        BY <1>5, <2>2, <3>2 DEF Stream, InFlight
      <3> QED BY <3>1, <3>2
    <2> QED BY <2>1, <2>2 DEF InFlight
  <1>7. AtWindow(rd, ev2, came)
    BY <1>5 DEF Stream, AtWindow, Ahead
  <1>8. Stream(rd, ev2, came)
    BY <1>6, <1>7 DEF Stream
  <1> QED BY <1>3, <1>8 DEF ev2, e

(* The window takes the first event, with its data or without. *)
LEMMA Hearing ==
    ASSUME NEW rd, NEW ev, NEW came, Streams(rd, ev, came), Stream(rd, ev, came),
           ev # <<>>, NEW came2, came2 \subseteq came \cup ToSet(Head(ev).data)
    PROVE  /\ Stream(rd, Tail(ev), came2)
           /\ Tail(ev) \in Seq(Event) /\ Head(ev) \in Event
           /\ Head(ev).kind = "closed" => ToSet(Head(ev).data) = {}
           /\ Sorted(Head(ev).data) /\ Of(rd, ToSet(Head(ev).data), Head(ev).session)
           /\ Ahead(came, ToSet(Head(ev).data))
           /\ Flying(ev) \subseteq ToSet(Head(ev).data) \cup Flying(Tail(ev))
  <1> DEFINE tl == Tail(ev)
  <1>1. /\ ev \in Seq(Event) /\ Head(ev) = ev[1] /\ Head(ev) \in Event
        /\ Len(ev) \in Nat /\ DOMAIN ev = 1..Len(ev) /\ 1 \in DOMAIN ev
    BY DEF Streams
  <1>2. /\ tl \in Seq(Event) /\ Len(tl) = Len(ev) - 1 /\ DOMAIN tl = 1..Len(tl)
    BY <1>1
  <1>3. \A i \in DOMAIN tl : tl[i] = ev[i + 1] /\ i + 1 \in DOMAIN ev /\ i + 1 > 1 /\ i \in Nat
    BY <1>1, <1>2
  <1>4. \A i \in DOMAIN ev : i = 1 \/ (i - 1 \in DOMAIN tl /\ (i - 1) + 1 = i)
    BY <1>1, <1>2
  <1> HIDE DEF tl
  <1>5. Data(ev, 1) = ToSet(Head(ev).data)
    BY <1>1 DEF Data
  <1>6. \A i \in DOMAIN tl : Data(tl, i) = Data(ev, i + 1)
    BY <1>3 DEF Data
  <1>7. InFlight(rd, tl)
    <2>1. ASSUME NEW i \in DOMAIN tl
          PROVE  /\ tl[i].kind = "closed" => tl[i].data = <<>>
                 /\ Sorted(tl[i].data) /\ Of(rd, Data(tl, i), tl[i].session)
                 /\ \A r \in Session : Ahead(Data(tl, i), Batch(rd, r))
      BY <1>3, <1>6 DEF Stream, InFlight
    <2>2. ASSUME NEW i \in DOMAIN tl, NEW j \in DOMAIN tl, i < j
          PROVE  Ahead(Data(tl, i), Data(tl, j))
      <3>1. i + 1 < j + 1
        BY <1>3, <2>2
      <3> QED BY <1>3, <1>6, <3>1 DEF Stream, InFlight
    <2> QED BY <2>1, <2>2 DEF InFlight
  <1>8. AtWindow(rd, tl, came2)
    <2>1. ASSUME NEW c \in came2
          PROVE  c[2] <= rd[c[1]].sent
      <3>1. CASE c \in came
        BY <3>1 DEF Stream, AtWindow
      <3>2. CASE c \in Data(ev, 1)
        BY <1>1, <3>2 DEF Stream, InFlight, Of
      <3> QED BY <1>5, <3>1, <3>2
    <2>2. ASSUME NEW i \in DOMAIN tl
          PROVE  Ahead(came2, Data(tl, i))
      <3>1. Ahead(came, Data(tl, i))
        BY <1>3, <1>6 DEF Stream, AtWindow
      <3>2. Ahead(Data(ev, 1), Data(tl, i))
        BY <1>1, <1>3, <1>6 DEF Stream, InFlight
      <3> QED BY <1>5, <3>1, <3>2 DEF Ahead
    <2>3. ASSUME NEW r \in Session
          PROVE  Ahead(came2, Batch(rd, r))
      <3>1. Ahead(came, Batch(rd, r))
        BY DEF Stream, AtWindow
      <3>2. Ahead(Data(ev, 1), Batch(rd, r))
        BY <1>1 DEF Stream, InFlight
      <3> QED BY <1>5, <3>1, <3>2 DEF Ahead
    <2> QED BY <2>1, <2>2, <2>3 DEF AtWindow
  <1>9. /\ Head(ev).kind = "closed" => ToSet(Head(ev).data) = {}
        /\ Sorted(Head(ev).data) /\ Of(rd, ToSet(Head(ev).data), Head(ev).session)
        /\ Ahead(came, ToSet(Head(ev).data))
    BY <1>1, <1>5, Empty DEF Stream, InFlight, AtWindow
  <1>10. Flying(ev) \subseteq ToSet(Head(ev).data) \cup Flying(tl)
    <2> SUFFICES ASSUME NEW i \in DOMAIN ev, NEW c \in Data(ev, i)
                 PROVE  c \in ToSet(Head(ev).data) \cup Flying(tl)
      BY DEF Flying
    <2>1. CASE i = 1
      BY <1>5, <2>1
    <2>2. CASE i # 1
      <3>1. PICK j \in DOMAIN tl : Data(tl, j) = Data(ev, i)
        BY <1>4, <1>6, <2>2
      <3> QED BY <3>1 DEF Flying
    <2> QED BY <2>1, <2>2
  <1> QED BY <1>1, <1>2, <1>7, <1>8, <1>9, <1>10 DEF Stream, tl

(* What is at the window may only get less, unless an event brings more. *)
LEMMA Fewer ==
    ASSUME NEW rd, NEW ev, NEW came, Stream(rd, ev, came),
           NEW came2, came2 \subseteq came
    PROVE  Stream(rd, ev, came2)
  BY DEF Stream, AtWindow, Ahead

-----------------------------------------------------------------------------
(* The types of what the actions read, and of what they make.              *)

LEMMA Streaming ==
    ASSUME TypeOK
    PROVE  Streams(reader, events, Came)
  <1>1. /\ shown \in Seq(Chunk) /\ queue \in QueueState /\ panel \in PanelState
        /\ tab \in TabState /\ capture \in CaptureState
    BY DEF TypeOK
  <1>2. /\ shown \in Seq(Chunk) /\ queue.writing \in Seq(Chunk) /\ queue.chunks \in Seq(Chunk)
        /\ panel.startup \in Seq(Chunk) /\ tab.warmup \in Seq(Chunk)
        /\ capture.data \in Seq(Chunk)
    BY <1>1 DEF QueueState, PanelState, TabState, CaptureState
  <1>3. \A q \in Seq(Chunk) : ToSet(q) \subseteq Chunk
    BY ToSetType
  <1> QED BY <1>2, <1>3 DEF Streams, TypeOK, Came, InQueue, Handed

LEMMA Types ==
    ASSUME TypeOK
    PROVE  /\ capture.on \in BOOLEAN /\ capture.data \in Seq(Chunk) /\ capture.grace \in BOOLEAN
           /\ tab.open \in BOOLEAN /\ tab.session \in Session \cup {None}
           /\ tab.warmup \in Seq(Chunk)
           /\ panel.startup \in Seq(Chunk) /\ panel.written \in Nat
           /\ queue.chunks \in Seq(Chunk) /\ queue.writing \in Seq(Chunk)
           /\ queue.disposed \in BOOLEAN
           /\ shown \in Seq(Chunk)
           /\ Unwritten \in Seq(Chunk) /\ ToSet(Unwritten) \subseteq ToSet(tab.warmup)
  <1>1. capture \in CaptureState /\ tab \in TabState /\ panel \in PanelState
        /\ queue \in QueueState /\ shown \in Seq(Chunk)
    BY DEF TypeOK
  <1>2. /\ capture.on \in BOOLEAN /\ capture.data \in Seq(Chunk) /\ capture.grace \in BOOLEAN
        /\ tab.open \in BOOLEAN /\ tab.session \in Session \cup {None}
        /\ tab.warmup \in Seq(Chunk)
    BY <1>1 DEF CaptureState, TabState
  <1>3. /\ panel.startup \in Seq(Chunk) /\ panel.written \in Nat
        /\ queue.chunks \in Seq(Chunk) /\ queue.writing \in Seq(Chunk)
        /\ queue.disposed \in BOOLEAN
    BY <1>1 DEF PanelState, QueueState
  <1>4. Unwritten \in Seq(Chunk) /\ ToSet(Unwritten) \subseteq ToSet(tab.warmup)
    BY <1>2, <1>3, RestOf DEF Unwritten
  <1> QED BY <1>1, <1>2, <1>3, <1>4

LEMMA EnqueuedFields ==
    ASSUME NEW q \in QueueState, NEW data \in Seq(Chunk)
    PROVE  /\ Enqueued(q, data) \in QueueState
           /\ Enqueued(q, data).writing = q.writing
           /\ Enqueued(q, data).disposed = q.disposed
           /\ Enqueued(q, data).chunks = IF q.disposed THEN q.chunks ELSE q.chunks \o data
  <1>1. q.chunks \in Seq(Chunk) /\ q.chunks \o data \in Seq(Chunk)
    BY CatSet DEF QueueState
  <1> QED BY <1>1 DEF QueueState, Enqueued

LEMMA TakenFields ==
    ASSUME NEW q \in QueueState
    PROVE  /\ Taken(q) \in QueueState /\ Taken(q).disposed = q.disposed
           /\ Taken(q).writing \o Taken(q).chunks = q.chunks
           /\ Len(Taken(q).writing) <= BatchChars
  <1> DEFINE n == IF Len(q.chunks) > BatchChars THEN BatchChars ELSE Len(q.chunks)
  <1>1. q.chunks \in Seq(Chunk) /\ Len(q.chunks) \in Nat
    BY DEF QueueState
  <1>2. n \in 0..Len(q.chunks) /\ n <= BatchChars
    BY <1>1, Sessions
  <1> HIDE DEF n
  <1>3. /\ SubSeq(q.chunks, 1, n) \in Seq(Chunk)
        /\ SubSeq(q.chunks, n + 1, Len(q.chunks)) \in Seq(Chunk)
        /\ Len(SubSeq(q.chunks, 1, n)) = n
        /\ SubSeq(q.chunks, 1, n) \o SubSeq(q.chunks, n + 1, Len(q.chunks)) = q.chunks
    BY <1>1, <1>2, CutSeq
  <1> DEFINE a == SubSeq(q.chunks, 1, n)
             b == SubSeq(q.chunks, n + 1, Len(q.chunks))
  <1>4. Taken(q) = [q EXCEPT !.chunks = b, !.writing = a]
    BY DEF Taken, n
  <1> HIDE DEF a, b
  <1>5. Taken(q) \in QueueState /\ Taken(q).disposed = q.disposed
        /\ Taken(q).writing = a /\ Taken(q).chunks = b
    BY <1>3, <1>4 DEF QueueState, a, b
  <1> QED BY <1>2, <1>3, <1>5 DEF a, b

LEMMA PrintLimit ==
    ASSUME TypeOK, CanPrint, NEW s \in Session
    PROVE  reader[s].sent + 1 \in 0..MaxOutput
  <1> DEFINE C == {c \in Chunk : c[2] <= reader[c[1]].sent}
             P == {s} \X (1..MaxOutput)
  <1>1. reader[s].sent \in 0..MaxOutput
    BY Streaming, StreamTypes
  <1>2. SUFFICES ASSUME reader[s].sent = MaxOutput
                 PROVE  FALSE
    BY <1>1, Sessions
  <1>3. P \subseteq C
    BY <1>2, Sessions DEF Chunk
  <1>4. IsFiniteSet(Chunk)
    <2>1. IsFiniteSet(Session)
      BY FS_Interval, OutputAssumption DEF Session
    <2>2. IsFiniteSet(1..MaxOutput)
      BY FS_Interval, OutputAssumption
    <2> QED BY <2>1, <2>2, FS_Product DEF Chunk
  <1>5. IsFiniteSet(C) /\ C \subseteq Chunk
    BY <1>4, FS_Subset
  <1>6. Cardinality(P) = MaxOutput
    <2>1. IsFiniteSet({s}) /\ Cardinality({s}) = 1
      BY FS_Singleton
    <2>2. IsFiniteSet(1..MaxOutput) /\ Cardinality(1..MaxOutput) = MaxOutput
      BY FS_Interval, OutputAssumption
    <2> DEFINE one == {s}
               all == 1..MaxOutput
    <2>3. IsFiniteSet(one) /\ IsFiniteSet(all) /\ P = one \X all
      BY <2>1, <2>2
    <2> HIDE DEF one, all, P
    <2>4. Cardinality(P) = Cardinality(one) * Cardinality(all)
      BY <2>3, FS_Product
    <2> QED BY <2>1, <2>2, <2>4, Sessions DEF one, all
  <1>7. Cardinality(P) <= Cardinality(C) /\ Cardinality(C) \in Nat
    BY <1>3, <1>5, FS_Subset, FS_CardinalityType
  <1>8. Cardinality(C) < MaxOutput
    BY DEF CanPrint
  <1> QED BY <1>6, <1>7, <1>8, Sessions

LEMMA FlyingAppend ==
    ASSUME NEW ev \in Seq(Event), NEW e \in Event
    PROVE  Flying(Append(ev, e)) = Flying(ev) \cup ToSet(e.data)
  <1> DEFINE ev2 == Append(ev, e)
             m == Len(ev) + 1
  <1>1. /\ m \in DOMAIN ev2 /\ ev2[m] = e
        /\ \A i \in DOMAIN ev : i \in DOMAIN ev2 /\ ev2[i] = ev[i]
        /\ \A i \in DOMAIN ev2 : i = m \/ i \in DOMAIN ev
    OBVIOUS
  <1> HIDE DEF ev2, m
  <1>2. Data(ev2, m) = ToSet(e.data) /\ \A i \in DOMAIN ev : Data(ev2, i) = Data(ev, i)
    BY <1>1 DEF Data
  <1>3. Flying(ev2) = Flying(ev) \cup ToSet(e.data)
    <2>1. \A i \in DOMAIN ev2 : Data(ev2, i) \subseteq Flying(ev) \cup ToSet(e.data)
      BY <1>1, <1>2 DEF Flying
    <2>2. \A i \in DOMAIN ev : Data(ev, i) \subseteq Flying(ev2)
      BY <1>1, <1>2 DEF Flying
    <2>3. ToSet(e.data) \subseteq Flying(ev2)
      BY <1>1, <1>2 DEF Flying
    <2>4. Flying(ev2) \subseteq Flying(ev) \cup ToSet(e.data)
      BY <2>1 DEF Flying
    <2>5. Flying(ev) \subseteq Flying(ev2)
      BY <2>2 DEF Flying
    <2> QED BY <2>3, <2>4, <2>5
  <1> QED BY <1>3 DEF ev2

-----------------------------------------------------------------------------
(* The steps of the backend.                                               *)

Reached(s) == ToSet(reader[s].batch) \cup Flying(events)

LEMMA Held ==
    ASSUME NEW s \in Session
    PROVE  /\ OnItsWay(s) = Reached(s) \cup ToSet(capture.data) \cup ToSet(Unwritten)
                 \cup ToSet(panel.startup) \cup ToSet(queue.chunks) \cup ToSet(queue.writing)
           /\ (OnItsWay(s) = Reached(s) \cup ToSet(capture.data) \cup ToSet(Unwritten)
                 \cup ToSet(panel.startup) \cup ToSet(queue.chunks) \cup ToSet(queue.writing))'
  BY DEF OnItsWay, InEvents, Reached, Flying, Data

Backend ==
    /\ UNCHANGED <<capture, tab, panel, queue, screen, odd>>
    /\ reader' \in [Session -> ReaderState] /\ events' \in Seq(Event)
    /\ \A s \in Session : Len(reader'[s].batch) < BatchBytes
    /\ connect' \in [Session -> {"none", "asked", "opened", "refused", "done"}]
    /\ Stream(reader', events', Came)
    /\ \A s \in Session :
         /\ connect'[s] = "none" <=> connect[s] = "none"
         /\ connect'[s] = "done" <=> connect[s] = "done"
         /\ connect'[s] \in {"none", "asked", "refused"} => reader'[s].at = "none"
         /\ connect'[s] = "opened" => reader'[s].at # "none"
         /\ reader[s].at = "none" => reader'[s].at = "none" \/ connect[s] = "asked"
         /\ Reached(s) \subseteq Reached(s)'
         /\ Printed(s)' \subseteq Printed(s) \cup Reached(s)'

LEMMA BackendKeeps ==
    ASSUME IInv, Backend
    PROVE  IInv'
  <1>1. TypeOK'
    BY DEF IInv, TypeOK, Backend, screen
  <1>2. Came' = Came /\ Handed' = Handed /\ Unwritten' = Unwritten /\ InQueue' = InQueue
        /\ Line' = Line
    BY DEF Backend, screen, Came, Handed, InQueue, Unwritten, Line
  <1>3. Stream(reader', events', Came')
    BY <1>2 DEF Backend
  <1>4. Requests'
    <2>1. connect'[1] # "none"
      BY Sessions DEF IInv, Requests, Backend
    <2>2. \A r, s \in Session : r < s /\ connect'[s] # "none" => connect'[r] = "done"
      BY DEF IInv, Requests, Backend
    <2>3. \A s \in Session :
            /\ connect'[s] \in {"none", "asked", "refused"} => reader'[s].at = "none"
            /\ connect'[s] = "opened" => reader'[s].at # "none"
      BY DEF Backend
    <2> QED BY <2>1, <2>2, <2>3 DEF Requests
  <1>5. Tabs'
    <2>1. connect'[1] = "done" <=> connect[1] = "done"
      BY Sessions DEF Backend
    <2>2. /\ capture' = capture /\ tab' = tab /\ panel' = panel /\ queue' = queue
      BY DEF Backend
    <2> QED BY <1>2, <2>1, <2>2 DEF IInv, Tabs
  <1>6. Panels'
    <2>1. panel' = panel /\ tab' = tab /\ queue' = queue /\ shown' = shown
      BY DEF Backend, screen
    <2>2. CASE ~panel.mounted
      <3>1. \A s \in Session : connect[s] = "none" => connect'[s] = "none"
        BY DEF Backend
      <3> QED BY <2>1, <2>2, <3>1 DEF IInv, Panels, Unmounted
    <2>3. CASE panel.mounted
      <3>1. Mounted
        BY <2>3 DEF IInv, Panels
      <3>2. \A r \in Session : r > panel.request =>
              connect'[r] \in {"none", "done"} /\ reader'[r].at = "none"
        <4> SUFFICES ASSUME NEW r \in Session, r > panel.request
                     PROVE  connect'[r] \in {"none", "done"} /\ reader'[r].at = "none"
          OBVIOUS
        <4>1. connect[r] \in {"none", "done"} /\ reader[r].at = "none"
          BY <3>1 DEF Mounted
        <4> QED BY <4>1 DEF Backend
      <3>3. \A r \in Session : connect'[r] \in {"asked", "opened", "refused"} <=>
                               connect[r] \in {"asked", "opened", "refused"}
        BY DEF Backend, IInv, TypeOK
      <3>4. panel.reconnecting => Reconnecting'
        <4> SUFFICES ASSUME Reconnecting
                     PROVE  Reconnecting'
          BY <3>1 DEF Mounted
        <4>1. ASSUME NEW r \in Session, panel.wasRequest < r, r < panel.request
              PROVE  reader'[r].at = "none"
          <5>1. reader[r].at = "none"
            BY <4>1 DEF Reconnecting
          <5>2. connect[r] # "asked"
            <6>1. panel.wasRequest \in Nat /\ panel.wasRequest >= 1 /\ r > 1 /\ r # panel.request
              <7>1. panel.wasRequest \in Session /\ panel.request \in Session
                BY <3>1 DEF Reconnecting, Mounted
              <7>2. panel.wasRequest \in Nat /\ panel.wasRequest >= 1 /\ r \in Nat
                    /\ panel.request \in Nat
                BY <7>1, Sessions
              <7> QED BY <4>1, <7>2
            <6> QED BY <3>1, <6>1 DEF Mounted
          <5> QED BY <5>1, <5>2 DEF Backend
        <4> QED BY <2>1, <3>1, <3>3, <4>1 DEF Reconnecting, Mounted
      <3>5. connect'[panel.request] # "none"
        BY <3>1 DEF Mounted, Backend
      <3>6. \A r \in Session : r > 1 /\ connect'[r] \in {"asked", "opened", "refused"} =>
              panel.reconnecting /\ r = panel.request
        BY <3>1, <3>3 DEF Mounted
      <3> QED BY <1>2, <2>1, <2>3, <3>1, <3>2, <3>4, <3>5, <3>6 DEF Panels, Mounted
    <2> QED BY <2>2, <2>3
  <1>7. Taking' /\ InLine'
    BY <1>2 DEF IInv, Taking, InLine, Orderly, Backend
  <1>8. ASSUME NEW s \in Session
        PROVE  Latest(s)' <=> Latest(s)
    BY DEF Latest, Backend
  <1>9. Excused' <=> Excused
    BY DEF Excused, Backend
  <1>10. Delivered'
    <2> SUFFICES ASSUME NEW s \in Session, Latest(s), ~Excused
                 PROVE  Attended(s)'
      BY <1>8, <1>9 DEF Delivered
    <2>1. Attended(s)
      BY DEF IInv, Delivered
    <2>2. CASE reader[s].at # "none"
      BY <2>1, <2>2 DEF Attended, Backend
    <2>3. CASE connect[s] = "asked"
      <3>1. CASE s = 1
        BY <2>3, <3>1, Sessions DEF IInv, Tabs, Excused, Attended, Backend
      <3>2. CASE s > 1 /\ panel.mounted
        BY <2>3, <3>2 DEF IInv, Panels, Mounted, Attended, Backend
      <3>3. CASE s > 1 /\ ~panel.mounted
        BY <2>3, <3>3 DEF IInv, Panels, Unmounted, Excused
      <3> QED BY <3>1, <3>2, <3>3, Sessions
    <2>4. CASE reader[s].at = "none" /\ connect[s] # "asked"
      BY <2>4 DEF Attended, Backend
    <2> QED BY <2>2, <2>3, <2>4
  <1>11. NothingLost'
    <2> SUFFICES ASSUME NEW s \in Session, Latest(s), ~Excused
                 PROVE  Printed(s)' \subseteq OnItsWay(s)' \cup Arrived'
      BY <1>8, <1>9 DEF NothingLost
    <2>1. Printed(s) \subseteq OnItsWay(s) \cup Arrived
      BY DEF IInv, NothingLost
    <2>2. OnItsWay(s) \cup Reached(s)' \subseteq OnItsWay(s)' /\ Arrived' = Arrived
      BY <1>2, Held DEF Backend, Arrived, screen
    <2>3. Printed(s)' \subseteq Printed(s) \cup Reached(s)'
      BY DEF Backend
    <2> QED BY <2>1, <2>2, <2>3
  <1> QED BY <1>1, <1>3, <1>4, <1>5, <1>6, <1>7, <1>10, <1>11 DEF IInv

LEMMA OpensKeeps ==
    ASSUME IInv, NEW s \in Session, Opens(s)
    PROVE  IInv'
  <1>1. /\ reader \in [Session -> ReaderState] /\ Streams(reader, events, Came)
        /\ Stream(reader, events, Came)
    BY Streaming DEF IInv, TypeOK
  <1>2. /\ reader' \in [Session -> ReaderState]
        /\ reader'[s].at = "running" /\ reader'[s].sent = reader[s].sent
        /\ reader'[s].batch = reader[s].batch
        /\ \A r \in Session : r # s => reader'[r] = reader[r]
    BY <1>1 DEF Opens, ReaderState
  <1>3. /\ connect[s] = "asked" /\ connect'[s] = "opened"
        /\ \A r \in Session : r # s => connect'[r] = connect[r]
        /\ connect' \in [Session -> {"none", "asked", "opened", "refused", "done"}]
    BY DEF Opens, IInv, TypeOK
  <1>4. /\ \A r \in Session : /\ reader'[r].batch = reader[r].batch
                              /\ reader'[r].sent = reader[r].sent
                              /\ reader'[r].at # "running" => reader[r].at # "running"
                              /\ reader'[r].at = "none" => reader[r].at = "none"
    BY <1>2
  <1>5. UNCHANGED <<events, capture, tab, panel, queue, screen, odd>>
    BY DEF Opens
  <1>6. Stream(reader', events', Came)
    <2>1. \A r \in Session : Batch(reader', r) = Batch(reader, r)
      BY <1>4 DEF Batch
    <2>2. FromReader(reader')
      BY <1>1, <1>4, <2>1 DEF Stream, FromReader, Of
    <2>3. InFlight(reader', events)
      <3>1. \A i \in DOMAIN events : events[i].session \in Session
        BY <1>1, StreamTypes
      <3> QED BY <1>1, <1>4, <2>1, <3>1 DEF Stream, InFlight, Of
    <2>4. AtWindow(reader', events, Came)
      <3>1. \A c \in Came : c[1] \in Session
        BY <1>1, ChunkNumbers DEF Streams
      <3> QED BY <1>1, <1>4, <2>1, <3>1 DEF Stream, AtWindow
    <2> QED BY <1>5, <2>2, <2>3, <2>4 DEF Stream
  <1>7. \A r \in Session : Len(reader'[r].batch) < BatchBytes
    BY <1>4 DEF IInv, TypeOK
  <1>8. \A r \in Session : Reached(r)' = Reached(r) /\ Printed(r)' = Printed(r)
    BY <1>4, <1>5 DEF Reached, Printed
  <1>9. \A r \in Session :
         /\ connect'[r] = "none" <=> connect[r] = "none"
         /\ connect'[r] = "done" <=> connect[r] = "done"
         /\ connect'[r] \in {"none", "asked", "refused"} => reader'[r].at = "none"
         /\ connect'[r] = "opened" => reader'[r].at # "none"
         /\ reader[r].at = "none" => reader'[r].at = "none" \/ connect[r] = "asked"
    BY <1>2, <1>3 DEF IInv, Requests
  <1>10. events' \in Seq(Event)
    BY <1>5 DEF IInv, TypeOK
  <1>11. Backend
    BY <1>2, <1>3, <1>5, <1>6, <1>7, <1>8, <1>9, <1>10 DEF Backend
  <1> QED BY <1>11, BackendKeeps

LEMMA RefusesKeeps ==
    ASSUME IInv, NEW s \in Session, Refuses(s)
    PROVE  IInv'
  <1>1. /\ reader \in [Session -> ReaderState] /\ Stream(reader, events, Came)
        /\ events \in Seq(Event) /\ \A r \in Session : Len(reader[r].batch) < BatchBytes
    BY DEF IInv, TypeOK
  <1>2. /\ connect[s] = "asked" /\ connect'[s] = "refused"
        /\ \A r \in Session : r # s => connect'[r] = connect[r]
        /\ connect' \in [Session -> {"none", "asked", "opened", "refused", "done"}]
    BY DEF Refuses, IInv, TypeOK
  <1>3. UNCHANGED <<reader, events, capture, tab, panel, queue, screen, odd>>
    BY DEF Refuses
  <1>4. \A r \in Session : Reached(r)' = Reached(r) /\ Printed(r)' = Printed(r)
    BY <1>3 DEF Reached, Printed
  <1>5. \A r \in Session :
         /\ connect'[r] = "none" <=> connect[r] = "none"
         /\ connect'[r] = "done" <=> connect[r] = "done"
         /\ connect'[r] \in {"none", "asked", "refused"} => reader'[r].at = "none"
         /\ connect'[r] = "opened" => reader'[r].at # "none"
         /\ reader[r].at = "none" => reader'[r].at = "none" \/ connect[r] = "asked"
    BY <1>2, <1>3 DEF IInv, Requests
  <1>6. Backend
    BY <1>1, <1>2, <1>3, <1>4, <1>5 DEF Backend
  <1> QED BY <1>6, BackendKeeps

(* A running reader goes on or ends: what is left to show of it. *)
LEMMA ReaderKeeps ==
    ASSUME IInv, NEW s \in Session, reader[s].at = "running",
           UNCHANGED <<connect, capture, tab, panel, queue, screen, odd>>,
           reader' \in [Session -> ReaderState], events' \in Seq(Event),
           Stream(reader', events', Came),
           reader'[s].at # "none", Len(reader'[s].batch) < BatchBytes,
           \A r \in Session : r # s => reader'[r] = reader[r],
           Flying(events) \subseteq Flying(events'), Reached(s) \subseteq Reached(s)',
           Printed(s)' \subseteq Printed(s) \cup Reached(s)'
    PROVE  IInv'
  <1>1. \A r \in Session : Reached(r) \subseteq Reached(r)'
    <2>1. ASSUME NEW r \in Session, r # s
          PROVE  Reached(r) \subseteq Reached(r)'
      BY <2>1 DEF Reached
    <2> QED BY <2>1
  <1>2. \A r \in Session : Printed(r)' \subseteq Printed(r) \cup Reached(r)'
    <2>1. ASSUME NEW r \in Session, r # s
          PROVE  Printed(r)' = Printed(r)
      BY <2>1 DEF Printed
    <2> QED BY <2>1
  <1>3. \A r \in Session :
         /\ connect'[r] \in {"none", "asked", "refused"} => reader'[r].at = "none"
         /\ connect'[r] = "opened" => reader'[r].at # "none"
         /\ reader[r].at = "none" => reader'[r].at = "none"
    <2>1. connect[s] \notin {"none", "asked", "refused"}
      BY DEF IInv, Requests
    <2>2. \A r \in Session : r # s => reader'[r].at = reader[r].at
      OBVIOUS
    <2> QED BY <2>1, <2>2 DEF IInv, Requests
  <1>4. \A r \in Session : Len(reader'[r].batch) < BatchBytes
    BY DEF IInv, TypeOK
  <1>5. connect' \in [Session -> {"none", "asked", "opened", "refused", "done"}]
    BY DEF IInv, TypeOK
  <1>6. Backend
    BY <1>1, <1>2, <1>3, <1>4, <1>5 DEF Backend
  <1> QED BY <1>6, BackendKeeps

LEMMA DeadlineKeeps ==
    ASSUME IInv, NEW s \in Session, Deadline(s)
    PROVE  IInv'
  <1>1. /\ reader \in [Session -> ReaderState] /\ Streams(reader, events, Came)
        /\ Stream(reader, events, Came)
    BY Streaming DEF IInv, TypeOK
  <1>2. /\ reader[s].batch \in Seq(Chunk) /\ reader[s] \in ReaderState
        /\ events \in Seq(Event)
    BY <1>1, StreamTypes DEF Streams
  <1>3. /\ reader' \in [Session -> ReaderState]
        /\ reader'[s].at = reader[s].at /\ reader'[s].sent = reader[s].sent
        /\ reader'[s].batch = <<>>
        /\ \A r \in Session : r # s => reader'[r] = reader[r]
    BY <1>1, Empty DEF Deadline, ReaderState
  <1>4. events' = Append(events, OutputEvent(s, reader[s].batch))
    BY DEF Deadline, Emit
  <1>5. Stream(reader', events', Came) /\ events' \in Seq(Event)
    BY <1>1, <1>3, <1>4, Emits
  <1>6. Flying(events') = Flying(events) \cup ToSet(reader[s].batch)
    <2>1. OutputEvent(s, reader[s].batch) \in Event
          /\ OutputEvent(s, reader[s].batch).data = reader[s].batch
      BY <1>2 DEF OutputEvent, Event
    <2> QED BY <1>2, <1>4, <2>1, FlyingAppend
  <1>7. Reached(s) \subseteq Reached(s)' /\ Printed(s)' = Printed(s)
    BY <1>3, <1>6 DEF Reached, Printed
  <1>8. Len(reader'[s].batch) < BatchBytes
    BY <1>3, Sessions
  <1>9. /\ reader[s].at = "running"
        /\ UNCHANGED <<connect, capture, tab, panel, queue, screen, odd>>
    BY DEF Deadline
  <1> QED BY <1>3, <1>5, <1>6, <1>7, <1>8, <1>9, ReaderKeeps

(* What Receive and the end of a reader have in common: a chunk is printed. *)
LEMMA NextPrinted ==
    ASSUME IInv, CanPrint, NEW s \in Session, reader[s].at = "running"
    PROVE  LET rd == [reader EXCEPT ![s].sent = @ + 1,
                                    ![s].batch = Append(reader[s].batch, NextChunk(s))] IN
           /\ Stream(rd, events, Came) /\ Streams(rd, events, Came)
           /\ rd[s].at = "running" /\ rd[s].sent = reader[s].sent + 1
           /\ rd[s].batch = Append(reader[s].batch, NextChunk(s))
           /\ \A r \in Session : r # s => rd[r] = reader[r]
           /\ NextChunk(s) \in Chunk /\ NextChunk(s) = <<s, rd[s].sent>>
  <1> DEFINE rd == [reader EXCEPT ![s].sent = @ + 1,
                                  ![s].batch = Append(reader[s].batch, NextChunk(s))]
  <1>1. /\ reader \in [Session -> ReaderState] /\ Streams(reader, events, Came)
        /\ Stream(reader, events, Came)
    BY Streaming DEF IInv, TypeOK
  <1>2. reader[s].sent + 1 \in 1..MaxOutput /\ reader[s].sent \in Nat
    BY <1>1, PrintLimit, StreamTypes, Sessions DEF IInv
  <1>3. NextChunk(s) \in Chunk
    BY <1>2 DEF NextChunk, Chunk
  <1>4. reader[s].batch \in Seq(Chunk) /\ reader[s] \in ReaderState
    BY <1>1, StreamTypes
  <1>5. Append(reader[s].batch, NextChunk(s)) \in Seq(Chunk)
    BY <1>3, <1>4, AppendSeq
  <1>6. /\ rd[s] = [reader[s] EXCEPT !.sent = reader[s].sent + 1,
                                     !.batch = Append(reader[s].batch, NextChunk(s))]
        /\ \A r \in Session : r # s => rd[r] = reader[r]
        /\ DOMAIN rd = Session /\ rd = [r \in Session |-> rd[r]]
    BY <1>1
  <1> HIDE DEF rd
  <1>7. /\ rd[s] \in ReaderState /\ rd[s].at = "running" /\ rd[s].sent = reader[s].sent + 1
        /\ rd[s].batch = Append(reader[s].batch, NextChunk(s))
    <2>1. reader[s].sent + 1 \in 0..MaxOutput
      BY <1>2
    <2> QED BY <1>4, <1>5, <1>6, <2>1 DEF ReaderState
  <1>8. rd \in [Session -> ReaderState]
    BY <1>1, <1>6, <1>7
  <1>9. NextChunk(s) = <<s, rd[s].sent>>
    BY <1>7 DEF NextChunk
  <1>10. Stream(rd, events, Came)
    <2>1. rd[s].batch = Append(reader[s].batch, <<s, rd[s].sent>>)
      BY <1>7, <1>9
    <2>2. rd[s].at = "running" /\ rd[s].sent = reader[s].sent + 1
      BY <1>7
    <2>3. \A r \in Session : r # s => rd[r] = reader[r]
      BY <1>6
    <2> QED BY <1>1, <1>8, <2>1, <2>2, <2>3, Prints
  <1> QED BY <1>1, <1>3, <1>6, <1>7, <1>8, <1>9, <1>10 DEF Streams, rd

LEMMA ReceiveKeeps ==
    ASSUME IInv, NEW s \in Session, Receive(s)
    PROVE  IInv'
  <1> DEFINE x == NextChunk(s)
             b == Append(reader[s].batch, x)
             rd == [reader EXCEPT ![s].sent = @ + 1, ![s].batch = b]
  <1>1. /\ reader[s].at = "running" /\ CanPrint
        /\ UNCHANGED <<connect, capture, tab, panel, queue, screen, odd>>
    BY DEF Receive
  <1>2. /\ Stream(rd, events, Came) /\ Streams(rd, events, Came)
        /\ rd[s].at = "running" /\ rd[s].sent = reader[s].sent + 1 /\ rd[s].batch = b
        /\ \A r \in Session : r # s => rd[r] = reader[r]
        /\ x \in Chunk /\ x = <<s, reader[s].sent + 1>>
    BY <1>1, NextPrinted
  <1>3. /\ reader \in [Session -> ReaderState] /\ reader[s] \in ReaderState
        /\ reader[s].batch \in Seq(Chunk) /\ reader[s].sent \in Nat
        /\ events \in Seq(Event)
        /\ Len(reader[s].batch) < BatchBytes /\ Len(reader[s].batch) \in Nat
    BY Streaming, StreamTypes DEF IInv, TypeOK
  <1>4. b \in Seq(Chunk) /\ Len(b) = Len(reader[s].batch) + 1
        /\ ToSet(b) = ToSet(reader[s].batch) \cup {x}
    BY <1>2, <1>3, AppendSeq
  <1>5. CASE Len(b) = BatchBytes
    <2>1. /\ reader' = [reader EXCEPT ![s].sent = @ + 1, ![s].batch = <<>>]
          /\ events' = Append(events, OutputEvent(s, b))
      BY <1>5 DEF Receive, Emit
    <2>2. /\ reader' \in [Session -> ReaderState]
          /\ reader'[s].at = "running" /\ reader'[s].sent = reader[s].sent + 1
          /\ reader'[s].batch = <<>>
          /\ \A r \in Session : r # s => reader'[r] = reader[r]
      <3>1. reader[s].sent + 1 \in 0..MaxOutput
        BY <1>1, PrintLimit DEF IInv
      <3> QED BY <1>1, <1>3, <2>1, <3>1, Empty DEF ReaderState
    <2> HIDE DEF rd, b, x
    <2>3. Stream(reader', events', Came) /\ events' \in Seq(Event)
      <3>1. \A r \in Session : r # s => reader'[r] = rd[r]
        BY <1>2, <2>2
      <3>2. reader'[s].at = rd[s].at /\ reader'[s].sent = rd[s].sent
            /\ events' = Append(events, OutputEvent(s, rd[s].batch))
        BY <1>2, <2>1, <2>2
      <3> QED BY <1>2, <2>2, <3>1, <3>2, Emits
    <2>4. Flying(events') = Flying(events) \cup ToSet(b)
      <3>1. OutputEvent(s, b) \in Event /\ OutputEvent(s, b).data = b
        BY <1>4 DEF OutputEvent, Event
      <3> QED BY <1>3, <2>1, <3>1, FlyingAppend
    <2>5. Reached(s) \subseteq Reached(s)' /\ x \in Reached(s)'
      BY <1>4, <2>4 DEF Reached
    <2>6. Printed(s)' \subseteq Printed(s) \cup {x}
      BY <1>2, <1>3, <2>2 DEF Printed
    <2>7. Len(reader'[s].batch) < BatchBytes
      BY <2>2, Sessions
    <2> QED BY <1>1, <2>2, <2>3, <2>4, <2>5, <2>6, <2>7, ReaderKeeps
  <1>6. CASE Len(b) # BatchBytes
    <2>1. reader' = rd /\ events' = events
      BY <1>6 DEF Receive
    <2> HIDE DEF rd, b, x
    <2>2. reader' \in [Session -> ReaderState] /\ events' \in Seq(Event)
      BY <1>2, <2>1 DEF Streams
    <2>3. Stream(reader', events', Came)
      BY <1>2, <2>1
    <2>4. Reached(s) \subseteq Reached(s)' /\ x \in Reached(s)'
      BY <1>2, <1>4, <2>1 DEF Reached
    <2>5. Printed(s)' \subseteq Printed(s) \cup {x}
      BY <1>2, <1>3, <2>1 DEF Printed
    <2>6. Len(reader'[s].batch) < BatchBytes /\ reader'[s].at # "none"
      BY <1>2, <1>3, <1>4, <1>6, <2>1, Sessions
    <2> QED BY <1>1, <1>2, <2>1, <2>2, <2>3, <2>4, <2>5, <2>6, ReaderKeeps
  <1> QED BY <1>5, <1>6

(* At the end of a reader: what is in a batch goes out, if there is any. *)
LEMMA Flushed ==
    ASSUME NEW rd, NEW ev, NEW came, Streams(rd, ev, came), Stream(rd, ev, came),
           NEW s \in Session, NEW rd2 \in [Session -> ReaderState],
           rd2[s].at = rd[s].at, rd2[s].sent = rd[s].sent, rd2[s].batch = <<>>,
           \A r \in Session : r # s => rd2[r] = rd[r]
    PROVE  LET ev2 == ev \o Nonempty(s, rd[s].batch) IN
           /\ Stream(rd2, ev2, came) /\ Streams(rd2, ev2, came)
           /\ Flying(ev2) = Flying(ev) \cup ToSet(rd[s].batch)
  <1>1. rd \in [Session -> ReaderState] /\ ev \in Seq(Event) /\ came \subseteq Chunk
        /\ rd[s].batch \in Seq(Chunk)
    BY StreamTypes DEF Streams
  <1>2. CASE rd[s].batch = <<>>
    <2>1. ev \o Nonempty(s, rd[s].batch) = ev
      BY <1>1, <1>2 DEF Nonempty
    <2>2. rd2 = rd
      <3>1. rd[s] \in ReaderState /\ rd2[s] \in ReaderState
        BY <1>1
      <3>2. rd2[s] = rd[s]
        BY <1>2, <3>1 DEF ReaderState
      <3> QED BY <1>1, <3>2
    <2> QED BY <1>2, <2>1, <2>2, Empty
  <1>3. CASE rd[s].batch # <<>>
    <2>1. OutputEvent(s, rd[s].batch) \in Event
          /\ OutputEvent(s, rd[s].batch).data = rd[s].batch
      BY <1>1 DEF OutputEvent, Event
    <2>2. ev \o Nonempty(s, rd[s].batch) = Append(ev, OutputEvent(s, rd[s].batch))
      BY <1>1, <1>3, <2>1 DEF Nonempty
    <2>3. /\ Stream(rd2, Append(ev, OutputEvent(s, rd[s].batch)), came)
          /\ Append(ev, OutputEvent(s, rd[s].batch)) \in Seq(Event)
      BY Emits
    <2> QED BY <1>1, <2>1, <2>2, <2>3, FlyingAppend DEF Streams
  <1> QED BY <1>2, <1>3

LEMMA EndsKeeps ==
    ASSUME IInv, NEW s \in Session, NEW error \in BOOLEAN, Ends(s, error)
    PROVE  IInv'
  <1> DEFINE last == IF error THEN <<NextChunk(s)>> ELSE <<>>
             done == [at |-> "ended", sent |-> reader[s].sent + Len(last), batch |-> <<>>]
             r1 == [reader EXCEPT ![s].batch = <<>>]
             ev1 == events \o Nonempty(s, reader[s].batch)
             ev2 == ev1 \o Nonempty(s, last)
             running == [reader EXCEPT ![s] = [done EXCEPT !.at = "running"]]
  <1>1. /\ reader[s].at = "running" /\ (error => CanPrint)
        /\ UNCHANGED <<connect, capture, tab, panel, queue, screen, odd>>
    BY DEF Ends
  <1>2. /\ reader \in [Session -> ReaderState] /\ reader[s] \in ReaderState
        /\ Streams(reader, events, Came) /\ Stream(reader, events, Came)
        /\ events \in Seq(Event) /\ reader[s].sent \in Nat
        /\ reader[s].batch \in Seq(Chunk)
    BY Streaming, StreamTypes DEF IInv, TypeOK
  <1>3. /\ events' = ev2 \o <<ClosedEvent(s)>>
        /\ reader' = [reader EXCEPT ![s] = done]
    BY DEF Ends
  <1>4. last \in Seq(Chunk) /\ Len(last) \in {0, 1} /\ (error => Len(last) = 1)
    <2>1. CASE error
      <3>1. reader[s].sent + 1 \in 1..MaxOutput
        BY <1>1, <1>2, <2>1, PrintLimit, Sessions DEF IInv
      <3>2. NextChunk(s) \in Chunk
        BY <3>1 DEF NextChunk, Chunk
      <3> QED BY <2>1, <3>2
    <2>2. CASE ~error
      BY <2>2, Empty
    <2> QED BY <2>1, <2>2
  <1>5. r1 \in [Session -> ReaderState]
        /\ r1[s].at = "running" /\ r1[s].sent = reader[s].sent /\ r1[s].batch = <<>>
        /\ \A r \in Session : r # s => r1[r] = reader[r]
    BY <1>1, <1>2, Empty DEF ReaderState
  <1>6. reader[s].sent + Len(last) \in 0..MaxOutput
    <2>1. CASE error
      BY <1>1, <1>4, <2>1, PrintLimit DEF IInv
    <2>2. CASE ~error
      <3>1. Len(last) = 0 /\ reader[s].sent \in 0..MaxOutput
        BY <1>2, <2>2, StreamTypes
      <3> QED BY <1>2, <3>1
    <2> QED BY <2>1, <2>2
  <1>7. /\ reader' \in [Session -> ReaderState]
        /\ reader'[s].at = "ended" /\ reader'[s].sent = reader[s].sent + Len(last)
        /\ reader'[s].batch = <<>>
        /\ \A r \in Session : r # s => reader'[r] = reader[r]
    BY <1>2, <1>3, <1>6, Empty DEF ReaderState
  <1>8. running \in [Session -> ReaderState]
        /\ running[s].at = "running" /\ running[s].sent = reader[s].sent + Len(last)
        /\ running[s].batch = <<>>
        /\ \A r \in Session : r # s => running[r] = reader[r]
    BY <1>2, <1>6, Empty DEF ReaderState
  <1> HIDE DEF r1, running, done
  <1>9. /\ Stream(r1, ev1, Came) /\ Streams(r1, ev1, Came)
        /\ Flying(ev1) = Flying(events) \cup ToSet(reader[s].batch)
    BY <1>1, <1>2, <1>5, Flushed
  <1>10. /\ Stream(running, ev2, Came) /\ Streams(running, ev2, Came)
         /\ Flying(ev2) = Flying(ev1) \cup ToSet(last)
    <2>1. CASE ~error
      <3>1. last = <<>> /\ r1[s].batch = <<>>
        BY <1>5, <2>1
      <3>2. running[s].sent = r1[s].sent
        BY <1>2, <1>5, <1>8, <3>1
      <3> HIDE DEF ev1, last
      <3>3. /\ Stream(running, ev1 \o Nonempty(s, r1[s].batch), Came)
            /\ Streams(running, ev1 \o Nonempty(s, r1[s].batch), Came)
            /\ Flying(ev1 \o Nonempty(s, r1[s].batch)) = Flying(ev1) \cup ToSet(r1[s].batch)
        BY <1>5, <1>8, <1>9, <3>2, Flushed
      <3> QED BY <3>1, <3>3
    <2>2. CASE error
      <3> DEFINE r2 == [r1 EXCEPT ![s].sent = @ + 1, ![s].batch = last]
      <3>1. last = <<NextChunk(s)>> /\ NextChunk(s) = <<s, reader[s].sent + 1>>
            /\ Len(last) = 1
        BY <2>2 DEF NextChunk
      <3> HIDE DEF ev1, last
      <3>2. /\ r2 \in [Session -> ReaderState]
            /\ r2[s].at = "running" /\ r2[s].sent = reader[s].sent + 1 /\ r2[s].batch = last
            /\ \A r \in Session : r # s => r2[r] = r1[r]
        BY <1>4, <1>5, <1>6, <3>1 DEF ReaderState
      <3> HIDE DEF r2
      <3>3. r2[s].sent = r1[s].sent + 1 /\ r2[s].batch = Append(r1[s].batch, <<s, r2[s].sent>>)
        BY <1>5, <3>1, <3>2
      <3>4. Stream(r2, ev1, Came) /\ Streams(r2, ev1, Came)
        BY <1>9, <3>2, <3>3, Prints DEF Streams
      <3>5. /\ running[s].at = r2[s].at /\ running[s].sent = r2[s].sent
            /\ \A r \in Session : r # s => running[r] = r2[r]
        BY <1>5, <1>8, <3>1, <3>2
      <3>6. /\ Stream(running, ev1 \o Nonempty(s, r2[s].batch), Came)
            /\ Streams(running, ev1 \o Nonempty(s, r2[s].batch), Came)
            /\ Flying(ev1 \o Nonempty(s, r2[s].batch)) = Flying(ev1) \cup ToSet(r2[s].batch)
        BY <1>8, <3>4, <3>5, Flushed
      <3> QED BY <3>2, <3>6
    <2> QED BY <2>1, <2>2
  <1> HIDE DEF ev2
  <1>11. /\ ClosedEvent(s) \in Event /\ ToSet(ClosedEvent(s).data) = {}
         /\ ev2 \in Seq(Event)
    BY <1>10, Empty DEF ClosedEvent, Event, Streams
  <1>12. events' = Append(ev2, ClosedEvent(s))
    BY <1>3, <1>11
  <1>13. /\ Stream(running, events', Came) /\ events' \in Seq(Event)
         /\ Flying(events') = Flying(ev2)
    <2>1. Stream(running, events', Came) /\ events' \in Seq(Event)
      BY <1>10, <1>12, Closes
    <2>2. Flying(events') = Flying(ev2) \cup ToSet(ClosedEvent(s).data)
      BY <1>11, <1>12, FlyingAppend
    <2> QED BY <1>11, <2>1, <2>2
  <1>14. Stream(reader', events', Came)
    <2>1. \A r \in Session : /\ reader'[r].sent = running[r].sent
                             /\ reader'[r].batch = running[r].batch
                             /\ Batch(reader', r) = Batch(running, r)
      BY <1>7, <1>8 DEF Batch
    <2>2. FromReader(reader')
      <3>1. \A r \in Session : r # s => reader'[r].at = running[r].at
        BY <1>7, <1>8
      <3> QED BY <1>7, <1>13, <2>1, <3>1 DEF Stream, FromReader, Of
    <2>3. InFlight(reader', events')
      <3>1. \A i \in DOMAIN events' : events'[i].session \in Session
        <4>1. \A i \in DOMAIN events' : events'[i] \in Event
          BY <1>13
        <4> QED BY <4>1 DEF Event
      <3> QED BY <1>13, <2>1, <3>1 DEF Stream, InFlight, Of
    <2>4. AtWindow(reader', events', Came)
      <3>1. \A c \in Came : c[1] \in Session
        BY <1>2, ChunkNumbers DEF Streams
      <3> QED BY <1>13, <2>1, <3>1 DEF Stream, AtWindow
    <2> QED BY <2>2, <2>3, <2>4 DEF Stream
  <1>15. /\ Flying(events) \subseteq Flying(events') /\ Reached(s) \subseteq Reached(s)'
    BY <1>9, <1>10, <1>13 DEF Reached
  <1>16. Printed(s)' \subseteq Printed(s) \cup Reached(s)'
    <2>1. CASE ~error
      <3>1. reader'[s].sent = reader[s].sent
        BY <1>2, <1>7, <2>1
      <3> QED BY <3>1 DEF Printed
    <2>2. CASE error
      <3>1. reader'[s].sent = reader[s].sent + 1 /\ ToSet(last) = {<<s, reader[s].sent + 1>>}
        BY <1>4, <1>7, <2>2, Single DEF NextChunk
      <3>2. <<s, reader[s].sent + 1>> \in Reached(s)'
        BY <1>10, <1>13, <3>1 DEF Reached
      <3>3. \A k \in 1..(reader[s].sent + 1) : k \in 1..reader[s].sent \/ k = reader[s].sent + 1
        BY <1>2
      <3> QED BY <3>1, <3>2, <3>3 DEF Printed
    <2> QED BY <2>1, <2>2
  <1>17. Len(reader'[s].batch) < BatchBytes
    BY <1>7, Sessions
  <1> QED BY <1>1, <1>7, <1>13, <1>14, <1>15, <1>16, <1>17, ReaderKeeps

-----------------------------------------------------------------------------
(* The line from the screen to the capture: text moves along it, is added at *)
(* its end, and is taken out of it.                                         *)

Stages(a, b, c, d, e, f) ==
    /\ a \in Seq(Chunk) /\ b \in Seq(Chunk) /\ c \in Seq(Chunk)
    /\ d \in Seq(Chunk) /\ e \in Seq(Chunk) /\ f \in Seq(Chunk)

LEMMA Shrinks ==
    ASSUME NEW a, NEW b, NEW c, NEW d, NEW e, NEW f, InOrder(a, b, c, d, e, f),
           NEW a2, NEW b2, NEW c2, NEW d2, NEW e2, NEW f2,
           Sorted(a2), Sorted(b2), Sorted(c2), Sorted(d2), Sorted(e2), Sorted(f2),
           ToSet(a2) \subseteq ToSet(a), ToSet(b2) \subseteq ToSet(b),
           ToSet(c2) \subseteq ToSet(c), ToSet(d2) \subseteq ToSet(d),
           ToSet(e2) \subseteq ToSet(e), ToSet(f2) \subseteq ToSet(f)
    PROVE  InOrder(a2, b2, c2, d2, e2, f2)
  BY DEF InOrder, Below

LEMMA Parses ==
    ASSUME NEW a, NEW b, NEW c, NEW d, NEW e, NEW f, Stages(a, b, c, d, e, f),
           InOrder(a, b, c, d, e, f)
    PROVE  InOrder(a \o b, <<>>, c, d, e, f)
  <1>1. ToSet(a \o b) = ToSet(a) \cup ToSet(b)
    BY CatSet DEF Stages
  <1>2. Sorted(a \o b)
    <2>1. Below(ToSet(a), ToSet(b))
      BY DEF InOrder, Below
    <2> QED BY <2>1, CatSorted DEF Stages, InOrder
  <1> QED BY <1>1, <1>2, Empty DEF InOrder, Below

LEMMA Takes ==
    ASSUME NEW a, NEW c, NEW d, NEW e, NEW f, InOrder(a, <<>>, c, d, e, f),
           NEW b2 \in Seq(Chunk), NEW c2 \in Seq(Chunk), b2 \o c2 = c
    PROVE  InOrder(a, b2, c2, d, e, f)
  <1>1. ToSet(c) = ToSet(b2) \cup ToSet(c2)
    BY CatSet
  <1>2. Sorted(b2) /\ Sorted(c2) /\ Below(ToSet(b2), ToSet(c2))
    BY CatSorted DEF InOrder
  <1> QED BY <1>1, <1>2, Empty DEF InOrder, Below

LEMMA Flushes ==
    ASSUME NEW a, NEW b, NEW c, NEW d, NEW e, NEW f, Stages(a, b, c, d, e, f),
           InOrder(a, b, c, d, e, f),
           NEW n \in Seq(Chunk), Sorted(n), ToSet(n) \subseteq ToSet(d)
    PROVE  InOrder(a, b, c \o n, <<>>, e, f)
  <1>1. ToSet(c \o n) = ToSet(c) \cup ToSet(n)
    BY CatSet DEF Stages
  <1>2. Sorted(c \o n)
    <2>1. Below(ToSet(c), ToSet(n))
      BY DEF InOrder, Below
    <2> QED BY <2>1, CatSorted DEF Stages, InOrder
  <1> QED BY <1>1, <1>2, Empty DEF InOrder, Below

LEMMA Renders ==
    ASSUME NEW a, NEW b, NEW c, NEW d, NEW e, NEW f, Stages(a, b, c, d, e, f),
           InOrder(a, b, c, d, e, f)
    PROVE  InOrder(a, b, c, d \o e, <<>>, f)
  <1>1. ToSet(d \o e) = ToSet(d) \cup ToSet(e)
    BY CatSet DEF Stages
  <1>2. Sorted(d \o e)
    <2>1. Below(ToSet(d), ToSet(e))
      BY DEF InOrder, Below
    <2> QED BY <2>1, CatSorted DEF Stages, InOrder
  <1> QED BY <1>1, <1>2, Empty DEF InOrder, Below

LEMMA HandsOver ==
    ASSUME NEW a, NEW b, NEW c, NEW d, NEW f, InOrder(a, b, c, d, <<>>, f)
    PROVE  InOrder(a, b, c, d, f, <<>>)
  BY Empty DEF InOrder, Below

LEMMA AddsToCapture ==
    ASSUME NEW a, NEW b, NEW c, NEW d, NEW e, NEW f, Stages(a, b, c, d, e, f),
           InOrder(a, b, c, d, e, f), NEW x \in Seq(Chunk), Sorted(x),
           Below(ToSet(a) \cup ToSet(b) \cup ToSet(c) \cup ToSet(d) \cup ToSet(e)
                   \cup ToSet(f), ToSet(x))
    PROVE  InOrder(a, b, c, d, e, f \o x)
  <1>1. ToSet(f \o x) = ToSet(f) \cup ToSet(x)
    BY CatSet DEF Stages
  <1>2. Sorted(f \o x)
    <2>1. Below(ToSet(f), ToSet(x))
      BY DEF InOrder, Below
    <2> QED BY <2>1, CatSorted DEF Stages, InOrder
  <1> QED BY <1>1, <1>2 DEF InOrder, Below

LEMMA AddsToTab ==
    ASSUME NEW a, NEW b, NEW c, NEW d, NEW e, Stages(a, b, c, d, e, <<>>),
           InOrder(a, b, c, d, e, <<>>), NEW x \in Seq(Chunk), Sorted(x),
           Below(ToSet(a) \cup ToSet(b) \cup ToSet(c) \cup ToSet(d) \cup ToSet(e), ToSet(x))
    PROVE  InOrder(a, b, c, d, e \o x, <<>>)
  <1>1. ToSet(e \o x) = ToSet(e) \cup ToSet(x)
    BY CatSet DEF Stages
  <1>2. Sorted(e \o x)
    <2>1. Below(ToSet(e), ToSet(x))
      BY DEF InOrder, Below
    <2> QED BY <2>1, CatSorted DEF Stages, InOrder
  <1> QED BY <1>1, <1>2, Empty DEF InOrder, Below

LEMMA AddsToQueue ==
    ASSUME NEW a, NEW b, NEW c, Stages(a, b, c, <<>>, <<>>, <<>>),
           InOrder(a, b, c, <<>>, <<>>, <<>>), NEW x \in Seq(Chunk), Sorted(x),
           Below(ToSet(a) \cup ToSet(b) \cup ToSet(c), ToSet(x))
    PROVE  InOrder(a, b, c \o x, <<>>, <<>>, <<>>)
  <1>1. ToSet(c \o x) = ToSet(c) \cup ToSet(x)
    BY CatSet DEF Stages
  <1>2. Sorted(c \o x)
    <2>1. Below(ToSet(c), ToSet(x))
      BY DEF InOrder, Below
    <2> QED BY <2>1, CatSorted DEF Stages, InOrder
  <1> QED BY <1>1, <1>2, Empty DEF InOrder, Below

LEMMA Line6 ==
    ASSUME TypeOK
    PROVE  /\ Stages(shown, queue.writing, queue.chunks, panel.startup, Unwritten, capture.data)
           /\ Sorted(shown) => \A i \in 1..(Len(shown) - 1) : Before(shown[i], shown[i + 1])
  <1>1. Stages(shown, queue.writing, queue.chunks, panel.startup, Unwritten, capture.data)
    BY Types DEF Stages
  <1>2. \A i \in 1..(Len(shown) - 1) : i \in DOMAIN shown /\ i + 1 \in DOMAIN shown /\ i < i + 1
    BY Types
  <1> QED BY <1>1, <1>2 DEF Sorted

-----------------------------------------------------------------------------
(* The steps of the window.                                                *)

Stock ==
    ToSet(capture.data) \cup ToSet(Unwritten) \cup ToSet(panel.startup)
        \cup ToSet(queue.chunks) \cup ToSet(queue.writing) \cup Arrived

SameRequests == \A s \in Session : connect'[s] = "none" <=> connect[s] = "none"

LEMMA SameLatest ==
    ASSUME SameRequests
    PROVE  \A s \in Session : Latest(s)' <=> Latest(s)
  BY DEF SameRequests, Latest

(* Text that stays in the window, or goes because nobody waits for it. *)
LEMMA Stays ==
    ASSUME IInv, UNCHANGED <<reader, events>>, SameRequests, Came' \subseteq Came,
           Excused => Excused',
           \A s \in Session : Latest(s) /\ ~Excused' => Printed(s) \cap Stock \subseteq Stock'
    PROVE  Stream(reader', events', Came') /\ NothingLost'
  <1>1. Stream(reader', events', Came')
    BY Fewer DEF IInv
  <1>2. NothingLost'
    <2> SUFFICES ASSUME NEW s \in Session, Latest(s)', ~Excused'
                 PROVE  Printed(s)' \subseteq OnItsWay(s)' \cup Arrived'
      BY DEF NothingLost
    <2>1. Latest(s) /\ ~Excused
      BY SameLatest
    <2>2. Printed(s)' = Printed(s) /\ Reached(s)' = Reached(s)
      BY DEF Printed, Reached
    <2>3. Printed(s) \subseteq Reached(s) \cup Stock
      <3>1. Printed(s) \subseteq OnItsWay(s) \cup Arrived
        BY <2>1 DEF IInv, NothingLost
      <3>2. OnItsWay(s) \cup Arrived = Reached(s) \cup Stock
        BY Held DEF Stock
      <3> QED BY <3>1, <3>2
    <2>4. OnItsWay(s)' \cup Arrived' = Reached(s)' \cup Stock'
      BY Held DEF Stock
    <2>5. Printed(s) \cap Stock \subseteq Stock'
      BY <2>1
    <2> QED BY <2>2, <2>3, <2>4, <2>5
  <1> QED BY <1>1, <1>2

LEMMA HandoffKeeps ==
    ASSUME IInv, Handoff
    PROVE  IInv'
  <1>1. /\ connect[1] = "opened" /\ connect'[1] = "done"
        /\ \A r \in Session : r # 1 => connect'[r] = connect[r]
        /\ connect' \in [Session -> {"none", "asked", "opened", "refused", "done"}]
        /\ UNCHANGED <<reader, events, panel, queue, screen, odd>>
    BY Sessions DEF Handoff, IInv, TypeOK
  <1>2. Tabs /\ Requests /\ Panels /\ Taking /\ InLine /\ Delivered /\ TypeOK
    BY DEF IInv
  <1>3. SameRequests
    BY <1>1 DEF SameRequests
  <1>4. Requests'
    BY <1>1, <1>2, Sessions DEF Requests
  <1>5. tab.session = None /\ tab.warmup = <<>> /\ ~panel.mounted /\ panel = NoPanel
        /\ (tab.open => capture.on)
    BY <1>1, <1>2 DEF Tabs, Panels, Unmounted
  <1>6. panel.written = 0 /\ panel.startup = <<>>
    BY <1>5 DEF NoPanel
  <1>7. Unwritten = <<>> /\ capture.data \in Seq(Chunk)
    BY <1>2, <1>5, <1>6, Types, Empty, RestOf DEF Unwritten
  <1>8. \A s \in Session : s > 1 => connect'[s] = connect[s]
    BY <1>1, Sessions
  <1>9. CASE tab.open
    <2>1. /\ tab' = [tab EXCEPT !.session = 1, !.warmup = capture.data]
          /\ capture' = [capture EXCEPT !.data = <<>>, !.grace = TRUE]
      BY <1>9 DEF Handoff
    <2>2. /\ tab' \in TabState /\ tab'.open /\ tab'.session = 1 /\ tab'.warmup = capture.data
          /\ capture' \in CaptureState /\ capture'.on /\ capture'.data = <<>>
      <3>1. tab \in TabState /\ capture \in CaptureState
        BY <1>2 DEF TypeOK
      <3> QED BY <1>5, <1>7, <1>9, <2>1, <3>1, Sessions, Empty DEF TabState, CaptureState
    <2>3. TypeOK'
      BY <1>1, <1>2, <2>2 DEF TypeOK, screen
    <2>4. Unwritten' = capture.data
      BY <1>1, <1>6, <1>7, <2>2, RestOf DEF Unwritten
    <2>5. /\ Handed' = Handed /\ Came' = Came
      BY <1>1, <1>5, <1>6, <2>2, Empty DEF Handed, Came, InQueue, screen
    <2>6. Stream(reader', events', Came') /\ NothingLost'
      <3>1. Excused => Excused'
        BY <1>1, <1>9, <2>2 DEF Excused
      <3>2. Stock \subseteq Stock'
        BY <1>1, <1>7, <2>2, <2>4, Empty DEF Stock, Arrived, screen
      <3> QED BY <1>1, <1>3, <2>5, <3>1, <3>2, Stays
    <2>7. Tabs'
      BY <1>1, <1>2, <2>2, <2>5, Sessions DEF Tabs
    <2>8. Panels'
      BY <1>1, <1>2, <1>5, <1>8, <1>9, <2>2 DEF Panels, Unmounted, screen
    <2>9. Taking'
      <3>1. 0 <= Len(tab'.warmup)
        BY <1>7, <2>2
      <3>2. \A s \in Session : s > 1 => connect'[s] = "none"
        BY <1>2, <1>5, <1>8, <1>9 DEF Panels, Unmounted
      <3> QED BY <1>1, <1>6, <3>1, <3>2 DEF Taking
    <2>10. InLine'
      <3>1. Orderly => InOrder(shown, queue.writing, queue.chunks, panel.startup,
                               Unwritten, capture.data)
        BY <1>2 DEF InLine, Line
      <3>2. Orderly => InOrder(shown, queue.writing, queue.chunks, panel.startup,
                               capture.data, <<>>)
        BY <1>7, <3>1, HandsOver
      <3> QED BY <1>1, <1>5, <2>2, <2>4, <3>2 DEF InLine, Line, Orderly, screen
    <2>11. Delivered'
      BY <1>1, <1>2, <1>3, <1>5, <1>9, <2>2, SameLatest DEF Delivered, Attended, Excused
    <2> QED BY <1>4, <2>3, <2>6, <2>7, <2>8, <2>9, <2>10, <2>11 DEF IInv
  <1>10. CASE ~tab.open
    <2>1. capture' = Stopped(capture) /\ tab' = tab
      BY <1>10 DEF Handoff
    <2>2. capture' = capture
      <3>1. capture \in CaptureState /\ ~capture.on
        BY <1>2, <1>10 DEF TypeOK, Tabs
      <3> QED BY <2>1, <3>1 DEF CaptureState, Stopped
    <2>3. TypeOK'
      BY <1>1, <1>2, <2>1, <2>2 DEF TypeOK, screen
    <2>4. Came' = Came /\ Handed' = Handed /\ Unwritten' = Unwritten /\ Line' = Line
          /\ Stock' = Stock
      BY <1>1, <2>1, <2>2 DEF Came, Handed, InQueue, Unwritten, Line, Stock, Arrived, screen
    <2>5. Excused'
      BY <1>10, <2>1 DEF Excused
    <2>6. Stream(reader', events', Came') /\ NothingLost'
      BY <1>1, <1>3, <2>4, <2>5, Stays
    <2>7. Tabs'
      BY <1>1, <1>2, <2>1, <2>2, <2>4 DEF Tabs
    <2>8. Panels'
      BY <1>1, <1>2, <1>5, <1>10, <2>1 DEF Panels, Unmounted
    <2>9. Taking' /\ InLine'
      BY <1>1, <1>2, <1>5, <1>10, <2>1, <2>2, <2>4 DEF Taking, InLine, Orderly
    <2>10. Delivered'
      BY <2>5 DEF Delivered
    <2> QED BY <1>4, <2>3, <2>6, <2>7, <2>8, <2>9, <2>10 DEF IInv
  <1> QED BY <1>9, <1>10

LEMMA OpenFailsKeeps ==
    ASSUME IInv, OpenFails
    PROVE  IInv'
  <1>1. /\ connect[1] = "refused" /\ connect'[1] = "done"
        /\ \A r \in Session : r # 1 => connect'[r] = connect[r]
        /\ connect' \in [Session -> {"none", "asked", "opened", "refused", "done"}]
        /\ UNCHANGED <<reader, events, tab, panel, queue, screen, odd>>
        /\ capture' = Stopped(capture)
    BY Sessions DEF OpenFails, IInv, TypeOK
  <1>2. Tabs /\ Requests /\ Panels /\ Taking /\ InLine /\ Delivered /\ TypeOK
    BY DEF IInv
  <1>3. SameRequests
    BY <1>1 DEF SameRequests
  <1>4. Requests'
    BY <1>1, <1>2, Sessions DEF Requests
  <1>5. tab.session = None /\ ~panel.mounted /\ reader[1].at = "none"
    BY <1>1, <1>2, Sessions DEF Tabs, Requests
  <1>6. capture' \in CaptureState /\ ~capture'.on /\ capture'.data = capture.data
    <2>1. capture \in CaptureState
      BY <1>2 DEF TypeOK
    <2> QED BY <1>1, <2>1 DEF CaptureState, Stopped
  <1>7. TypeOK'
    BY <1>1, <1>2, <1>6 DEF TypeOK, screen
  <1>8. Came' = Came /\ Handed' = Handed /\ Unwritten' = Unwritten /\ Line' = Line
        /\ Stock' = Stock
    BY <1>1, <1>6 DEF Came, Handed, InQueue, Unwritten, Line, Stock, Arrived, screen
  <1>9. Excused' <=> Excused
    BY <1>1 DEF Excused
  <1>10. Stream(reader', events', Came') /\ NothingLost'
    BY <1>1, <1>3, <1>8, <1>9, Stays
  <1>11. Tabs'
    BY <1>1, <1>2, <1>6, <1>8 DEF Tabs
  <1>12. Panels'
    BY <1>1, <1>2, <1>5, Sessions DEF Panels, Unmounted, screen
  <1>13. Taking' /\ InLine'
    BY <1>1, <1>2, <1>5, <1>6, <1>8, Sessions DEF Taking, InLine, Orderly, Panels, Unmounted
  <1>14. Delivered'
    <2> SUFFICES ASSUME NEW s \in Session, Latest(s), ~Excused
                 PROVE  Attended(s)'
      BY <1>3, <1>9, SameLatest DEF Delivered
    <2>1. Attended(s)
      BY <1>2 DEF Delivered
    <2> QED BY <1>1, <1>5, <2>1 DEF Attended
  <1> QED BY <1>4, <1>7, <1>10, <1>11, <1>12, <1>13, <1>14 DEF IInv

LEMMA GraceEndsKeeps ==
    ASSUME IInv, GraceEnds
    PROVE  IInv'
  <1>1. /\ UNCHANGED <<reader, events, connect, tab, panel, queue, screen>>
        /\ capture.grace /\ capture' = [Stopped(capture) EXCEPT !.grace = FALSE]
        /\ odd' = odd \cup IF capture.on /\ tab.open THEN {"cut"} ELSE {}
    BY DEF GraceEnds
  <1>2. Tabs /\ Requests /\ Panels /\ Taking /\ InLine /\ Delivered /\ TypeOK
    BY DEF IInv
  <1>3. SameRequests
    BY <1>1 DEF SameRequests
  <1>4. Requests'
    BY <1>1, <1>2 DEF Requests
  <1>5. /\ capture' \in CaptureState /\ ~capture'.on /\ ~capture'.grace
        /\ capture'.data = capture.data
    <2>1. capture \in CaptureState
      BY <1>2 DEF TypeOK
    <2> QED BY <1>1, <2>1 DEF CaptureState, Stopped
  <1>6. TypeOK'
    BY <1>1, <1>2, <1>5 DEF TypeOK, screen
  <1>7. Came' = Came /\ Handed' = Handed /\ Unwritten' = Unwritten /\ Line' = Line
        /\ Stock' = Stock
    BY <1>1, <1>5 DEF Came, Handed, InQueue, Unwritten, Line, Stock, Arrived, screen
  <1>8. /\ Excused => Excused'
        /\ Orderly' => Orderly
        /\ "hasty" \notin odd' => "hasty" \notin odd
    BY <1>1 DEF Excused, Orderly
  <1>9. Stream(reader', events', Came') /\ NothingLost'
    BY <1>1, <1>3, <1>7, <1>8, Stays
  <1>10. Tabs'
    BY <1>1, <1>2, <1>5, <1>7 DEF Tabs
  <1>11. Panels'
    <2>1. Mounted' <=> Mounted
      BY <1>1, <1>7 DEF Mounted, Reconnecting
    <2> QED BY <1>1, <1>2, <2>1 DEF Panels, Unmounted, screen
  <1>12. Taking' /\ InLine'
    BY <1>1, <1>2, <1>5, <1>7, <1>8 DEF Taking, InLine
  <1>13. Delivered'
    <2> SUFFICES ASSUME NEW s \in Session, Latest(s), ~Excused'
                 PROVE  Attended(s)'
      BY <1>3, SameLatest DEF Delivered
    <2>1. Attended(s)
      BY <1>2, <1>8 DEF Delivered
    <2>2. ~capture.on
      BY <1>1 DEF Excused
    <2> QED BY <1>1, <2>1, <2>2 DEF Attended
  <1> QED BY <1>4, <1>6, <1>9, <1>10, <1>11, <1>12, <1>13 DEF IInv

LEMMA MountKeeps ==
    ASSUME IInv, Mount
    PROVE  IInv'
  <1>1. /\ UNCHANGED <<reader, events, connect, capture, tab, queue, screen, odd>>
        /\ tab.open /\ tab.session # None /\ ~panel.mounted
    BY DEF Mount
  <1>2. Tabs /\ Requests /\ Panels /\ Taking /\ InLine /\ Delivered /\ TypeOK
    BY DEF IInv
  <1>3. /\ panel = NoPanel /\ \A s \in Session : s > 1 => connect[s] = "none"
        /\ shown = <<>> /\ queue.chunks = <<>> /\ queue.writing = <<>>
        /\ tab.session = 1 /\ connect[1] = "done"
    BY <1>1, <1>2 DEF Panels, Unmounted, Tabs
  <1>4. panel.written = 0 /\ panel.startup = <<>> /\ Unwritten = tab.warmup
        /\ tab.warmup \in Seq(Chunk)
    BY <1>2, <1>3, Types, RestOf DEF Unwritten, NoPanel
  <1>5. /\ panel' \in PanelState /\ panel'.mounted /\ panel'.buffering /\ ~panel'.ready
        /\ panel'.startup = tab.warmup /\ panel'.written = Len(tab.warmup)
        /\ panel'.session = 1 /\ panel'.request = 1 /\ ~panel'.reconnecting
        /\ panel'.hears = {}
    <2>1. panel' = [mounted |-> TRUE, hears |-> {}, ready |-> FALSE, buffering |-> TRUE,
                    timer |-> TRUE, startup |-> tab.warmup, written |-> Len(tab.warmup),
                    session |-> 1, request |-> 1, reconnecting |-> FALSE, was |-> None,
                    wasRequest |-> None]
      BY <1>3 DEF Mount, NoPanel
    <2>2. Len(tab.warmup) \in Nat
      BY <1>4
    <2> QED BY <1>4, <2>1, <2>2, Sessions DEF PanelState
  <1>6. TypeOK'
    BY <1>1, <1>2, <1>5 DEF TypeOK, screen
  <1>7. Unwritten' = <<>>
    <2>1. Len(tab.warmup) \in Nat /\ Len(tab.warmup) >= Len(tab.warmup)
      BY <1>4
    <2> QED BY <1>1, <1>4, <1>5, <2>1, RestOf DEF Unwritten
  <1>8. Came' = Came /\ Handed' = Handed /\ Stock' = Stock
    BY <1>1, <1>4, <1>5, <1>7, Empty DEF Came, Handed, InQueue, Stock, Arrived, screen
  <1>9. SameRequests /\ Requests' /\ (Excused' <=> Excused)
    BY <1>1, <1>2 DEF SameRequests, Requests, Excused
  <1>10. Stream(reader', events', Came') /\ NothingLost'
    BY <1>1, <1>8, <1>9, Stays
  <1>11. Tabs'
    BY <1>1, <1>2, <1>8 DEF Tabs
  <1>12. Panels'
    <2>1. \A c \in Came : c[1] <= 1
      BY <1>2, <1>3, Empty DEF Came, InQueue, Tabs
    <2>2. \A r \in Session : r > 1 => connect[r] = "none" /\ reader[r].at = "none"
      BY <1>2, <1>3 DEF Requests
    <2>3. Mounted'
      BY <1>1, <1>3, <1>5, <1>8, <2>1, <2>2, Sessions DEF Mounted
    <2> QED BY <1>5, <2>3 DEF Panels
  <1>13. Taking'
    <2>1. Len(tab.warmup) <= Len(tab.warmup)
      BY <1>4
    <2> QED BY <1>1, <1>3, <1>5, <2>1 DEF Taking
  <1>14. InLine'
    <2>1. Orderly => InOrder(shown, queue.writing, queue.chunks, <<>>, tab.warmup, capture.data)
      BY <1>2, <1>4 DEF InLine, Line
    <2>2. Orderly => InOrder(shown, queue.writing, queue.chunks, tab.warmup, <<>>, capture.data)
      BY <2>1, Empty DEF InOrder, Below
    <2> QED BY <1>1, <1>5, <1>7, <2>2 DEF InLine, Line, Orderly, screen
  <1>15. Delivered'
    BY <1>1, <1>2, <1>9, SameLatest DEF Delivered, Attended
  <1> QED BY <1>6, <1>9, <1>10, <1>11, <1>12, <1>13, <1>14, <1>15 DEF IInv

LEMMA ListenerOnKeeps ==
    ASSUME IInv, NEW l \in Listener, ListenerOn(l)
    PROVE  IInv'
  <1>1. /\ UNCHANGED <<reader, events, connect, capture, tab, queue, screen, odd>>
        /\ panel.mounted /\ l \notin panel.hears
        /\ panel' = [panel EXCEPT !.hears = @ \cup {l}]
    BY DEF ListenerOn
  <1>2. Tabs /\ Requests /\ Mounted /\ Taking /\ InLine /\ Delivered /\ TypeOK
    BY <1>1 DEF IInv, Panels
  <1>3. /\ panel' \in PanelState /\ panel'.mounted = panel.mounted
        /\ panel'.ready = panel.ready /\ panel'.buffering = panel.buffering
        /\ panel'.startup = panel.startup /\ panel'.written = panel.written
        /\ panel'.session = panel.session /\ panel'.request = panel.request
        /\ panel'.reconnecting = panel.reconnecting /\ panel'.was = panel.was
        /\ panel'.wasRequest = panel.wasRequest
    <2>1. panel \in PanelState
      BY <1>2 DEF TypeOK
    <2> QED BY <1>1, <2>1 DEF PanelState
  <1>4. ~panel.ready /\ panel.hears # Listener
    BY <1>1, <1>2 DEF Mounted
  <1>5. TypeOK'
    BY <1>1, <1>2, <1>3 DEF TypeOK, screen
  <1>6. Came' = Came /\ Handed' = Handed /\ Unwritten' = Unwritten /\ Line' = Line
        /\ Stock' = Stock
    BY <1>1, <1>3 DEF Came, Handed, InQueue, Unwritten, Line, Stock, Arrived, screen
  <1>7. SameRequests /\ Requests' /\ (Excused' <=> Excused)
    BY <1>1, <1>2 DEF SameRequests, Requests, Excused
  <1>8. Stream(reader', events', Came') /\ NothingLost'
    BY <1>1, <1>6, <1>7, Stays
  <1>9. Tabs'
    BY <1>1, <1>2, <1>3, <1>6 DEF Tabs
  <1>10. Panels'
    BY <1>1, <1>2, <1>3, <1>4, <1>6 DEF Panels, Mounted, Reconnecting
  <1>11. Taking' /\ InLine'
    BY <1>1, <1>2, <1>3, <1>6 DEF Taking, InLine, Orderly
  <1>12. Delivered'
    BY <1>1, <1>2, <1>4, <1>7, SameLatest DEF Delivered, Attended
  <1> QED BY <1>5, <1>7, <1>8, <1>9, <1>10, <1>11, <1>12 DEF IInv

(* The panel of the latest session, once the first one is not. *)
LEMMA OnlyLatest ==
    ASSUME IInv, panel.mounted, Latest(1)
    PROVE  panel.request = 1
  <1>1. panel.request \in Session /\ connect[panel.request] # "none"
    BY DEF IInv, Panels, Mounted
  <1>2. panel.request \in Nat /\ panel.request >= 1
    BY <1>1, Sessions
  <1>3. ~(panel.request > 1)
    BY <1>1 DEF Latest
  <1> QED BY <1>2, <1>3

LEMMA ReadyKeeps ==
    ASSUME IInv, Ready
    PROVE  IInv'
  <1>1. /\ UNCHANGED <<reader, events, connect, tab, queue, screen>>
        /\ panel.hears = Listener /\ ~panel.ready
        /\ panel' = [panel EXCEPT !.ready = TRUE]
        /\ panel.buffering => capture' = capture /\ odd' = odd
        /\ ~panel.buffering => capture' = Stopped(capture) /\ odd' = odd \cup Behind
    BY DEF Ready
  <1>2. panel.mounted
    <2>1. NoPanel.hears = {}
      BY DEF NoPanel
    <2> QED BY <1>1, <2>1 DEF IInv, Panels, Unmounted, Listener
  <1>3. Tabs /\ Requests /\ Mounted /\ Taking /\ InLine /\ Delivered /\ TypeOK
    BY <1>2 DEF IInv, Panels
  <1>4. /\ panel' \in PanelState /\ panel'.mounted = panel.mounted
        /\ panel'.hears = panel.hears /\ panel'.ready /\ panel'.buffering = panel.buffering
        /\ panel'.startup = panel.startup /\ panel'.written = panel.written
        /\ panel'.session = panel.session /\ panel'.request = panel.request
        /\ panel'.reconnecting = panel.reconnecting /\ panel'.was = panel.was
        /\ panel'.wasRequest = panel.wasRequest
    <2>1. panel \in PanelState
      BY <1>3 DEF TypeOK
    <2> QED BY <1>1, <2>1 DEF PanelState
  <1>5. /\ capture' \in CaptureState /\ capture'.data = capture.data
        /\ capture'.grace = capture.grace
        /\ capture'.on => capture.on /\ panel.buffering
        /\ panel.buffering => capture'.on = capture.on
    <2>1. capture \in CaptureState
      BY <1>3 DEF TypeOK
    <2>2. CASE panel.buffering
      BY <1>1, <2>1, <2>2
    <2>3. CASE ~panel.buffering
      BY <1>1, <2>1, <2>3 DEF CaptureState, Stopped
    <2> QED BY <2>2, <2>3
  <1>6. odd' \in {odd, odd \cup {"behind"}}
    BY <1>1 DEF Behind
  <1>7. TypeOK'
    BY <1>1, <1>3, <1>4, <1>5, <1>6 DEF TypeOK, screen
  <1>8. Came' = Came /\ Handed' = Handed /\ Unwritten' = Unwritten /\ Line' = Line
        /\ Stock' = Stock
    BY <1>1, <1>4, <1>5 DEF Came, Handed, InQueue, Unwritten, Line, Stock, Arrived, screen
  <1>9. /\ SameRequests /\ Requests' /\ (Excused' <=> Excused)
        /\ Orderly' => Orderly
        /\ "hasty" \in odd' <=> "hasty" \in odd
    BY <1>1, <1>3, <1>6 DEF SameRequests, Requests, Excused, Orderly
  <1>10. Stream(reader', events', Came') /\ NothingLost'
    BY <1>1, <1>8, <1>9, Stays
  <1>11. Tabs'
    <2>1. tab.session # None /\ connect[1] = "done"
      BY <1>2, <1>3 DEF Tabs
    <2> QED BY <1>1, <1>3, <1>4, <1>5, <1>8, <2>1 DEF Tabs
  <1>12. Panels'
    BY <1>1, <1>2, <1>3, <1>4, <1>8 DEF Panels, Mounted, Reconnecting
  <1>13. Taking' /\ InLine'
    BY <1>1, <1>3, <1>4, <1>5, <1>8, <1>9 DEF Taking, InLine
  <1>14. Delivered'
    <2> SUFFICES ASSUME NEW s \in Session, Latest(s), ~Excused
                 PROVE  Attended(s)'
      BY <1>9, SameLatest DEF Delivered
    <2>1. Attended(s)
      BY <1>3 DEF Delivered
    <2>2. s = 1 => panel.request = s
      BY <1>2, OnlyLatest
    <2> QED BY <1>1, <1>2, <1>4, <1>5, <2>1, <2>2 DEF Attended
  <1> QED BY <1>7, <1>9, <1>10, <1>11, <1>12, <1>13, <1>14 DEF IInv

LEMMA FlushStartupKeeps ==
    ASSUME IInv, FlushStartup
    PROVE  IInv'
  <1> DEFINE n == normalizeStartupOutput(panel.startup)
  <1>1. /\ UNCHANGED <<reader, events, connect, tab, shown>>
        /\ panel.timer /\ queue' = Enqueued(queue, n)
        /\ trimmed' = trimmed \cup (ToSet(panel.startup) \ ToSet(n))
        /\ panel' = [panel EXCEPT !.timer = FALSE, !.buffering = FALSE, !.startup = <<>>]
        /\ panel.ready => capture' = Stopped(capture) /\ odd' = odd \cup Behind
        /\ ~panel.ready => capture' = capture /\ odd' = odd \cup {"early"}
    BY DEF FlushStartup
  <1>2. panel.mounted
    BY <1>1 DEF IInv, Panels, Unmounted, NoPanel
  <1>3. Tabs /\ Requests /\ Mounted /\ Taking /\ InLine /\ Delivered /\ TypeOK
    BY <1>2 DEF IInv, Panels
  <1>4. /\ n \in Seq(Chunk) /\ ToSet(n) \subseteq ToSet(panel.startup)
        /\ Sorted(panel.startup) => Sorted(n)
        /\ panel.startup \in Seq(Chunk) /\ ToSet(panel.startup) \subseteq Chunk
    BY <1>3, Types, Normalized, ToSetType
  <1> HIDE DEF n
  <1>5. /\ panel' \in PanelState /\ panel'.mounted = panel.mounted
        /\ panel'.hears = panel.hears /\ panel'.ready = panel.ready /\ ~panel'.buffering
        /\ panel'.startup = <<>> /\ panel'.written = panel.written
        /\ panel'.session = panel.session /\ panel'.request = panel.request
        /\ panel'.reconnecting = panel.reconnecting /\ panel'.was = panel.was
        /\ panel'.wasRequest = panel.wasRequest
    <2>1. panel \in PanelState
      BY <1>3 DEF TypeOK
    <2> QED BY <1>1, <2>1, Empty DEF PanelState
  <1>6. /\ queue' \in QueueState /\ queue'.writing = queue.writing
        /\ queue'.disposed = queue.disposed
        /\ queue'.chunks = IF queue.disposed THEN queue.chunks ELSE queue.chunks \o n
        /\ queue.chunks \in Seq(Chunk)
    BY <1>1, <1>3, <1>4, Types, EnqueuedFields DEF TypeOK
  <1>7. ToSet(queue'.chunks) =
          IF queue.disposed THEN ToSet(queue.chunks) ELSE ToSet(queue.chunks) \cup ToSet(n)
    <2>1. ToSet(queue.chunks \o n) = ToSet(queue.chunks) \cup ToSet(n)
      BY <1>4, <1>6, CatSet
    <2> QED BY <1>6, <2>1
  <1>8. /\ capture' \in CaptureState /\ capture'.data = capture.data
        /\ capture'.grace = capture.grace
        /\ capture'.on => capture.on /\ ~panel.ready
        /\ ~panel.ready => capture'.on = capture.on
    <2>1. capture \in CaptureState
      BY <1>3 DEF TypeOK
    <2>2. CASE ~panel.ready
      BY <1>1, <2>1, <2>2
    <2>3. CASE panel.ready
      BY <1>1, <2>1, <2>3 DEF CaptureState, Stopped
    <2> QED BY <2>2, <2>3
  <1>9. /\ odd' \in {odd, odd \cup {"behind"}, odd \cup {"early"}}
        /\ Orderly' => Orderly /\ panel.ready /\ Unwritten = <<>>
    BY <1>1 DEF Behind, Orderly
  <1>10. TypeOK'
    <2>1. trimmed' \subseteq Chunk
      BY <1>1, <1>3, <1>4 DEF TypeOK
    <2> QED BY <1>1, <1>3, <1>5, <1>6, <1>8, <1>9, <2>1 DEF TypeOK
  <1>11. Came' \subseteq Came /\ Handed' \subseteq Handed /\ Unwritten' = Unwritten
    BY <1>1, <1>4, <1>5, <1>6, <1>7, <1>8, Empty DEF Came, Handed, InQueue, Unwritten
  <1>12. /\ SameRequests /\ Requests' /\ (Excused' <=> Excused)
         /\ "hasty" \in odd' <=> "hasty" \in odd
    BY <1>1, <1>3, <1>6, <1>9 DEF SameRequests, Requests, Excused
  <1>13. Stream(reader', events', Came') /\ NothingLost'
    <2>1. ~Excused' => Stock \subseteq Stock'
      <3> SUFFICES ASSUME ~queue.disposed
                   PROVE  Stock \subseteq Stock'
        BY <1>12 DEF Excused
      <3> QED BY <1>1, <1>6, <1>7, <1>8, <1>11 DEF Stock, Arrived
    <2> QED BY <1>1, <1>11, <1>12, <2>1, Stays
  <1>14. Tabs'
    <2>1. tab.session # None /\ connect[1] = "done" /\ tab.open
      BY <1>2, <1>3 DEF Tabs
    <2> QED BY <1>1, <1>3, <1>5, <1>8, <1>11, <2>1 DEF Tabs
  <1>15. Panels'
    BY <1>1, <1>2, <1>3, <1>5, <1>11 DEF Panels, Mounted, Reconnecting
  <1>16. Taking'
    BY <1>1, <1>3, <1>5, <1>8, <1>11, <1>12 DEF Taking
  <1>17. InLine'
    <2> SUFFICES ASSUME Orderly'
                 PROVE  Line' /\ Unwritten' = <<>> /\ ~capture'.on
      BY DEF InLine
    <2>1. Unwritten' = <<>> /\ ~capture'.on
      BY <1>8, <1>9, <1>11
    <2>2. InOrder(shown, queue.writing, queue.chunks, panel.startup, Unwritten, capture.data)
      BY <1>3, <1>9 DEF InLine, Line
    <2>3. Sorted(panel.startup) /\ Sorted(n)
      BY <1>4, <2>2 DEF InOrder
    <2>4. InOrder(shown, queue.writing, queue.chunks \o n, <<>>, Unwritten, capture.data)
      BY <1>3, <1>4, <2>2, <2>3, Line6, Flushes
    <2>5. InOrder(shown, queue.writing, queue.chunks, <<>>, Unwritten, capture.data)
      BY <2>2, Empty DEF InOrder, Below
    <2>6. Line'
      BY <1>1, <1>5, <1>6, <1>8, <1>11, <2>4, <2>5 DEF Line
    <2> QED BY <2>1, <2>6
  <1>18. Delivered'
    <2> SUFFICES ASSUME NEW s \in Session, Latest(s), ~Excused
                 PROVE  Attended(s)'
      BY <1>12, SameLatest DEF Delivered
    <2>1. Attended(s)
      BY <1>3 DEF Delivered
    <2>2. s = 1 => panel.request = s
      BY <1>2, OnlyLatest
    <2>3. panel.ready => panel.hears = Listener
      BY <1>3 DEF Mounted
    <2> QED BY <1>1, <1>2, <1>5, <1>8, <2>1, <2>2, <2>3 DEF Attended
  <1> QED BY <1>10, <1>12, <1>13, <1>14, <1>15, <1>16, <1>17, <1>18 DEF IInv

LEMMA RenderedKeeps ==
    ASSUME IInv, Rendered
    PROVE  IInv'
  <1> DEFINE w == Len(tab.warmup)
  <1>1. /\ UNCHANGED <<reader, events, connect, capture, tab, screen, odd>>
        /\ panel.mounted /\ Unwritten # <<>>
        /\ Write([panel EXCEPT !.written = w], Unwritten)
    BY DEF Rendered
  <1>2. Tabs /\ Requests /\ Mounted /\ Taking /\ InLine /\ Delivered /\ TypeOK
    BY <1>1 DEF IInv, Panels
  <1>3. /\ tab.warmup \in Seq(Chunk) /\ Unwritten \in Seq(Chunk) /\ w \in Nat
        /\ ToSet(Unwritten) \subseteq ToSet(tab.warmup)
        /\ panel.startup \in Seq(Chunk) /\ queue.chunks \in Seq(Chunk)
        /\ panel.startup \o Unwritten \in Seq(Chunk)
        /\ ToSet(panel.startup \o Unwritten) = ToSet(panel.startup) \cup ToSet(Unwritten)
        /\ ToSet(queue.chunks \o Unwritten) = ToSet(queue.chunks) \cup ToSet(Unwritten)
    BY <1>2, Types, CatSet
  <1>4. /\ panel' \in PanelState /\ panel'.mounted = panel.mounted
        /\ panel'.hears = panel.hears /\ panel'.ready = panel.ready
        /\ panel'.buffering = panel.buffering
        /\ panel'.startup = IF panel.buffering THEN panel.startup \o Unwritten ELSE panel.startup
        /\ panel'.written = w
        /\ panel'.session = panel.session /\ panel'.request = panel.request
        /\ panel'.reconnecting = panel.reconnecting /\ panel'.was = panel.was
        /\ panel'.wasRequest = panel.wasRequest
    <2>1. panel \in PanelState
      BY <1>2 DEF TypeOK
    <2>2. panel' = IF panel.buffering
                   THEN [panel EXCEPT !.written = w, !.startup = panel.startup \o Unwritten]
                   ELSE [panel EXCEPT !.written = w]
      BY <1>1, <2>1 DEF Write, PanelState
    <2>3. CASE panel.buffering
      BY <1>3, <2>1, <2>2, <2>3 DEF PanelState
    <2>4. CASE ~panel.buffering
      BY <1>3, <2>1, <2>2, <2>4 DEF PanelState
    <2> QED BY <2>3, <2>4
  <1>5. queue' = IF panel.buffering THEN queue ELSE Enqueued(queue, Unwritten)
    <2>1. [panel EXCEPT !.written = w].buffering = panel.buffering
      BY <1>2 DEF TypeOK, PanelState
    <2> QED BY <1>1, <2>1 DEF Write
  <1>6. /\ queue' \in QueueState /\ queue'.writing = queue.writing
        /\ queue'.disposed = queue.disposed
        /\ queue'.chunks = IF queue.disposed \/ panel.buffering
                           THEN queue.chunks ELSE queue.chunks \o Unwritten
    BY <1>2, <1>3, <1>5, EnqueuedFields DEF TypeOK
  <1>7. TypeOK'
    BY <1>1, <1>2, <1>4, <1>6 DEF TypeOK, screen
  <1>8. Unwritten' = <<>>
    <2>1. w >= Len(tab.warmup)
      BY <1>3
    <2> QED BY <1>1, <1>3, <1>4, <2>1, RestOf DEF Unwritten
  <1>9. Came' \subseteq Came /\ \A c \in Handed' : c \in Handed
    BY <1>1, <1>3, <1>4, <1>6 DEF Came, Handed, InQueue, screen
  <1>10. SameRequests /\ Requests' /\ (Excused' <=> Excused)
    BY <1>1, <1>2, <1>6 DEF SameRequests, Requests, Excused
  <1>11. Stream(reader', events', Came') /\ NothingLost'
    <2>1. ~Excused' => Stock \subseteq Stock'
      <3> SUFFICES ASSUME ~queue.disposed
                   PROVE  Stock \subseteq Stock'
        BY <1>10 DEF Excused
      <3> QED BY <1>1, <1>3, <1>4, <1>6 DEF Stock, Arrived, screen
    <2> QED BY <1>1, <1>9, <1>10, <2>1, Stays
  <1>12. Tabs'
    <2>1. tab.session # None /\ tab.open
      BY <1>1, <1>2 DEF Tabs
    <2> QED BY <1>1, <1>2, <1>4, <1>9, <2>1 DEF Tabs
  <1>13. Panels'
    <2>1. ~panel.buffering => panel'.startup = <<>>
      BY <1>2, <1>4 DEF Mounted
    <2> QED BY <1>1, <1>2, <1>4, <1>9, <2>1 DEF Panels, Mounted, Reconnecting
  <1>14. Taking'
    <2>1. w <= Len(tab.warmup)
      BY <1>3
    <2> QED BY <1>1, <1>2, <1>4, <1>8, <2>1 DEF Taking
  <1>15. InLine'
    <2> SUFFICES ASSUME Orderly
                 PROVE  Line' /\ panel.buffering
      BY <1>1, <1>4 DEF InLine, Orderly
    <2>1. panel.buffering
      BY <1>1, <1>2 DEF InLine
    <2>2. InOrder(shown, queue.writing, queue.chunks, panel.startup, Unwritten, capture.data)
      BY <1>2 DEF InLine, Line
    <2>3. InOrder(shown, queue.writing, queue.chunks, panel.startup \o Unwritten, <<>>,
                  capture.data)
      BY <1>2, <2>2, Line6, Renders
    <2> QED BY <1>1, <1>4, <1>6, <1>8, <2>1, <2>3 DEF Line, screen
  <1>16. Delivered'
    BY <1>1, <1>2, <1>4, <1>10, SameLatest DEF Delivered, Attended
  <1> QED BY <1>7, <1>10, <1>11, <1>12, <1>13, <1>14, <1>15, <1>16 DEF IInv

(* Text is queued only while there is a panel. *)
LEMMA Showing ==
    ASSUME IInv, queue.chunks # <<>> \/ queue.writing # <<>>
    PROVE  panel.mounted /\ Mounted /\ tab.open
  BY DEF IInv, Tabs, Panels, Unmounted

LEMMA FlushNextKeeps ==
    ASSUME IInv, FlushNext
    PROVE  IInv'
  <1>1. /\ UNCHANGED <<reader, events, connect, capture, tab, panel, screen, odd>>
        /\ queue.chunks # <<>> /\ queue.writing = <<>> /\ queue' = Taken(queue)
    BY DEF FlushNext
  <1>2. /\ Tabs /\ Requests /\ Mounted /\ Taking /\ InLine /\ Delivered /\ TypeOK
        /\ panel.mounted /\ tab.open
    BY <1>1, Showing DEF IInv
  <1>3. /\ queue' \in QueueState /\ queue'.disposed = queue.disposed
        /\ queue'.writing \o queue'.chunks = queue.chunks
        /\ Len(queue'.writing) <= BatchChars
    BY <1>1, <1>2, TakenFields DEF TypeOK
  <1>4. queue'.writing \in Seq(Chunk) /\ queue'.chunks \in Seq(Chunk)
    BY <1>3 DEF QueueState
  <1>5. ToSet(queue.chunks) = ToSet(queue'.writing) \cup ToSet(queue'.chunks)
    <2>1. ToSet(queue'.writing \o queue'.chunks) = ToSet(queue'.writing) \cup ToSet(queue'.chunks)
      BY <1>4, CatSet
    <2> QED BY <1>3, <2>1
  <1>6. TypeOK'
    BY <1>1, <1>2, <1>3 DEF TypeOK, screen
  <1>7. Came' = Came /\ Handed' = Handed /\ Unwritten' = Unwritten /\ Stock' = Stock
    BY <1>1, <1>5, Empty DEF Came, Handed, InQueue, Unwritten, Stock, Arrived, screen
  <1>8. SameRequests /\ Requests' /\ (Excused' <=> Excused)
    BY <1>1, <1>2, <1>3 DEF SameRequests, Requests, Excused
  <1>9. Stream(reader', events', Came') /\ NothingLost'
    BY <1>1, <1>7, <1>8, Stays
  <1>10. Tabs' /\ Taking'
    BY <1>1, <1>2, <1>7 DEF Tabs, Taking
  <1>11. Panels'
    BY <1>1, <1>2, <1>7 DEF Panels, Mounted, Reconnecting
  <1>12. InLine'
    <2>1. Orderly => InOrder(shown, <<>>, queue.chunks, panel.startup, Unwritten, capture.data)
      BY <1>1, <1>2 DEF InLine, Line
    <2>2. Orderly => InOrder(shown, queue'.writing, queue'.chunks, panel.startup, Unwritten,
                             capture.data)
      BY <1>3, <1>4, <2>1, Takes
    <2> QED BY <1>1, <1>2, <1>7, <2>2 DEF InLine, Line, Orderly, screen
  <1>13. Delivered'
    BY <1>1, <1>2, <1>8, SameLatest DEF Delivered, Attended
  <1> QED BY <1>6, <1>8, <1>9, <1>10, <1>11, <1>12, <1>13 DEF IInv

LEMMA ParsedKeeps ==
    ASSUME IInv, Parsed
    PROVE  IInv'
  <1>1. /\ UNCHANGED <<reader, events, connect, capture, tab, panel, trimmed, odd>>
        /\ queue.writing # <<>> /\ queue' = [queue EXCEPT !.writing = <<>>]
        /\ shown' = shown \o queue.writing
    BY DEF Parsed
  <1>2. /\ Tabs /\ Requests /\ Mounted /\ Taking /\ InLine /\ Delivered /\ TypeOK
        /\ panel.mounted /\ tab.open
    BY <1>1, Showing DEF IInv
  <1>3. /\ queue' \in QueueState /\ queue'.disposed = queue.disposed
        /\ queue'.writing = <<>> /\ queue'.chunks = queue.chunks
    <2>1. queue \in QueueState
      BY <1>2 DEF TypeOK
    <2> QED BY <1>1, <2>1, Empty DEF QueueState
  <1>4. shown' \in Seq(Chunk) /\ ToSet(shown') = ToSet(shown) \cup ToSet(queue.writing)
    BY <1>1, <1>2, Types, CatSet
  <1>5. TypeOK'
    <2>1. Len(queue'.writing) <= BatchChars
      BY <1>3, Sessions
    <2> QED BY <1>1, <1>2, <1>3, <1>4, <2>1 DEF TypeOK
  <1>6. Came' = Came /\ Handed' = Handed /\ Unwritten' = Unwritten /\ Stock' = Stock
    BY <1>1, <1>3, <1>4, Empty DEF Came, Handed, InQueue, Unwritten, Stock, Arrived
  <1>7. SameRequests /\ Requests' /\ (Excused' <=> Excused)
    BY <1>1, <1>2, <1>3 DEF SameRequests, Requests, Excused
  <1>8. Stream(reader', events', Came') /\ NothingLost'
    BY <1>1, <1>6, <1>7, Stays
  <1>9. Tabs' /\ Taking'
    BY <1>1, <1>2, <1>6 DEF Tabs, Taking
  <1>10. Panels'
    BY <1>1, <1>2, <1>6 DEF Panels, Mounted, Reconnecting
  <1>11. InLine'
    <2>1. Orderly => InOrder(shown, queue.writing, queue.chunks, panel.startup, Unwritten,
                             capture.data)
      BY <1>2 DEF InLine, Line
    <2>2. Orderly => InOrder(shown', <<>>, queue.chunks, panel.startup, Unwritten, capture.data)
      BY <1>1, <1>2, <2>1, Line6, Parses
    <2> QED BY <1>1, <1>2, <1>3, <1>6, <2>2 DEF InLine, Line, Orderly
  <1>12. Delivered'
    BY <1>1, <1>2, <1>7, SameLatest DEF Delivered, Attended
  <1> QED BY <1>5, <1>7, <1>8, <1>9, <1>10, <1>11, <1>12 DEF IInv

LEMMA WriteFailsKeeps ==
    ASSUME IInv, WriteFails
    PROVE  IInv'
  <1>1. /\ UNCHANGED <<reader, events, connect, capture, tab, panel, screen, odd>>
        /\ queue.chunks # <<>> /\ queue' = [EmptyQueue EXCEPT !.disposed = TRUE]
    BY DEF WriteFails
  <1>2. /\ Tabs /\ Requests /\ Mounted /\ Taking /\ InLine /\ Delivered /\ TypeOK
        /\ panel.mounted /\ tab.open
    BY <1>1, Showing DEF IInv
  <1>3. /\ queue' \in QueueState /\ queue'.disposed
        /\ queue'.writing = <<>> /\ queue'.chunks = <<>>
    BY <1>1, Empty DEF EmptyQueue, QueueState
  <1>4. TypeOK'
    <2>1. Len(queue'.writing) <= BatchChars
      BY <1>3, Sessions
    <2> QED BY <1>1, <1>2, <1>3, <2>1 DEF TypeOK, screen
  <1>5. Came' \subseteq Came /\ Handed' = Handed /\ Unwritten' = Unwritten
    BY <1>1, <1>3, Empty DEF Came, Handed, InQueue, Unwritten, screen
  <1>6. SameRequests /\ Requests' /\ Excused'
    BY <1>1, <1>2, <1>3 DEF SameRequests, Requests, Excused
  <1>7. Stream(reader', events', Came') /\ NothingLost'
    BY <1>1, <1>5, <1>6, Stays
  <1>8. Tabs' /\ Taking'
    BY <1>1, <1>2, <1>5 DEF Tabs, Taking
  <1>9. Panels'
    BY <1>1, <1>2, <1>5 DEF Panels, Mounted, Reconnecting
  <1>10. InLine'
    <2>1. Orderly => InOrder(shown, queue.writing, queue.chunks, panel.startup, Unwritten,
                             capture.data)
      BY <1>2 DEF InLine, Line
    <2>2. Orderly => InOrder(shown, <<>>, <<>>, panel.startup, Unwritten, capture.data)
      BY <2>1, Empty DEF InOrder, Below
    <2> QED BY <1>1, <1>2, <1>3, <1>5, <2>2 DEF InLine, Line, Orderly, screen
  <1>11. Delivered'
    BY <1>6 DEF Delivered
  <1> QED BY <1>4, <1>6, <1>7, <1>8, <1>9, <1>10, <1>11 DEF IInv

LEMMA CloseTabKeeps ==
    ASSUME IInv, CloseTab
    PROVE  IInv'
  <1>1. /\ UNCHANGED <<reader, events, connect, screen, odd>>
        /\ tab' = [open |-> FALSE, session |-> None, warmup |-> <<>>]
        /\ capture' = [Stopped(capture) EXCEPT !.data = <<>>]
        /\ panel' = NoPanel
        /\ queue' = [EmptyQueue EXCEPT !.disposed = TRUE]
    BY DEF CloseTab
  <1>2. Tabs /\ Requests /\ InLine /\ TypeOK
    BY DEF IInv
  <1>3. /\ tab' \in TabState /\ ~tab'.open /\ tab'.session = None /\ tab'.warmup = <<>>
    BY <1>1, Empty DEF TabState
  <1>4. /\ capture' \in CaptureState /\ ~capture'.on /\ capture'.data = <<>>
        /\ capture'.grace = capture.grace
    <2>1. capture \in CaptureState
      BY <1>2 DEF TypeOK
    <2> QED BY <1>1, <2>1, Empty DEF CaptureState, Stopped
  <1>5. /\ panel' \in PanelState /\ ~panel'.mounted /\ panel'.startup = <<>>
        /\ panel'.written = 0
    BY <1>1, Empty DEF NoPanel, PanelState
  <1>6. /\ queue' \in QueueState /\ queue'.writing = <<>> /\ queue'.chunks = <<>>
    BY <1>1, Empty DEF EmptyQueue, QueueState
  <1>7. TypeOK'
    <2>1. Len(queue'.writing) <= BatchChars
      BY <1>6, Sessions
    <2> QED BY <1>1, <1>2, <1>3, <1>4, <1>5, <1>6, <2>1 DEF TypeOK, screen
  <1>8. Unwritten' = <<>>
    BY <1>3, <1>5, Empty, RestOf DEF Unwritten
  <1>9. Came' \subseteq Came /\ Handed' = {}
    BY <1>1, <1>3, <1>4, <1>5, <1>6, Empty DEF Came, Handed, InQueue, screen
  <1>10. SameRequests /\ Requests' /\ Excused'
    BY <1>1, <1>2, <1>3 DEF SameRequests, Requests, Excused
  <1>11. Stream(reader', events', Came') /\ NothingLost'
    BY <1>1, <1>9, <1>10, Stays
  <1>12. Tabs' /\ Taking'
    BY <1>1, <1>2, <1>3, <1>4, <1>5, <1>6, <1>9 DEF Tabs, Taking
  <1>13. Panels'
    BY <1>1, <1>3, <1>5 DEF Panels, Unmounted
  <1>14. InLine'
    <2>1. Orderly => InOrder(shown, queue.writing, queue.chunks, panel.startup, Unwritten,
                             capture.data)
      BY <1>2 DEF InLine, Line
    <2>2. Orderly => InOrder(shown, <<>>, <<>>, <<>>, <<>>, <<>>)
      BY <2>1, Empty DEF InOrder, Below
    <2> QED BY <1>1, <1>4, <1>5, <1>6, <1>8, <2>2 DEF InLine, Line, Orderly, screen
  <1>15. Delivered'
    BY <1>10 DEF Delivered
  <1> QED BY <1>7, <1>10, <1>11, <1>12, <1>13, <1>14, <1>15 DEF IInv

LEMMA ReconnectKeeps ==
    ASSUME IInv, NEW s \in Session, Reconnect(s)
    PROVE  IInv'
  <1>1. /\ UNCHANGED <<reader, events, capture, tab, screen>>
        /\ connect[s] = "none" /\ \A r \in 1..(s - 1) : connect[r] = "done"
        /\ panel.ready /\ ~panel.reconnecting
        /\ connect' = [connect EXCEPT ![s] = "asked"]
        /\ panel' = [panel EXCEPT !.reconnecting = TRUE, !.session = None, !.request = s,
                                  !.was = panel.session, !.wasRequest = panel.request,
                                  !.startup = <<>>, !.buffering = FALSE]
        /\ queue' = [queue EXCEPT !.chunks = <<>>]
        /\ odd' = odd \cup IF capture.on \/ Unwritten # <<>> THEN {"hasty"} ELSE {}
    BY DEF Reconnect
  <1>2. panel.mounted
    BY <1>1 DEF IInv, Panels, Unmounted, NoPanel
  <1>3. Tabs /\ Requests /\ Mounted /\ Taking /\ InLine /\ Delivered /\ TypeOK
    BY <1>2 DEF IInv, Panels
  <1>4. /\ connect' \in [Session -> {"none", "asked", "opened", "refused", "done"}]
        /\ connect'[s] = "asked" /\ \A r \in Session : r # s => connect'[r] = connect[r]
    BY <1>1, <1>3 DEF TypeOK
  <1>5. /\ panel' \in PanelState /\ panel'.mounted = panel.mounted
        /\ panel'.hears = panel.hears /\ panel'.ready = panel.ready
        /\ ~panel'.buffering /\ panel'.startup = <<>> /\ panel'.written = panel.written
        /\ panel'.session = None /\ panel'.request = s /\ panel'.reconnecting
        /\ panel'.was = panel.session /\ panel'.wasRequest = panel.request
    <2>1. panel \in PanelState /\ panel.session \in Session \cup {None}
          /\ panel.request \in Session \cup {None}
      BY <1>3 DEF TypeOK, PanelState
    <2> QED BY <1>1, <2>1, Empty DEF PanelState
  <1>6. /\ queue' \in QueueState /\ queue'.disposed = queue.disposed
        /\ queue'.writing = queue.writing /\ queue'.chunks = <<>>
    <2>1. queue \in QueueState
      BY <1>3 DEF TypeOK
    <2> QED BY <1>1, <2>1, Empty DEF QueueState
  <1>7. TypeOK'
    <2>1. odd' \subseteq {"early", "behind", "cut", "hasty"}
      BY <1>1, <1>3 DEF TypeOK
    <2> QED BY <1>1, <1>3, <1>4, <1>5, <1>6, <2>1 DEF TypeOK, screen
  <1>8. /\ s \in Nat /\ s > 1
        /\ panel.request \in Session /\ panel.request \in Nat /\ panel.request < s
        /\ connect[panel.request] # "none"
    <2>1. s \in Nat /\ s >= 1 /\ s # 1
      BY <1>1, <1>3, Sessions DEF Requests
    <2>2. panel.request \in Session /\ connect[panel.request] # "none"
      BY <1>3 DEF Mounted
    <2>3. panel.request \in Nat /\ panel.request # s
      BY <1>1, <2>2, Sessions
    <2>4. ~(s < panel.request)
      BY <1>1, <1>3, <2>2 DEF Requests
    <2> QED BY <2>1, <2>2, <2>3, <2>4
  <1>9. /\ \A r \in Session : r < s => connect[r] = "done"
        /\ \A r \in Session : r > s => connect[r] = "none" /\ reader[r].at = "none"
        /\ reader[s].at = "none" /\ reader[s].sent = 0
    <2>1. \A r \in Session : r < s => connect[r] = "done"
      <3>1. \A r \in Session : r < s => r \in 1..(s - 1)
        BY <1>8, Sessions
      <3> QED BY <1>1, <3>1
    <2>2. \A r \in Session : r > s => connect[r] = "none" /\ reader[r].at = "none"
      <3> SUFFICES ASSUME NEW r \in Session, r > s
                   PROVE  connect[r] = "none" /\ reader[r].at = "none"
        OBVIOUS
      <3>1. s < r
        BY <1>8, Sessions
      <3>2. connect[r] = "none"
        BY <1>1, <1>3, <3>1 DEF Requests
      <3> QED BY <1>3, <3>2 DEF Requests
    <2>3. reader[s].at = "none" /\ reader[s].sent = 0
      BY <1>1, <1>3 DEF Requests, IInv, Stream, FromReader
    <2> QED BY <2>1, <2>2, <2>3
  <1>10. Came' \subseteq Came /\ Handed' \subseteq Handed /\ Unwritten' = Unwritten
    BY <1>1, <1>5, <1>6, Empty DEF Came, Handed, InQueue, Unwritten, screen
  <1>11. \A t \in Session : Latest(t)' => t = s
    <2> SUFFICES ASSUME NEW t \in Session, Latest(t)', t # s
                 PROVE  FALSE
      OBVIOUS
    <2>1. ~(t > s)
      BY <1>4, <1>9 DEF Latest
    <2>2. s > t
      BY <2>1, Sessions
    <2> QED BY <1>4, <2>2 DEF Latest
  <1>12. Stream(reader', events', Came')
    BY <1>1, <1>10, Fewer DEF IInv
  <1>13. NothingLost'
    <2>1. Printed(s)' = {}
      <3>1. 1..0 = {}
        OBVIOUS
      <3> QED BY <1>1, <1>9, <3>1 DEF Printed
    <2> QED BY <1>11, <2>1 DEF NothingLost
  <1>14. Delivered'
    BY <1>1, <1>9, <1>11 DEF Delivered, Attended
  <1>15. Requests'
    <2>1. connect'[1] # "none"
      BY <1>3, <1>4, Sessions DEF Requests
    <2>2. \A r \in Session :
            /\ connect'[r] \in {"none", "asked", "refused"} => reader'[r].at = "none"
            /\ connect'[r] = "opened" => reader'[r].at # "none"
      BY <1>1, <1>3, <1>4, <1>9 DEF Requests
    <2>3. ASSUME NEW r \in Session, NEW t \in Session, r < t, connect'[t] # "none"
          PROVE  connect'[r] = "done"
      <3>1. t <= s
        <4>1. ~(t > s)
          BY <1>4, <1>9, <2>3
        <4> QED BY <1>8, <4>1, Sessions
      <3>2. r < s
        BY <1>8, <2>3, <3>1, Sessions
      <3> QED BY <1>4, <1>8, <1>9, <3>2
    <2> QED BY <2>1, <2>2, <2>3 DEF Requests
  <1>16. Tabs'
    <2>1. tab.open /\ tab.session # None /\ connect[1] = "done"
      BY <1>2, <1>3 DEF Tabs
    <2>2. connect'[1] = "done"
      BY <1>4, <1>8, <2>1, Sessions
    <2> QED BY <1>1, <1>3, <1>5, <1>10, <2>1, <2>2 DEF Tabs
  <1>17. Panels'
    <2>1. \A r \in Session : r > s => connect'[r] \in {"none", "done"} /\ reader'[r].at = "none"
      BY <1>1, <1>4, <1>8, <1>9
    <2>2. \A r \in Session : r > 1 /\ connect'[r] \in {"asked", "opened", "refused"} => r = s
      <3> SUFFICES ASSUME NEW r \in Session, r > 1, r # s,
                          connect'[r] \in {"asked", "opened", "refused"}
                   PROVE  FALSE
        OBVIOUS
      <3> QED BY <1>1, <1>3, <1>4 DEF Mounted
    <2>3. Reconnecting'
      <3>1. \A r \in Session : panel.request < r /\ r < s => reader[r].at = "none"
        <4> SUFFICES ASSUME NEW r \in Session, panel.request < r
                     PROVE  reader[r].at = "none"
          OBVIOUS
        <4>1. r > panel.request
          BY <1>8, Sessions
        <4> QED BY <1>3, <4>1 DEF Mounted
      <3>2. panel.session \in {None, panel.request}
        BY <1>3 DEF Mounted
      <3> QED BY <1>1, <1>4, <1>5, <1>8, <3>1, <3>2 DEF Reconnecting
    <2>4. \A c \in Came' : c[1] <= s
      <3> SUFFICES ASSUME NEW c \in Came'
                   PROVE  c[1] <= s
        OBVIOUS
      <3>1. c[1] <= panel.request /\ c[1] \in Nat
        BY <1>3, <1>10, Streaming, ChunkNumbers DEF Mounted, Streams
      <3> QED BY <1>8, <3>1
    <2>5. panel.ready /\ panel.hears = Listener
      BY <1>1, <1>3 DEF Mounted
    <2>6. Mounted'
      BY <1>4, <1>5, <2>1, <2>2, <2>3, <2>4, <2>5 DEF Mounted
    <2> QED BY <1>2, <1>5, <2>6 DEF Panels
  <1>18. Taking'
    BY <1>1, <1>3, <1>5, <1>10 DEF Taking
  <1>19. InLine'
    <2> SUFFICES ASSUME Orderly'
                 PROVE  Line' /\ Unwritten' = <<>> /\ ~capture'.on
      BY DEF InLine
    <2>1. Orderly /\ Unwritten = <<>> /\ ~capture.on
      BY <1>1 DEF Orderly
    <2>2. InOrder(shown, queue.writing, queue.chunks, panel.startup, Unwritten, capture.data)
      BY <1>3, <2>1 DEF InLine, Line
    <2>3. InOrder(shown, queue.writing, <<>>, <<>>, Unwritten, capture.data)
      BY <2>2, Empty DEF InOrder, Below
    <2> QED BY <1>1, <1>5, <1>6, <1>10, <2>1, <2>3 DEF Line, screen
  <1> QED BY <1>7, <1>12, <1>13, <1>14, <1>15, <1>16, <1>17, <1>18, <1>19 DEF IInv

(* The answer of a request: what it leaves of the others. *)
LEMMA Answered ==
    ASSUME IInv, NEW s \in Session, s > 1, connect[s] \in {"opened", "refused"},
           connect' = [connect EXCEPT ![s] = "done"], UNCHANGED <<reader, events>>
    PROVE  /\ connect' \in [Session -> {"none", "asked", "opened", "refused", "done"}]
           /\ connect'[s] = "done" /\ \A r \in Session : r # s => connect'[r] = connect[r]
           /\ SameRequests /\ Requests' /\ connect[1] = "done" /\ connect'[1] = "done"
           /\ \A r \in Session : r < s => connect[r] = "done"
           /\ panel.mounted => panel.request = s /\ panel.reconnecting
           /\ ~panel.mounted => ~tab.open
  <1>1. Requests /\ Panels /\ TypeOK
    BY DEF IInv
  <1>2. /\ connect' \in [Session -> {"none", "asked", "opened", "refused", "done"}]
        /\ connect'[s] = "done" /\ \A r \in Session : r # s => connect'[r] = connect[r]
    BY <1>1 DEF TypeOK
  <1>3. SameRequests
    BY <1>2 DEF SameRequests
  <1>4. \A r \in Session : r < s => connect[r] = "done"
    BY <1>1 DEF Requests
  <1>5. connect[1] = "done" /\ connect'[1] = "done"
    <2>1. 1 < s /\ 1 # s
      BY Sessions
    <2> QED BY <1>2, <1>4, <2>1, Sessions
  <1>6. Requests'
    BY <1>1, <1>2, <1>5 DEF Requests
  <1>7. panel.mounted => panel.request = s /\ panel.reconnecting
    BY <1>1 DEF Panels, Mounted
  <1>8. ~panel.mounted => ~tab.open
    BY <1>1 DEF Panels, Unmounted
  <1> QED BY <1>2, <1>3, <1>4, <1>5, <1>6, <1>7, <1>8

(* Without a panel an answer changes nothing else. *)
LEMMA AnsweredGone ==
    ASSUME IInv, NEW s \in Session, s > 1, connect[s] \in {"opened", "refused"},
           connect' = [connect EXCEPT ![s] = "done"], ~panel.mounted,
           UNCHANGED <<reader, events, capture, tab, panel, queue, screen, odd>>
    PROVE  IInv'
  <1>1. /\ connect' \in [Session -> {"none", "asked", "opened", "refused", "done"}]
        /\ SameRequests /\ Requests' /\ connect[1] = "done" /\ connect'[1] = "done"
        /\ ~tab.open
    BY Answered
  <1>2. Tabs /\ Panels /\ Taking /\ InLine /\ TypeOK
    BY DEF IInv
  <1>3. TypeOK'
    BY <1>1, <1>2 DEF TypeOK, screen
  <1>4. Came' = Came /\ Handed' = Handed /\ Unwritten' = Unwritten /\ Line' = Line
    BY DEF Came, Handed, InQueue, Unwritten, Line, screen
  <1>5. Excused'
    BY <1>1 DEF Excused
  <1>6. Stream(reader', events', Came') /\ NothingLost'
    BY <1>1, <1>4, <1>5, Stays
  <1>7. Tabs' /\ Taking' /\ InLine' /\ Panels'
    <2>1. Tabs'
      BY <1>1, <1>2, <1>4 DEF Tabs
    <2>2. Taking' /\ InLine'
      BY <1>1, <1>2, <1>4 DEF Taking, InLine, Orderly
    <2>3. Panels'
      BY <1>1, <1>2 DEF Panels, Unmounted
    <2> QED BY <2>1, <2>2, <2>3
  <1>8. Delivered'
    BY <1>5 DEF Delivered
  <1> QED BY <1>1, <1>3, <1>6, <1>7, <1>8 DEF IInv

LEMMA ReconnectedKeeps ==
    ASSUME IInv, NEW s \in Session, Reconnected(s)
    PROVE  IInv'
  <1>1. /\ s > 1 /\ connect[s] = "opened"
        /\ connect' = [connect EXCEPT ![s] = "done"]
        /\ UNCHANGED <<reader, events, capture, queue, screen, odd>>
    BY DEF Reconnected
  <1>2. CASE ~panel.mounted
    <2>1. UNCHANGED <<panel, tab>>
      BY <1>2 DEF Reconnected
    <2> QED BY <1>1, <1>2, <2>1, AnsweredGone
  <1>3. CASE panel.mounted
    <2>1. /\ panel' = [Settled(panel) EXCEPT !.session = s]
          /\ tab' = [tab EXCEPT !.session = s, !.warmup = <<>>]
      BY <1>3 DEF Reconnected
    <2>2. /\ connect' \in [Session -> {"none", "asked", "opened", "refused", "done"}]
          /\ connect'[s] = "done" /\ \A r \in Session : r # s => connect'[r] = connect[r]
          /\ SameRequests /\ Requests' /\ connect[1] = "done" /\ connect'[1] = "done"
          /\ panel.request = s
      BY <1>1, <1>3, Answered
    <2>3. Tabs /\ Requests /\ Mounted /\ Taking /\ InLine /\ Delivered /\ TypeOK
      BY <1>3 DEF IInv, Panels
    <2>4. /\ panel' \in PanelState /\ panel'.mounted = panel.mounted
          /\ panel'.hears = panel.hears /\ panel'.ready = panel.ready
          /\ panel'.buffering = panel.buffering /\ panel'.startup = panel.startup
          /\ panel'.written = panel.written /\ panel'.session = s
          /\ panel'.request = panel.request /\ ~panel'.reconnecting
      <3>1. panel \in PanelState
        BY <2>3 DEF TypeOK
      <3> QED BY <2>1, <3>1 DEF PanelState, Settled
    <2>5. /\ tab' \in TabState /\ tab'.open = tab.open /\ tab'.session = s
          /\ tab'.warmup = <<>>
      <3>1. tab \in TabState
        BY <2>3 DEF TypeOK
      <3> QED BY <2>1, <3>1, Empty DEF TabState
    <2>6. TypeOK'
      BY <1>1, <2>2, <2>3, <2>4, <2>5 DEF TypeOK, screen
    <2>7. Unwritten' = <<>>
      <3>1. panel.written \in Nat /\ panel.written >= 0 /\ Len(<<>>) = 0
        BY <2>3, Types
      <3> QED BY <2>4, <2>5, <3>1, Empty, RestOf DEF Unwritten
    <2>8. Came' \subseteq Came /\ Handed' \subseteq Handed
      BY <1>1, <2>4, <2>5, Empty DEF Came, Handed, InQueue, screen
    <2>9. Excused' <=> Excused
      BY <1>1, <2>5 DEF Excused
    <2>10. tab.open /\ tab.session # None /\ capture.data = <<>>
      BY <1>3, <2>3 DEF Tabs
    <2>11. Stream(reader', events', Came') /\ NothingLost'
      <3>1. ASSUME NEW t \in Session, Latest(t)
            PROVE  Printed(t) \cap Stock \subseteq Stock'
        <4>1. t # 1
          BY <1>1, <3>1 DEF Latest
        <4>2. \A c \in ToSet(Unwritten) : c[1] = 1
          BY <2>3, Types DEF Tabs, Handed
        <4>3. \A c \in Printed(t) : c \notin ToSet(Unwritten)
          BY <4>1, <4>2 DEF Printed
        <4>4. Stock \subseteq Stock' \cup ToSet(Unwritten)
          BY <1>1, <2>4 DEF Stock, Arrived, screen
        <4> QED BY <4>3, <4>4
      <3> QED BY <1>1, <2>2, <2>8, <2>9, <3>1, Stays
    <2>12. Tabs'
      <3>1. s # None
        BY Sessions
      <3> QED BY <1>1, <2>2, <2>3, <2>4, <2>5, <2>8, <2>10, <3>1 DEF Tabs
    <2>13. Panels'
      <3>1. \A r \in Session : r > s => connect'[r] \in {"none", "done"} /\ reader'[r].at = "none"
        BY <1>1, <2>2, <2>3 DEF Mounted
      <3>2. \A r \in Session : r > 1 => connect'[r] \notin {"asked", "opened", "refused"}
        BY <2>2, <2>3 DEF Mounted
      <3>3. Mounted'
        BY <2>2, <2>3, <2>4, <2>8, <3>1, <3>2 DEF Mounted
      <3> QED BY <1>3, <2>4, <3>3 DEF Panels
    <2>14. Taking'
      <3>1. "hasty" \notin odd => ~capture.on
        BY <1>1, <2>3, <2>10 DEF Taking
      <3> QED BY <1>1, <2>7, <3>1 DEF Taking
    <2>15. InLine'
      <3>1. Orderly => InOrder(shown, queue.writing, queue.chunks, panel.startup, Unwritten,
                               capture.data)
        BY <2>3 DEF InLine, Line
      <3>2. Orderly => InOrder(shown, queue.writing, queue.chunks, panel.startup, <<>>,
                               capture.data)
        BY <3>1, Empty DEF InOrder, Below
      <3> QED BY <1>1, <2>3, <2>4, <2>7, <3>2 DEF InLine, Line, Orderly, screen
    <2>16. Delivered'
      BY <1>1, <2>2, <2>3, <2>4, <2>9, SameLatest DEF Delivered, Attended
    <2> QED BY <2>2, <2>6, <2>11, <2>12, <2>13, <2>14, <2>15, <2>16 DEF IInv
  <1> QED BY <1>2, <1>3

LEMMA ReconnectFailsKeeps ==
    ASSUME IInv, NEW s \in Session, ReconnectFails(s)
    PROVE  IInv'
  <1>1. /\ s > 1 /\ connect[s] = "refused"
        /\ connect' = [connect EXCEPT ![s] = "done"]
        /\ UNCHANGED <<reader, events, capture, tab, queue, screen, odd>>
    BY DEF ReconnectFails
  <1>2. CASE ~panel.mounted
    <2>1. panel' = panel
      BY <1>2 DEF ReconnectFails
    <2> QED BY <1>1, <1>2, <2>1, AnsweredGone
  <1>3. CASE panel.mounted
    <2> DEFINE w == panel.wasRequest
    <2>1. panel' = [Settled(panel) EXCEPT !.session = panel.was, !.request = w]
      BY <1>3 DEF ReconnectFails
    <2>2. /\ connect' \in [Session -> {"none", "asked", "opened", "refused", "done"}]
          /\ connect'[s] = "done" /\ \A r \in Session : r # s => connect'[r] = connect[r]
          /\ SameRequests /\ Requests' /\ connect[1] = "done" /\ connect'[1] = "done"
          /\ \A r \in Session : r < s => connect[r] = "done"
          /\ panel.request = s /\ panel.reconnecting
      BY <1>1, <1>3, Answered
    <2>3. Tabs /\ Requests /\ Mounted /\ Taking /\ InLine /\ Delivered /\ TypeOK
      BY <1>3 DEF IInv, Panels
    <2>4. /\ panel' \in PanelState /\ panel'.mounted = panel.mounted
          /\ panel'.hears = panel.hears /\ panel'.ready = panel.ready
          /\ panel'.buffering = panel.buffering /\ panel'.startup = panel.startup
          /\ panel'.written = panel.written /\ panel'.session = panel.was
          /\ panel'.request = w /\ ~panel'.reconnecting
      <3>1. panel \in PanelState
        BY <2>3 DEF TypeOK
      <3> QED BY <2>1, <3>1 DEF PanelState, Settled
    <2>5. TypeOK'
      BY <1>1, <2>2, <2>3, <2>4 DEF TypeOK, screen
    <2>6. Came' = Came /\ Handed' = Handed /\ Unwritten' = Unwritten /\ Line' = Line
          /\ Stock' = Stock
      BY <1>1, <2>4 DEF Came, Handed, InQueue, Unwritten, Line, Stock, Arrived, screen
    <2>7. Excused' <=> Excused
      BY <1>1 DEF Excused
    <2>8. Stream(reader', events', Came') /\ NothingLost'
      BY <1>1, <2>2, <2>6, <2>7, Stays
    <2>9. Tabs'
      BY <1>1, <2>2, <2>3, <2>4, <2>6 DEF Tabs
    <2>10. /\ w \in Session /\ w < s /\ panel.was \in {None, w}
           /\ \A r \in Session : w < r /\ r < s => reader[r].at = "none"
      BY <2>2, <2>3 DEF Mounted, Reconnecting
    <2>11. \A r \in Session : r > w => /\ connect'[r] \in {"none", "done"}
                                       /\ reader[r].at = "none"
      <3> SUFFICES ASSUME NEW r \in Session, r > w
                   PROVE  connect'[r] \in {"none", "done"} /\ reader[r].at = "none"
        OBVIOUS
      <3>1. CASE r = s
        BY <1>1, <2>2, <2>3, <3>1 DEF Requests
      <3>2. CASE r < s
        <4>1. w < r /\ r # s
          BY <2>10, <3>2, Sessions
        <4> QED BY <2>2, <2>10, <3>2, <4>1
      <3>3. CASE r > s
        <4>1. r # s
          BY <3>3, Sessions
        <4> QED BY <2>2, <2>3, <3>3, <4>1 DEF Mounted
      <3> QED BY <3>1, <3>2, <3>3, Sessions
    <2>12. \A c \in Came : c[1] <= w
      <3> SUFFICES ASSUME NEW c \in Came, ~(c[1] <= w)
                   PROVE  FALSE
        OBVIOUS
      <3>1. c[1] \in Session /\ c[2] \in Nat /\ c[2] >= 1
        BY <2>3, Streaming, ChunkNumbers DEF Streams
      <3>2. c[1] > w
        <4>1. c[1] \in Nat /\ w \in Nat
          BY <2>10, <3>1, Sessions
        <4> QED BY <4>1
      <3>3. reader[c[1]].sent = 0
        BY <2>11, <3>1, <3>2 DEF IInv, Stream, FromReader
      <3>4. c[2] <= reader[c[1]].sent
        BY DEF IInv, Stream, AtWindow
      <3> QED BY <3>1, <3>3, <3>4
    <2>13. Panels'
      <3>1. connect'[w] # "none" /\ w \in Session
        BY <2>2, <2>10, Sessions
      <3>2. \A r \in Session : r > 1 => connect'[r] \notin {"asked", "opened", "refused"}
        BY <2>2, <2>3 DEF Mounted
      <3>3. panel.ready /\ ~panel.buffering
        BY <1>1, <2>2, <2>3 DEF Mounted
      <3>4. \A r \in Session : r > w => connect'[r] \in {"none", "done"} /\ reader'[r].at = "none"
        BY <1>1, <2>11
      <3>5. Mounted'
        BY <2>3, <2>4, <2>6, <2>10, <2>12, <3>1, <3>2, <3>3, <3>4 DEF Mounted
      <3> QED BY <1>3, <2>4, <3>5 DEF Panels
    <2>14. Taking' /\ InLine'
      <3>1. Taking'
        BY <1>1, <2>2, <2>3, <2>4, <2>6 DEF Taking, SameRequests
      <3>2. InLine'
        BY <1>1, <2>3, <2>4, <2>6 DEF InLine, Orderly
      <3> QED BY <3>1, <3>2
    <2>15. Delivered'
      <3> SUFFICES ASSUME NEW t \in Session, Latest(t), ~Excused
                   PROVE  Attended(t)'
        BY <2>2, <2>7, SameLatest DEF Delivered
      <3>1. Attended(t)
        BY <2>3 DEF Delivered
      <3>2. reader[s].at = "none"
        BY <1>1, <2>3 DEF Requests
      <3> QED BY <1>1, <2>2, <3>1, <3>2 DEF Attended
    <2> QED BY <2>2, <2>5, <2>8, <2>9, <2>13, <2>14, <2>15 DEF IInv
  <1> QED BY <1>2, <1>3

(* Chunks that have come, and the session that sent them. *)
LEMMA CameFrom ==
    ASSUME IInv, NEW c \in Came
    PROVE  /\ c[1] \in Session /\ c[1] \in Nat /\ c[2] \in Nat
           /\ connect[c[1]] # "none"
  <1>1. TypeOK /\ Requests
    BY DEF IInv
  <1>2. c[1] \in Session /\ c[1] \in Nat /\ c[2] \in Nat /\ c[2] >= 1
    BY <1>1, Streaming, ChunkNumbers DEF Streams
  <1>3. c[2] <= reader[c[1]].sent
    BY DEF IInv, Stream, AtWindow
  <1>4. reader[c[1]].sent # 0
    BY <1>2, <1>3
  <1>5. reader[c[1]].at # "none"
    BY <1>2, <1>4 DEF IInv, Stream, FromReader
  <1> QED BY <1>1, <1>2, <1>5 DEF Requests

(* The panel hears only the session of its request, and never while it       *)
(* buffers.                                                                 *)
LEMMA HeardBy ==
    ASSUME IInv, NEW s \in Session, Hears(panel, s)
    PROVE  panel.mounted /\ Mounted /\ ~panel.buffering /\ panel.request = s
  <1>1. panel.mounted /\ Mounted
    <2>1. NoPanel.hears = {}
      BY DEF NoPanel
    <2> QED BY <2>1 DEF IInv, Panels, Unmounted, Hears
  <1>2. panel.request = s
    <2>1. s # None
      BY Sessions
    <2> QED BY <1>1, <2>1 DEF Hears, matchesTerminalEvent, Mounted
  <1>3. s = 1 \/ s > 1
    BY Sessions
  <1>4. ~panel.buffering
    BY <1>1, <1>2, <1>3 DEF Hears, Mounted
  <1> QED BY <1>1, <1>2, <1>4

LEMMA HandleClosedKeeps ==
    ASSUME IInv, HandleEvent, Head(events).kind = "closed"
    PROVE  IInv'
  <1> DEFINE e == Head(events)
  <1>1. /\ UNCHANGED <<reader, connect, screen, odd>>
        /\ events # <<>> /\ events' = Tail(events) /\ HandleClosed(e)
    BY DEF HandleEvent
  <1>2. UNCHANGED <<capture, tab, queue>>
    BY <1>1 DEF HandleClosed
  <1>3. Tabs /\ Requests /\ Panels /\ Taking /\ InLine /\ Delivered /\ TypeOK
        /\ Stream(reader, events, Came) /\ Streams(reader, events, Came)
    BY Streaming DEF IInv
  <1>4. panel' = panel \/ (panel.mounted /\ panel' = [panel EXCEPT !.session = None])
    <2>1. NoPanel.hears = {}
      BY DEF NoPanel
    <2> QED BY <1>1, <1>3, <2>1 DEF HandleClosed, Panels, Unmounted
  <1>5. /\ panel' \in PanelState /\ panel'.mounted = panel.mounted
        /\ panel'.hears = panel.hears /\ panel'.ready = panel.ready
        /\ panel'.buffering = panel.buffering /\ panel'.startup = panel.startup
        /\ panel'.written = panel.written /\ panel'.session \in {panel.session, None}
        /\ panel'.request = panel.request /\ panel'.reconnecting = panel.reconnecting
        /\ panel'.was = panel.was /\ panel'.wasRequest = panel.wasRequest
        /\ ~panel.mounted => panel' = panel
    <2>1. panel \in PanelState
      BY <1>3 DEF TypeOK
    <2> QED BY <1>4, <2>1 DEF PanelState
  <1>6. Came' = Came /\ Handed' = Handed /\ Unwritten' = Unwritten /\ Line' = Line
        /\ Stock' = Stock
    BY <1>1, <1>2, <1>5 DEF Came, Handed, InQueue, Unwritten, Line, Stock, Arrived, screen
  <1>7. /\ Stream(reader', events', Came') /\ events' \in Seq(Event)
        /\ Flying(events) \subseteq Flying(events')
    <2>1. Came' \subseteq Came \cup ToSet(e.data)
      BY <1>6
    <2>2. /\ Stream(reader, Tail(events), Came') /\ Tail(events) \in Seq(Event)
          /\ ToSet(e.data) = {} /\ Flying(events) \subseteq ToSet(e.data) \cup Flying(Tail(events))
      BY <1>1, <1>3, <2>1, Hearing
    <2> QED BY <1>1, <2>2
  <1>8. TypeOK'
    BY <1>1, <1>2, <1>3, <1>5, <1>7 DEF TypeOK, screen
  <1>9. SameRequests /\ Requests' /\ (Excused' <=> Excused)
    BY <1>1, <1>2, <1>3 DEF SameRequests, Requests, Excused
  <1>10. NothingLost'
    <2> SUFFICES ASSUME NEW s \in Session, Latest(s), ~Excused
                 PROVE  Printed(s)' \subseteq OnItsWay(s)' \cup Arrived'
      BY <1>9, SameLatest DEF NothingLost
    <2>1. Printed(s)' = Printed(s) /\ Reached(s) \subseteq Reached(s)'
      BY <1>1, <1>7 DEF Printed, Reached
    <2>2. Printed(s) \subseteq OnItsWay(s) \cup Arrived
      BY DEF IInv, NothingLost
    <2>3. /\ OnItsWay(s) \cup Arrived = Reached(s) \cup Stock
          /\ OnItsWay(s)' \cup Arrived' = Reached(s)' \cup Stock'
      BY Held DEF Stock
    <2> QED BY <1>6, <2>1, <2>2, <2>3
  <1>11. Tabs' /\ Taking' /\ InLine'
    <2>1. Tabs'
      BY <1>1, <1>2, <1>3, <1>5, <1>6 DEF Tabs
    <2>2. Taking' /\ InLine'
      BY <1>1, <1>2, <1>3, <1>5, <1>6 DEF Taking, InLine, Orderly
    <2> QED BY <2>1, <2>2
  <1>12. Panels'
    <2>1. CASE ~panel.mounted
      BY <1>1, <1>2, <1>3, <1>5, <2>1 DEF Panels, Unmounted, screen
    <2>2. CASE panel.mounted
      <3>1. Mounted
        BY <1>3, <2>2 DEF Panels
      <3>2. Mounted'
        BY <1>1, <1>5, <1>6, <3>1 DEF Mounted, Reconnecting
      <3> QED BY <1>5, <2>2, <3>2 DEF Panels
    <2> QED BY <2>1, <2>2
  <1>13. Delivered'
    BY <1>1, <1>2, <1>3, <1>5, <1>9, SameLatest DEF Delivered, Attended
  <1> QED BY <1>7, <1>8, <1>9, <1>10, <1>11, <1>12, <1>13 DEF IInv

LEMMA HandleOutputKeeps ==
    ASSUME IInv, Begun, HandleEvent, Head(events).kind = "output"
    PROVE  IInv'
  <1> DEFINE e == Head(events)
             x == e.data
             captured == capture.on /\ e.session = 1
             heard == Hears(panel, e.session)
  <1>1. /\ UNCHANGED <<reader, connect, screen, odd>>
        /\ events # <<>> /\ events' = Tail(events) /\ HandleOutput(e)
    BY DEF HandleEvent
  <1>2. Tabs /\ Requests /\ Panels /\ Taking /\ InLine /\ Delivered /\ TypeOK
        /\ Stream(reader, events, Came) /\ Streams(reader, events, Came)
    BY Streaming DEF IInv
  <1>3. /\ e \in Event /\ Sorted(x) /\ Of(reader, ToSet(x), e.session)
        /\ Ahead(Came, ToSet(x)) /\ Tail(events) \in Seq(Event)
        /\ Flying(events) \subseteq ToSet(x) \cup Flying(Tail(events))
    <2>1. Came \subseteq Came \cup ToSet(e.data)
      OBVIOUS
    <2> QED BY <1>1, <1>2, <2>1, Hearing
  <1>4. /\ e.session \in Session /\ x \in Seq(Chunk) /\ ToSet(x) \subseteq Chunk
        /\ \A c \in ToSet(x) : /\ c[1] = e.session /\ c[1] \in Nat /\ c[2] \in Nat
                               /\ c[2] >= 1 /\ c[2] <= reader[e.session].sent
    <2>1. e.session \in Session /\ x \in Seq(Chunk)
      BY <1>3 DEF Event
    <2>2. ToSet(x) \subseteq Chunk
      BY <2>1, ToSetType
    <2> QED BY <1>3, <2>1, <2>2, ChunkNumbers DEF Of
  <1>5. heard => panel.mounted /\ Mounted /\ ~panel.buffering /\ panel.request = e.session
    BY <1>4, HeardBy
  <1>6. panel' = panel /\ queue' = IF heard THEN Enqueued(queue, x) ELSE queue
    BY <1>1, <1>5 DEF HandleOutput, Write
  <1>7. /\ captured /\ tab.session = None =>
             capture' = [capture EXCEPT !.data = capture.data \o x] /\ tab' = tab
        /\ captured /\ tab.session # None =>
             tab' = [tab EXCEPT !.warmup = tab.warmup \o x] /\ capture' = capture
        /\ ~captured => tab' = tab /\ capture' = capture
    BY <1>1 DEF HandleOutput, Captured
  <1> HIDE DEF e, x
  <1>8. /\ capture.data \in Seq(Chunk) /\ tab.warmup \in Seq(Chunk) /\ queue.chunks \in Seq(Chunk)
        /\ Unwritten \in Seq(Chunk) /\ panel.written \in Nat
    BY <1>2, Types
  <1>9. /\ capture.data \o x \in Seq(Chunk) /\ tab.warmup \o x \in Seq(Chunk)
        /\ ToSet(capture.data \o x) = ToSet(capture.data) \cup ToSet(x)
        /\ ToSet(tab.warmup \o x) = ToSet(tab.warmup) \cup ToSet(x)
        /\ ToSet(queue.chunks \o x) = ToSet(queue.chunks) \cup ToSet(x)
        /\ ToSet(Unwritten \o x) = ToSet(Unwritten) \cup ToSet(x)
    BY <1>4, <1>8, CatSet
  <1>10. /\ capture' \in CaptureState /\ capture'.on = capture.on
         /\ capture'.grace = capture.grace
         /\ capture'.data = IF captured /\ tab.session = None THEN capture.data \o x
                                                             ELSE capture.data
    <2>1. capture \in CaptureState
      BY <1>2 DEF TypeOK
    <2>2. CASE captured /\ tab.session = None
      BY <1>7, <1>9, <2>1, <2>2 DEF CaptureState
    <2>3. CASE ~(captured /\ tab.session = None)
      BY <1>7, <2>1, <2>3
    <2> QED BY <2>2, <2>3
  <1>11. /\ tab' \in TabState /\ tab'.open = tab.open /\ tab'.session = tab.session
         /\ tab'.warmup = IF captured /\ tab.session # None THEN tab.warmup \o x
                                                            ELSE tab.warmup
    <2>1. tab \in TabState
      BY <1>2 DEF TypeOK
    <2>2. CASE captured /\ tab.session # None
      BY <1>7, <1>9, <2>1, <2>2 DEF TabState
    <2>3. CASE ~(captured /\ tab.session # None)
      BY <1>7, <2>1, <2>3
    <2> QED BY <2>2, <2>3
  <1>12. /\ queue' \in QueueState /\ queue'.writing = queue.writing
         /\ queue'.disposed = queue.disposed
         /\ queue'.chunks = IF heard /\ ~queue.disposed THEN queue.chunks \o x
                                                        ELSE queue.chunks
    BY <1>2, <1>4, <1>6, EnqueuedFields DEF TypeOK
  <1> HIDE DEF heard, captured
  <1>13. TypeOK'
    BY <1>1, <1>2, <1>3, <1>6, <1>10, <1>11, <1>12 DEF TypeOK, screen
  <1>14. /\ Handed \subseteq Handed' /\ Handed' \subseteq Handed \cup ToSet(x)
         /\ ~captured => Handed' = Handed
         /\ Came' \subseteq Came \cup ToSet(x)
         /\ ~captured /\ ~heard => Came' = Came
    BY <1>1, <1>6, <1>9, <1>10, <1>11, <1>12 DEF Came, Handed, InQueue, screen
  <1>15. Stream(reader', events', Came')
    BY <1>1, <1>2, <1>14, Hearing DEF x, e
  <1>16. SameRequests /\ Requests' /\ (Excused' <=> Excused)
    BY <1>1, <1>2, <1>11, <1>12 DEF SameRequests, Requests, Excused
  <1>17. /\ captured => capture.on /\ e.session = 1 /\ tab.open
         /\ heard => tab.open /\ tab.session # None /\ capture.data = <<>>
    BY <1>2, <1>5 DEF captured, Tabs
  <1>18. Tabs'
    <2>1. \A c \in Handed' : c[1] = 1
      BY <1>2, <1>4, <1>14, <1>17 DEF Tabs
    <2>2. ~captured => capture'.data = capture.data
      BY <1>10
    <2>3. ~heard => queue'.chunks = queue.chunks
      BY <1>12
    <2> QED BY <1>1, <1>2, <1>6, <1>10, <1>11, <1>12, <1>17, <2>1, <2>2, <2>3 DEF Tabs
  <1>19. Panels'
    <2>1. CASE ~panel.mounted
      BY <1>1, <1>2, <1>5, <1>6, <1>11, <1>12, <2>1 DEF Panels, Unmounted, screen
    <2>2. CASE panel.mounted
      <3>1. Mounted
        BY <1>2, <2>2 DEF Panels
      <3>2. \A c \in Came' : c[1] <= panel.request
        <4>1. panel.request \in Nat /\ panel.request >= 1
          BY <3>1, Sessions DEF Mounted
        <4>2. CASE captured
          BY <1>4, <1>14, <1>17, <3>1, <4>1, <4>2 DEF Mounted
        <4>3. CASE heard
          BY <1>4, <1>5, <1>14, <3>1, <4>1, <4>3 DEF Mounted
        <4>4. CASE ~captured /\ ~heard
          BY <1>14, <3>1, <4>4 DEF Mounted
        <4> QED BY <4>2, <4>3, <4>4
      <3>3. Mounted'
        BY <1>1, <1>6, <3>1, <3>2 DEF Mounted, Reconnecting
      <3> QED BY <1>6, <2>2, <3>3 DEF Panels
    <2> QED BY <2>1, <2>2
  <1>20. /\ captured /\ tab.session # None /\ "hasty" \notin odd =>
              Unwritten' = Unwritten \o x /\ panel.written <= Len(tab'.warmup)
         /\ ~(captured /\ tab.session # None) => Unwritten' = Unwritten
    <2>1. ~(captured /\ tab.session # None) => Unwritten' = Unwritten
      BY <1>6, <1>11 DEF Unwritten
    <2>2. ASSUME captured, tab.session # None, "hasty" \notin odd
          PROVE  Unwritten' = Unwritten \o x /\ panel.written <= Len(tab'.warmup)
      <3>1. panel.written <= Len(tab.warmup)
        BY <1>2, <1>17, <2>2 DEF Taking
      <3>2. panel.written \in 0..Len(tab.warmup)
        BY <1>8, <3>1
      <3>3. tab'.warmup = tab.warmup \o x
        BY <1>11, <2>2
      <3>4. SubSeq(tab.warmup \o x, panel.written + 1, Len(tab.warmup \o x)) =
              SubSeq(tab.warmup, panel.written + 1, Len(tab.warmup)) \o x
        BY <1>4, <1>8, <3>2, RestOfCat
      <3>5. Unwritten' = Unwritten \o x
        BY <1>6, <3>3, <3>4 DEF Unwritten
      <3>6. Len(tab.warmup \o x) = Len(tab.warmup) + Len(x)
            /\ Len(x) \in Nat /\ Len(tab.warmup) \in Nat
        BY <1>4, <1>8
      <3> QED BY <1>8, <3>1, <3>3, <3>5, <3>6
    <2> QED BY <2>1, <2>2
  <1>21. Taking'
    <2>1. capture.on /\ ~(captured /\ tab.session # None) /\ "hasty" \notin odd =>
            panel.written <= Len(tab'.warmup)
      BY <1>2, <1>11 DEF Taking
    <2>2. ~capture.on => ~captured
      BY <1>17
    <2> QED BY <1>1, <1>2, <1>6, <1>10, <1>11, <1>20, <2>1, <2>2 DEF Taking
  <1>22. InLine'
    <2> SUFFICES ASSUME Orderly
                 PROVE  /\ Line'
                        /\ panel.mounted /\ ~panel.buffering => Unwritten' = <<>> /\ ~capture'.on
      BY <1>1, <1>6 DEF InLine, Orderly
    <2>1. /\ panel.mounted /\ ~panel.buffering => Unwritten = <<>> /\ ~capture.on
          /\ InOrder(shown, queue.writing, queue.chunks, panel.startup, Unwritten, capture.data)
          /\ "hasty" \notin odd
      BY <1>2 DEF InLine, Line, Orderly
    <2>2. panel.mounted /\ ~panel.buffering => Unwritten' = <<>> /\ ~capture'.on
      BY <1>10, <1>17, <1>20, <2>1
    <2>3. ASSUME heard
          PROVE  Line'
      <3>1. /\ panel.mounted /\ Mounted /\ ~panel.buffering /\ panel.request = e.session
            /\ Unwritten = <<>> /\ ~capture.on /\ ~captured /\ capture.data = <<>>
            /\ panel.startup = <<>>
        BY <1>5, <1>17, <2>1, <2>3 DEF Mounted
      <3>2. InOrder(shown, queue.writing, queue.chunks, <<>>, <<>>, <<>>)
            /\ Stages(shown, queue.writing, queue.chunks, <<>>, <<>>, <<>>)
        BY <1>2, <2>1, <3>1, Line6
      <3>3. Below(Came, ToSet(x))
        <4> SUFFICES ASSUME NEW c \in Came, NEW d \in ToSet(x)
                     PROVE  Before(c, d)
          BY DEF Below
        <4>1. c[1] \in Nat /\ c[1] <= d[1] /\ d[1] \in Nat
          BY <1>4, <3>1, CameFrom DEF Mounted
        <4>2. c[1] = d[1] => c[2] < d[2]
          BY <1>3 DEF Ahead
        <4> QED BY <4>1, <4>2 DEF Before
      <3>4. Below(ToSet(shown) \cup ToSet(queue.writing) \cup ToSet(queue.chunks), ToSet(x))
        BY <3>3 DEF Below, Came, InQueue
      <3>5. InOrder(shown, queue.writing, queue.chunks \o x, <<>>, <<>>, <<>>)
        BY <1>3, <1>4, <3>2, <3>4, AddsToQueue DEF x
      <3>6. /\ shown' = shown /\ queue'.writing = queue.writing /\ panel'.startup = <<>>
            /\ Unwritten' = <<>> /\ capture'.data = <<>>
            /\ queue'.chunks \in {queue.chunks, queue.chunks \o x}
        BY <1>1, <1>6, <1>10, <1>12, <1>20, <3>1 DEF screen
      <3> QED BY <3>2, <3>5, <3>6 DEF Line
    <2>4. ASSUME captured, ~heard
          PROVE  Line'
      <3>1. \A c \in Came : c[1] = 1
        <4> SUFFICES ASSUME NEW c \in Came, c[1] # 1
                     PROVE  FALSE
          OBVIOUS
        <4>1. c[1] \in Session /\ c[1] > 1 /\ connect[c[1]] # "none"
          BY CameFrom, Sessions
        <4> QED BY <1>2, <1>17, <2>1, <2>4, <4>1 DEF Taking
      <3>2. Below(Came, ToSet(x))
        <4> SUFFICES ASSUME NEW c \in Came, NEW d \in ToSet(x)
                     PROVE  Before(c, d)
          BY DEF Below
        <4>1. c[1] = d[1]
          BY <1>4, <1>17, <2>4, <3>1
        <4>2. c[1] = d[1] => c[2] < d[2]
          BY <1>3 DEF Ahead
        <4> QED BY <4>1, <4>2 DEF Before
      <3>3. ToSet(Unwritten) \subseteq ToSet(tab.warmup)
        BY <1>2, Types
      <3>4. Below(ToSet(shown) \cup ToSet(queue.writing) \cup ToSet(queue.chunks)
                    \cup ToSet(panel.startup) \cup ToSet(Unwritten) \cup ToSet(capture.data),
                  ToSet(x))
        BY <3>2, <3>3 DEF Below, Came, InQueue, Handed
      <3>5. /\ shown' = shown /\ queue'.writing = queue.writing
            /\ panel'.startup = panel.startup /\ queue'.chunks = queue.chunks
        BY <1>1, <1>6, <1>12, <2>4 DEF screen
      <3>6. Stages(shown, queue.writing, queue.chunks, panel.startup, Unwritten, capture.data)
        BY <1>2, Line6
      <3>7. CASE tab.session = None
        <4>1. InOrder(shown, queue.writing, queue.chunks, panel.startup, Unwritten,
                      capture.data \o x)
          BY <1>3, <1>4, <2>1, <3>4, <3>6, AddsToCapture DEF x
        <4>2. capture'.data = capture.data \o x /\ Unwritten' = Unwritten
          BY <1>10, <1>20, <2>4, <3>7
        <4> QED BY <3>5, <4>1, <4>2 DEF Line
      <3>8. CASE tab.session # None
        <4>1. capture.data = <<>> /\ capture'.data = <<>>
          BY <1>2, <1>10, <3>8 DEF Tabs
        <4>2. /\ InOrder(shown, queue.writing, queue.chunks, panel.startup, Unwritten, <<>>)
              /\ Stages(shown, queue.writing, queue.chunks, panel.startup, Unwritten, <<>>)
          BY <2>1, <3>6, <4>1
        <4>3. Below(ToSet(shown) \cup ToSet(queue.writing) \cup ToSet(queue.chunks)
                      \cup ToSet(panel.startup) \cup ToSet(Unwritten), ToSet(x))
          BY <3>4 DEF Below
        <4>4. InOrder(shown, queue.writing, queue.chunks, panel.startup, Unwritten \o x, <<>>)
          BY <1>3, <1>4, <4>2, <4>3, AddsToTab DEF x
        <4>5. Unwritten' = Unwritten \o x
          BY <1>20, <2>1, <2>4, <3>8
        <4> QED BY <3>5, <4>1, <4>4, <4>5 DEF Line
      <3> QED BY <3>7, <3>8
    <2>5. ASSUME ~captured, ~heard
          PROVE  Line'
      BY <1>1, <1>6, <1>10, <1>12, <1>20, <2>1, <2>5 DEF Line, screen
    <2> QED BY <2>2, <2>3, <2>4, <2>5
  <1>23. Delivered'
    BY <1>1, <1>2, <1>6, <1>10, <1>16, SameLatest DEF Delivered, Attended
  <1>24. NothingLost'
    <2> SUFFICES ASSUME NEW s \in Session, Latest(s), ~Excused
                 PROVE  Printed(s)' \subseteq OnItsWay(s)' \cup Arrived'
      BY <1>16, SameLatest DEF NothingLost
    <2>1. /\ Printed(s)' = Printed(s)
          /\ Reached(s) \subseteq ToSet(x) \cup Reached(s)'
      BY <1>1, <1>3 DEF Printed, Reached, x, e
    <2>2. Printed(s) \subseteq OnItsWay(s) \cup Arrived
      BY DEF IInv, NothingLost
    <2>3. /\ OnItsWay(s) \cup Arrived = Reached(s) \cup Stock
          /\ OnItsWay(s)' \cup Arrived' = Reached(s)' \cup Stock'
      BY Held DEF Stock
    <2>4. ~queue.disposed
      BY DEF Excused
    <2>5. "hasty" \in odd => s # 1
      BY DEF Begun, Latest
    <2>6. Printed(s) \cap ToSet(Unwritten) \subseteq ToSet(Unwritten')
      <3>1. CASE "hasty" \notin odd
        BY <1>9, <1>20, <3>1
      <3>2. CASE "hasty" \in odd
        <4>1. \A c \in Printed(s) : c[1] = s
          BY DEF Printed
        <4>2. \A c \in ToSet(Unwritten) : c[1] = 1
          BY <1>2, Types DEF Tabs, Handed
        <4> QED BY <2>5, <3>2, <4>1, <4>2
      <3> QED BY <3>1, <3>2
    <2>7. Printed(s) \cap Stock \subseteq Stock'
      BY <1>1, <1>6, <1>9, <1>10, <1>12, <2>6 DEF Stock, Arrived, screen
    <2>8. Printed(s) \cap ToSet(x) \subseteq Stock'
      <3> SUFFICES ASSUME NEW c \in Printed(s), c \in ToSet(x)
                   PROVE  c \in Stock'
        OBVIOUS
      <3>1. c[1] = s /\ s = e.session
        BY <1>4 DEF Printed
      <3>2. reader[s].sent # 0
        BY <1>4, <3>1
      <3>3. reader[s].at # "none"
        BY <1>2, <3>2 DEF Stream, FromReader
      <3>4. Attended(s)
        BY <1>2 DEF Delivered
      <3>5. captured \/ heard
        BY <3>1, <3>3, <3>4 DEF Attended, captured, heard, Hears, matchesTerminalEvent, Listener
      <3>6. heard => c \in ToSet(queue'.chunks)
        BY <1>9, <1>12, <2>4
      <3>7. captured => "hasty" \notin odd
        BY <1>17, <2>5, <3>1
      <3>8. captured /\ tab.session = None => c \in ToSet(capture'.data)
        BY <1>9, <1>10
      <3>9. captured /\ tab.session # None => c \in ToSet(Unwritten')
        BY <1>9, <1>20, <3>7
      <3> QED BY <3>5, <3>6, <3>8, <3>9 DEF Stock
    <2> QED BY <2>1, <2>2, <2>3, <2>7, <2>8
  <1> QED BY <1>13, <1>15, <1>16, <1>18, <1>19, <1>21, <1>22, <1>23, <1>24 DEF IInv

-----------------------------------------------------------------------------
(* The invariant holds at first, and every step keeps it.                   *)

LEMMA InitHolds == Init => IInv
  <1> SUFFICES ASSUME Init
               PROVE  IInv
    OBVIOUS
  <1>1. /\ reader = [s \in Session |-> [at |-> "none", sent |-> 0, batch |-> <<>>]]
        /\ events = <<>> /\ panel = NoPanel /\ queue = EmptyQueue
        /\ connect = [s \in Session |-> IF s = 1 THEN "asked" ELSE "none"]
        /\ capture = [on |-> TRUE, data |-> <<>>, grace |-> FALSE]
        /\ tab = [open |-> TRUE, session |-> None, warmup |-> <<>>]
        /\ shown = <<>> /\ trimmed = {} /\ odd = {}
    BY DEF Init
  <1>2. /\ capture.on /\ capture.data = <<>> /\ ~capture.grace
        /\ tab.open /\ tab.session = None /\ tab.warmup = <<>>
        /\ ~panel.mounted /\ panel.startup = <<>> /\ panel.written = 0
        /\ queue.chunks = <<>> /\ queue.writing = <<>>
    BY <1>1 DEF NoPanel, EmptyQueue
  <1>3. \A s \in Session : reader[s].at = "none" /\ reader[s].sent = 0 /\ reader[s].batch = <<>>
    BY <1>1
  <1>4. TypeOK
    <2>1. reader \in [Session -> ReaderState]
      <3>1. [at |-> "none", sent |-> 0, batch |-> <<>>] \in ReaderState
        BY Sessions, Empty DEF ReaderState
      <3> QED BY <1>1, <3>1
    <2>2. \A s \in Session : Len(reader[s].batch) < BatchBytes
      BY <1>3, Sessions
    <2>3. capture \in CaptureState /\ tab \in TabState
      BY <1>1, Empty DEF CaptureState, TabState
    <2>4. panel \in PanelState /\ queue \in QueueState
      BY <1>1, Empty DEF PanelState, QueueState, NoPanel, EmptyQueue
    <2>5. connect \in [Session -> {"none", "asked", "opened", "refused", "done"}]
      BY <1>1
    <2>6. Len(queue.writing) <= BatchChars
      BY <1>2, Sessions
    <2>7. events \in Seq(Event) /\ shown \in Seq(Chunk) /\ trimmed \subseteq Chunk
      BY <1>1
    <2> QED BY <1>1, <2>1, <2>2, <2>3, <2>4, <2>5, <2>6, <2>7 DEF TypeOK
  <1>5. Unwritten = <<>>
    BY <1>2, Empty, RestOf DEF Unwritten
  <1>6. Came = {} /\ Handed = {}
    BY <1>1, <1>2, Empty DEF Came, Handed, InQueue
  <1>7. Stream(reader, events, Came)
    <2>1. \A s \in Session : Batch(reader, s) = {} /\ Sorted(reader[s].batch)
      BY <1>3, Empty DEF Batch
    <2>2. DOMAIN events = {}
      BY <1>1
    <2>3. FromReader(reader)
      BY <1>3, <2>1 DEF FromReader, Of
    <2>4. InFlight(reader, events)
      BY <2>2 DEF InFlight
    <2>5. AtWindow(reader, events, Came)
      BY <1>6, <2>1, <2>2 DEF AtWindow, Ahead
    <2> QED BY <2>3, <2>4, <2>5 DEF Stream
  <1>8. connect[1] = "asked" /\ \A s \in Session : s # 1 => connect[s] = "none"
    BY <1>1, Sessions
  <1>9. Requests
    <2>1. \A r, s \in Session : r < s => s # 1
      BY Sessions
    <2> QED BY <1>3, <1>8, <2>1, Sessions DEF Requests
  <1>10. Tabs
    BY <1>2, <1>6 DEF Tabs
  <1>11. Panels
    <2>1. \A s \in Session : s > 1 => connect[s] = "none"
      BY <1>8, Sessions
    <2> QED BY <1>1, <1>2, <2>1 DEF Panels, Unmounted
  <1>12. Taking
    <2>1. \A s \in Session : s > 1 => connect[s] = "none"
      BY <1>8, Sessions
    <2>2. 0 <= Len(tab.warmup)
      BY <1>2
    <2> QED BY <1>2, <2>1, <2>2 DEF Taking
  <1>13. InLine
    BY <1>1, <1>2, <1>5, Empty DEF InLine, Line, InOrder, Below
  <1>14. Delivered
    BY <1>3 DEF Delivered, Attended
  <1>15. NothingLost
    <2>1. 1..0 = {}
      OBVIOUS
    <2>2. \A s \in Session : Printed(s) = {}
      BY <1>3, <2>1 DEF Printed
    <2> QED BY <2>2 DEF NothingLost
  <1> QED BY <1>4, <1>7, <1>9, <1>10, <1>11, <1>12, <1>13, <1>14, <1>15 DEF IInv

(* The first session is asked for at the start.                             *)
LEMMA InitBegins == Init => Begun
  BY Sessions DEF Init, Begun

(* No step forgets that a session was asked for, or is hasty without one.    *)
LEMMA StepGoesOn == Begun /\ [Next]_vars => Begun'
  <1> SUFFICES ASSUME Begun, [Next]_vars
               PROVE  Begun'
    OBVIOUS
  <1>1. ASSUME NEW s \in Session, connect[s] # "none" \/ Reconnect(s),
               \E a \in {"asked", "opened", "refused", "done"} :
                 connect' = [connect EXCEPT ![s] = a],
               "hasty" \in odd' => "hasty" \in odd \/ Reconnect(s)
        PROVE  Begun'
    <2>1. s # 1 \/ ~Reconnect(s)
      BY <1>1 DEF Reconnect, Begun
    <2>2. s \in Nat /\ s >= 1
      BY Sessions
    <2>3. DOMAIN connect' = Session /\ connect'[s] # "none"
          /\ \A r \in Session : connect[r] # "none" => connect'[r] # "none"
      BY <1>1 DEF Begun
    <2> QED BY <1>1, <2>1, <2>2, <2>3, Sessions DEF Begun
  <1>2. ASSUME UNCHANGED connect, "hasty" \in odd' => "hasty" \in odd
        PROVE  Begun'
    BY <1>2 DEF Begun
  <1>3. ASSUME NEW s \in Session,
               Opens(s) \/ Refuses(s) \/ Reconnect(s) \/ Reconnected(s) \/ ReconnectFails(s)
        PROVE  Begun'
    BY <1>1, <1>3 DEF Opens, Refuses, Reconnect, Reconnected, ReconnectFails
  <1>4. ASSUME NEW s \in Session,
               Receive(s) \/ Deadline(s) \/ \E error \in BOOLEAN : Ends(s, error)
        PROVE  Begun'
    BY <1>2, <1>4 DEF Receive, Deadline, Ends
  <1>5. CASE Handoff \/ OpenFails
    BY <1>1, <1>5, Sessions DEF Handoff, OpenFails
  <1>6. CASE HandleEvent \/ GraceEnds \/ Mount \/ (\E l \in Listener : ListenerOn(l))
    BY <1>2, <1>6 DEF HandleEvent, GraceEnds, Mount, ListenerOn
  <1>7. CASE Ready \/ FlushStartup \/ Rendered \/ FlushNext
    BY <1>2, <1>7 DEF Ready, FlushStartup, Rendered, FlushNext, Behind
  <1>8. CASE Parsed \/ WriteFails \/ CloseTab \/ UNCHANGED vars
    BY <1>2, <1>8 DEF Parsed, WriteFails, CloseTab, vars
  <1> QED BY <1>3, <1>4, <1>5, <1>6, <1>7, <1>8 DEF Next

LEMMA StepKeeps == IInv /\ Begun /\ [Next]_vars => IInv'
  <1> SUFFICES ASSUME IInv, Begun, [Next]_vars
               PROVE  IInv'
    OBVIOUS
  <1>1. ASSUME NEW s \in Session,
               \/ Opens(s) \/ Refuses(s) \/ Receive(s) \/ Deadline(s)
               \/ \E error \in BOOLEAN : Ends(s, error)
               \/ Reconnect(s) \/ Reconnected(s) \/ ReconnectFails(s)
        PROVE  IInv'
    <2>1. CASE Opens(s)
      BY <2>1, OpensKeeps
    <2>2. CASE Refuses(s)
      BY <2>2, RefusesKeeps
    <2>3. CASE Receive(s)
      BY <2>3, ReceiveKeeps
    <2>4. CASE Deadline(s)
      BY <2>4, DeadlineKeeps
    <2>5. CASE \E error \in BOOLEAN : Ends(s, error)
      BY <2>5, EndsKeeps
    <2>6. CASE Reconnect(s)
      BY <2>6, ReconnectKeeps
    <2>7. CASE Reconnected(s)
      BY <2>7, ReconnectedKeeps
    <2>8. CASE ReconnectFails(s)
      BY <2>8, ReconnectFailsKeeps
    <2> QED BY <1>1, <2>1, <2>2, <2>3, <2>4, <2>5, <2>6, <2>7, <2>8
  <1>2. CASE HandleEvent
    <2>1. Head(events).kind \in {"output", "closed"}
      <3>1. events \in Seq(Event) /\ events # <<>>
        BY <1>2 DEF IInv, TypeOK, HandleEvent
      <3>2. Head(events) \in Event
        BY <3>1
      <3> QED BY <3>2 DEF Event
    <2> QED BY <1>2, <2>1, HandleOutputKeeps, HandleClosedKeeps
  <1>3. CASE Handoff
    BY <1>3, HandoffKeeps
  <1>4. CASE OpenFails
    BY <1>4, OpenFailsKeeps
  <1>5. CASE GraceEnds
    BY <1>5, GraceEndsKeeps
  <1>6. CASE Mount
    BY <1>6, MountKeeps
  <1>7. CASE Ready
    BY <1>7, ReadyKeeps
  <1>8. ASSUME NEW l \in Listener, ListenerOn(l)
        PROVE  IInv'
    BY <1>8, ListenerOnKeeps
  <1>9. CASE FlushStartup
    BY <1>9, FlushStartupKeeps
  <1>10. CASE Rendered
    BY <1>10, RenderedKeeps
  <1>11. CASE FlushNext
    BY <1>11, FlushNextKeeps
  <1>12. CASE Parsed
    BY <1>12, ParsedKeeps
  <1>13. CASE WriteFails
    BY <1>13, WriteFailsKeeps
  <1>14. CASE CloseTab
    BY <1>14, CloseTabKeeps
  <1>15. CASE UNCHANGED vars
    <2>1. UNCHANGED <<reader, events, connect, capture, tab, panel, queue, shown, trimmed, odd>>
      BY <1>15 DEF vars
    <2>2. TypeOK' /\ Requests' /\ Delivered' /\ SameRequests
      BY <2>1 DEF IInv, TypeOK, Requests, Delivered, Attended, Latest, Excused, SameRequests
    <2>3. Came' = Came /\ Handed' = Handed /\ Unwritten' = Unwritten /\ Line' = Line
          /\ Stock' = Stock
      BY <2>1 DEF Came, Handed, InQueue, Unwritten, Line, Stock, Arrived
    <2>4. Stream(reader', events', Came') /\ NothingLost'
      BY <2>1, <2>2, <2>3, Stays DEF Excused
    <2>5. Tabs' /\ Taking' /\ InLine'
      BY <2>1, <2>3 DEF IInv, Tabs, Taking, InLine, Orderly
    <2>6. Panels'
      BY <2>1, <2>3 DEF IInv, Panels, Mounted, Unmounted, Reconnecting
    <2> QED BY <2>2, <2>4, <2>5, <2>6 DEF IInv
  <1> QED BY <1>1, <1>2, <1>3, <1>4, <1>5, <1>6, <1>7, <1>8, <1>9, <1>10, <1>11, <1>12,
             <1>13, <1>14, <1>15 DEF Next

-----------------------------------------------------------------------------
(* The theorems.                                                           *)

(* Every reachable state satisfies the invariant, for every number of         *)
(* sessions and chunks and every size of the batches.                        *)
THEOREM Invariance == Spec => []IInv
  BY InitHolds, InitBegins, StepKeeps, StepGoesOn, PTL DEF Spec

(* The batches of the reader stay below TERMINAL_OUTPUT_BATCH_MAX_BYTES and    *)
(* those of the write queue within TERMINAL_OUTPUT_BATCH_MAX_CHARS, and the    *)
(* state of the window has its types.                                        *)
THEOREM TypeCorrect == Spec => []TypeOK
  <1>1. IInv => TypeOK
    BY DEF IInv
  <1> QED BY <1>1, Invariance, PTL

(* The two ways of the first output, the startup buffer of the panel and its   *)
(* write queue show what was printed in its order and each chunk once, but     *)
(* for the three orders that `odd' names.                                    *)
THEOREM AlwaysShownInOrder == Spec => []ShownInOrder
  <1>1. IInv => ShownInOrder
    <2> SUFFICES ASSUME IInv, Orderly
                 PROVE  \A i \in 1..(Len(shown) - 1) : Before(shown[i], shown[i + 1])
      BY DEF ShownInOrder, Orderly
    <2>1. Sorted(shown) /\ TypeOK
      BY DEF IInv, InLine, Line, InOrder
    <2> QED BY <2>1, Line6
  <1> QED BY <1>1, Invariance, PTL

(* Nothing that the latest session prints is dropped between the reader and    *)
(* the screen: the tab captures it until the panel listens and writes, and     *)
(* no handoff, timer or reconnection leaves a gap.                           *)
THEOREM NothingEverLost == Spec => []NothingLost
  <1>1. IInv => NothingLost
    BY DEF IInv
  <1> QED BY <1>1, Invariance, PTL
=============================================================================
