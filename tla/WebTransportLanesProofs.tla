----------------------- MODULE WebTransportLanesProofs -----------------------
(***************************************************************************)
(* A WebTransport session restores the order of the frames written to it,  *)
(* takes no correct peer for a faulty one and releases its lanes, for any  *)
(* number of streams, frames and lanes and any reorder limit: the inductive *)
(* invariant of WebTransportLanes, the invariants its run checks and the   *)
(* refinement of LossyFifo.                                                *)
(*                                                                         *)
(* The invariant says of every record on its way which frame it stands for *)
(* and that its lane is the right one for that frame (Good).  Nothing else *)
(* has to be known of the lanes: whatever is read next, in whatever order, *)
(* is accepted.                                                            *)
(***************************************************************************)
EXTENDS WebTransportLanes, SequenceTheorems, FiniteSetTheorems, TLAPS

FrameTypes ==
  {"SETUP", "RESUME", "RESUME_OK", "KEEPALIVE", "METADATA_PUSH", "REQUEST_FNF", "PAYLOAD",
   "REQUEST_CHANNEL", "REQUEST_N", "CANCEL", "ERROR", "SKIPPED"}

AnyFrame == [type : FrameTypes, stream : Nat, follows : BOOLEAN, complete : BOOLEAN]
Records == [ordinal : Nat, frame : AnyFrame]

InteractionLanes == {Lane("interaction", e, k) : e \in Endpoints, k \in 1..MaxLanes}
AllLanes == Lanes \cup {Datagram(e) : e \in Endpoints}

Entries ==
  [lane : {Control} \cup InteractionLanes,
   type : {"none", "unknown", "REQUEST_STREAM", "REQUEST_CHANNEL"},
   local : BOOLEAN, remote : BOOLEAN]

HeldRecords == [lane : AllLanes, frame : AnyFrame]
PendingMaps == UNION {[D -> HeldRecords] : D \in SUBSET Nat}
LaneMaps == UNION {[D -> Streams] : D \in SUBSET InteractionLanes}

\* TypeOK without the bounds, and types of what it leaves out.
Types ==
  /\ resumed \in BOOLEAN /\ unreliable \in BOOLEAN
  /\ phase \in [Endpoints -> {"connecting", "opening", "ready", "closed", "failed"}]
  /\ subscribed \in [Endpoints -> BOOLEAN] /\ control \in [Endpoints -> BOOLEAN]
  /\ nextOut \in [Endpoints -> Nat] /\ opened \in [Endpoints -> 0..MaxLanes]
  /\ interactions \in [Endpoints -> [Streams -> Entries]]
  /\ laneStream \in [Endpoints -> LaneMaps]
  /\ finished \in [Endpoints -> SUBSET InteractionLanes]
  /\ outFnf \in [Endpoints -> SUBSET {5}] /\ inFnf \in [Endpoints -> SUBSET {5}]
  /\ datagrams \in [Endpoints -> Seq(Records)]
  /\ wire \in [Endpoints -> [Lanes -> Seq(Records)]]
  /\ air \in [Endpoints -> SUBSET Records]
  /\ nextIn \in [Endpoints -> Nat]
  /\ pending \in [Endpoints -> PendingMaps]
  /\ draining \in [Endpoints -> BOOLEAN]
  /\ written \in [Endpoints -> Seq(Frames)]
  /\ delivered \in [Endpoints -> Seq(AnyFrame)]

(***************************************************************************)
(* Ordinals: what has been delivered are the frames written, up to the     *)
(* next ordinal expected.                                                  *)
(***************************************************************************)
\* f is the frame written at an ordinal, or the notice of its loss.
Stands(frames, ordinal, f) ==
  /\ ordinal < Len(frames)
  /\ f \in {frames[ordinal + 1], Skip(frames[ordinal + 1])}

WriterInv ==
  \A w \in Endpoints :
    /\ nextOut[w] = Len(written[w]) /\ Len(written[w]) <= Bound(w)
    /\ opened[w] <= Len(written[w])

ReaderInv ==
  \A e \in Endpoints :
    /\ nextIn[e] = Len(delivered[e])
    /\ Len(delivered[e]) <= Len(written[Peer(e)])
    /\ \A i \in 1..Len(delivered[e]) : Stands(written[Peer(e)], i - 1, delivered[e][i])
    /\ draining[e] => IsOpen(e) /\ nextIn[e] \in DOMAIN pending[e]
    /\ \A o \in DOMAIN pending[e] : o >= nextIn[e] /\ (o = nextIn[e] => draining[e])

(***************************************************************************)
(* Records on their way: each stands for its frame, on a lane that may     *)
(* carry it.                                                               *)
(***************************************************************************)
\* streams are the lanes of the writer, best says whether datagrams are in use.
Routed(streams, best, lane, f) ==
  /\ lane.kind = "datagram" => f.type = "REQUEST_FNF" /\ ~f.follows /\ best
  /\ lane.kind = "control" => IsControlFrame(f) \/ (f.type = "SKIPPED" /\ best)
  /\ lane.kind = "reliable" =>
       \/ f.type \in {"METADATA_PUSH", "REQUEST_FNF"}
       \/ f.type = "PAYLOAD" /\ f.stream = 5
  /\ lane.kind = "interaction" =>
       /\ IsInteractionFrame(f)
       /\ lane \in DOMAIN streams /\ streams[lane] = f.stream

Good(frames, streams, best, lane, ordinal, f) ==
  Stands(frames, ordinal, f) /\ Routed(streams, best, lane, f)

TransitInv ==
  \A w \in Endpoints :
    LET GoodHere(lane, ordinal, f) ==
          Good(written[w], laneStream[w], unreliable, lane, ordinal, f)
    IN /\ \A lane \in Lanes : \A i \in 1..Len(wire[w][lane]) :
            GoodHere(lane, wire[w][lane][i].ordinal, wire[w][lane][i].frame)
       /\ \A i \in 1..Len(datagrams[w]) :
            GoodHere(Datagram(w), datagrams[w][i].ordinal, datagrams[w][i].frame)
       /\ \A r \in air[w] : GoodHere(Datagram(w), r.ordinal, r.frame)
       /\ \A o \in DOMAIN pending[Peer(w)] :
            GoodHere(pending[Peer(w)][o].lane, o, pending[Peer(w)][o].frame)

(***************************************************************************)
(* Fragmented FNF requests: one first fragment, then its last one.         *)
(***************************************************************************)
FirstFragment(f) == f.type = "REQUEST_FNF" /\ f.follows
LastFragment(f) == f.type = "PAYLOAD" /\ f.stream = 5

FnfUnderWay(frames) ==
  /\ \E i \in 1..Len(frames) : FirstFragment(frames[i])
  /\ \A i \in 1..Len(frames) : ~LastFragment(frames[i])

WellFragmented(frames) ==
  /\ \A i \in 1..Len(frames) : LastFragment(frames[i]) =>
       \E j \in 1..(i - 1) : FirstFragment(frames[j])
  /\ \A i \in 1..Len(frames) : LastFragment(frames[i]) =>
       \A j \in 1..Len(frames) : j > i => ~FirstFragment(frames[j]) /\ ~LastFragment(frames[j])

FragmentInv ==
  \A e \in Endpoints :
    /\ WellFragmented(written[e])
    /\ ~IsClosing(e) => (5 \in outFnf[e] <=> FnfUnderWay(written[e]))
    /\ ~IsClosing(e) => (5 \in inFnf[e] <=> FnfUnderWay(delivered[e]))

(***************************************************************************)
(* Lanes: both ends agree which stream one belongs to.                     *)
(***************************************************************************)
LaneInv ==
  /\ \A e \in Endpoints :
       /\ \A lane \in DOMAIN laneStream[e] : lane.k <= opened[lane.opener]
       /\ \A lane \in DOMAIN laneStream[e] \cap DOMAIN laneStream[Peer(e)] :
            laneStream[e][lane] = laneStream[Peer(e)][lane]
       /\ finished[e] \subseteq DOMAIN laneStream[e]
  /\ \A e \in Endpoints, s \in Streams : interactions[e][s] # NoInteraction =>
       /\ interactions[e][s].lane \in DOMAIN laneStream[e] \ finished[e]
       /\ laneStream[e][interactions[e][s].lane] = s

(***************************************************************************)
(* Interactions begun on this transport: one lane for each, known at an    *)
(* end as long as the interaction is not over there.                       *)
(***************************************************************************)
Starts(f, s) == f.type = "REQUEST_CHANNEL" /\ f.stream = s

\* The requester begins every interaction, once, before anything else of it;
\* the responder answers.
RequestInv ==
  \A s \in Streams :
    /\ \A i \in 1..Len(written["responder"]) :
         /\ ~Starts(written["responder"][i], s)
         /\ written["responder"][i].stream = s =>
              SeqHas(delivered["responder"], s, {"REQUEST_CHANNEL"})
    /\ \A i \in 1..Len(written["requester"]) : written["requester"][i].stream = s =>
         \E j \in 1..i : Starts(written["requester"][j], s)
    /\ \A i, j \in 1..Len(written["requester"]) :
         Starts(written["requester"][i], s) /\ Starts(written["requester"][j], s) => i = j

\* Begun and Over of an end that has written and been given these frames.
Began(out, in, s) == SeqHas(out, s, {"REQUEST_CHANNEL"}) \/ SeqHas(in, s, {"REQUEST_CHANNEL"})

Finished(out, in, s) ==
  \/ SeqHas(out, s, {"CANCEL", "ERROR"}) \/ SeqHas(in, s, {"CANCEL", "ERROR"})
  \/ Ended(out, s) /\ Ended(in, s)

\* The entry x of a stream is what these frames have made of it.
Kept(x, out, in, s) ==
  /\ x # NoInteraction <=> Began(out, in, s) /\ ~Finished(out, in, s)
  /\ x # NoInteraction =>
       /\ x.type = "REQUEST_CHANNEL"
       /\ x.local <=> Ended(out, s)
       /\ x.remote <=> Ended(in, s)

OneLaneInv ==
  /\ \A e \in Endpoints, s \in Streams :
       Began(written[e], delivered[e], s) <=> \E lane \in DOMAIN laneStream[e] : laneStream[e][lane] = s
  /\ \A a, b \in Endpoints : \A l \in DOMAIN laneStream[a], m \in DOMAIN laneStream[b] :
       laneStream[a][l] = laneStream[b][m] => l = m
  /\ \A e \in Endpoints : ~IsClosing(e) => \A lane \in DOMAIN laneStream[e] :
       interactions[e][laneStream[e][lane]] = NoInteraction => lane \in finished[e]

KeptInv ==
  \A e \in Endpoints, s \in Streams : ~IsClosing(e) => Kept(interactions[e][s], written[e], delivered[e], s)

LifeInv == ~resumed => RequestInv /\ KeptInv /\ OneLaneInv

IInv ==
  /\ Types /\ WriterInv /\ ReaderInv /\ TransitInv /\ FragmentInv /\ LaneInv /\ LifeInv

(***************************************************************************)
(* Ends, frames and lanes.                                                 *)
(***************************************************************************)
LEMMA PeerFacts ==
  ASSUME NEW e \in Endpoints
  PROVE  /\ Peer(e) \in Endpoints /\ Peer(e) # e /\ Peer(Peer(e)) = e
         /\ \A x \in Endpoints : x = e \/ x = Peer(e)
BY DEF Endpoints, Peer

LEMMA FrameFacts ==
  ASSUME NEW f \in Frames
  PROVE  /\ f \in AnyFrame /\ f.type # "SKIPPED"
         /\ f.follows => f.type = "REQUEST_FNF" /\ f.stream = 5
         /\ f.type = "REQUEST_FNF" /\ ~f.follows => f.stream = 3
         /\ f.type \in {"SETUP", "RESUME", "RESUME_OK", "KEEPALIVE", "METADATA_PUSH"} => f.stream = 0
         /\ f.type \in {"REQUEST_CHANNEL", "REQUEST_N", "CANCEL", "ERROR"} => f.stream \in Streams
         /\ f.type = "PAYLOAD" => f.stream = 5 \/ f.stream \in Streams
         /\ f.type # "REQUEST_STREAM"
<1>1. CASE \E t \in {"SETUP", "RESUME", "RESUME_OK", "KEEPALIVE", "METADATA_PUSH"} :
             f = Frame(t, 0, FALSE, FALSE)
  BY <1>1 DEF Frame, AnyFrame, FrameTypes
<1>2. CASE f = Frame("REQUEST_FNF", 3, FALSE, FALSE)
  BY <1>2 DEF Frame, AnyFrame, FrameTypes
<1>5. CASE f = Frame("REQUEST_FNF", 5, TRUE, FALSE)
  BY <1>5 DEF Frame, AnyFrame, FrameTypes
<1>6. CASE f = Frame("PAYLOAD", 5, FALSE, FALSE)
  BY <1>6 DEF Frame, AnyFrame, FrameTypes
<1>3. CASE \E t \in {"REQUEST_CHANNEL", "REQUEST_N", "CANCEL", "ERROR"}, s \in Streams :
             f = Frame(t, s, FALSE, FALSE)
  BY <1>3, LanesAssumption DEF Frame, AnyFrame, FrameTypes
<1>4. CASE \E t \in {"REQUEST_CHANNEL", "PAYLOAD"}, s \in Streams : f = Frame(t, s, FALSE, TRUE)
  BY <1>4, LanesAssumption DEF Frame, AnyFrame, FrameTypes
<1> QED BY <1>1, <1>2, <1>3, <1>4, <1>5, <1>6 DEF Frames, Frame

LEMMA StreamFacts ==
  ASSUME NEW s \in Streams
  PROVE  s \in Nat /\ s # 0 /\ s # 3 /\ s # 5
BY LanesAssumption

LEMMA SkipFacts ==
  ASSUME NEW f \in Frames
  PROVE  /\ Skip(f) \in AnyFrame
         /\ Skip(f).stream = f.stream /\ Skip(f).follows = f.follows /\ Skip(f).complete = f.complete
         /\ f.type = "REQUEST_FNF" /\ ~f.follows => Skip(f).type = "SKIPPED"
         /\ ~(f.type = "REQUEST_FNF" /\ ~f.follows) => Skip(f) = f
<1>1. f \in AnyFrame
  BY FrameFacts
<1>2. "SKIPPED" \in FrameTypes
  BY DEF FrameTypes
<1> QED BY <1>1, <1>2 DEF Skip, AnyFrame

\* What a record says of its frame when it is not the notice of a loss.
LEMMA NotSkipped ==
  ASSUME NEW f \in Frames, NEW g \in {f, Skip(f)}
  PROVE  /\ g \in AnyFrame
         /\ g.stream = f.stream /\ g.follows = f.follows /\ g.complete = f.complete
         /\ g.type # "SKIPPED" => g = f
         /\ g.type = "SKIPPED" => f.type = "REQUEST_FNF" /\ ~f.follows
BY FrameFacts, SkipFacts

LEMMA LaneFacts ==
  /\ Control \in Lanes /\ Control \in AllLanes /\ Control.kind = "control"
  /\ \A e \in Endpoints : /\ Reliable(e) \in Lanes /\ Reliable(e).kind = "reliable"
                          /\ Datagram(e) \in AllLanes /\ Datagram(e).kind = "datagram"
  /\ Lanes \subseteq AllLanes /\ InteractionLanes \subseteq Lanes
  /\ Control \notin InteractionLanes
  /\ \A lane \in Lanes : lane.kind \in {"control", "reliable", "interaction"}
  /\ \A lane \in AllLanes : lane.kind \in {"control", "reliable", "interaction", "datagram"}
  /\ \A lane \in AllLanes : lane.kind = "interaction" <=> lane \in InteractionLanes
  /\ \A lane \in InteractionLanes : lane.opener \in Endpoints /\ lane.k \in 1..MaxLanes
<1>1. /\ Control \in Lanes /\ Control.kind = "control"
      /\ \A e \in Endpoints : /\ Reliable(e) \in Lanes /\ Reliable(e).kind = "reliable"
                              /\ Datagram(e) \in AllLanes /\ Datagram(e).kind = "datagram"
      /\ Lanes \subseteq AllLanes
  <2>1. Control \in Lanes /\ Lanes \subseteq AllLanes
    BY DEF Lanes, AllLanes
  <2>2. \A e \in Endpoints : Reliable(e) \in Lanes /\ Datagram(e) \in AllLanes
    BY DEF Lanes, AllLanes
  <2>3. Control.kind = "control"
    BY DEF Control, Lane
  <2>4. \A e \in Endpoints : Reliable(e).kind = "reliable" /\ Datagram(e).kind = "datagram"
    BY DEF Reliable, Datagram, Lane
  <2> QED BY <2>1, <2>2, <2>3, <2>4
<1>2. \A lane \in InteractionLanes :
        /\ lane.kind = "interaction" /\ lane.opener \in Endpoints /\ lane.k \in 1..MaxLanes
        /\ lane \in Lanes
  BY DEF InteractionLanes, Lanes, Lane
<1>3. \A lane \in Lanes : lane = Control \/ lane.kind = "reliable" \/ lane \in InteractionLanes
  BY DEF InteractionLanes, Lanes, Lane, Reliable
<1>4. \A lane \in AllLanes : lane \in Lanes \/ lane.kind = "datagram"
  BY DEF AllLanes, Datagram, Lane
<1> QED BY <1>1, <1>2, <1>3, <1>4

LEMMA NewLane ==
  ASSUME NEW e \in Endpoints, NEW k \in 1..MaxLanes
  PROVE  /\ Lane("interaction", e, k) \in InteractionLanes
         /\ Lane("interaction", e, k).k = k /\ Lane("interaction", e, k).opener = e
BY DEF InteractionLanes, Lane

(***************************************************************************)
(* Sequences and maps.                                                     *)
(***************************************************************************)
Extends(s, t) == Len(s) <= Len(t) /\ \A i \in 1..Len(s) : t[i] = s[i]

MapExtends(map, next) == \A k \in DOMAIN map : k \in DOMAIN next /\ next[k] = map[k]

\* What t holds is in s as well.
From(t, s) == \A i \in 1..Len(t) : \E j \in 1..Len(s) : t[i] = s[j]

LEMMA AppendFacts ==
  ASSUME NEW S, NEW s \in Seq(S), NEW x \in S
  PROVE  /\ Append(s, x) \in Seq(S) /\ s \o <<x>> = Append(s, x)
         /\ Len(s) \in Nat /\ Len(Append(s, x)) = Len(s) + 1
         /\ Extends(s, Append(s, x)) /\ Append(s, x)[Len(s) + 1] = x
         /\ \A i \in 1..Len(Append(s, x)) :
              (i \in 1..Len(s) /\ Append(s, x)[i] = s[i]) \/ (i = Len(s) + 1 /\ Append(s, x)[i] = x)
<1>1. /\ Append(s, x) \in Seq(S) /\ Len(s) \in Nat /\ Len(Append(s, x)) = Len(s) + 1
      /\ \A i \in 1..Len(s) : Append(s, x)[i] = s[i]
      /\ Append(s, x)[Len(s) + 1] = x
  BY AppendProperties, LenProperties
<1>2. s \o <<x>> = Append(s, x)
  BY AppendIsConcat
<1>3. \A i \in 1..(Len(s) + 1) : i \in 1..Len(s) \/ i = Len(s) + 1
  BY <1>1
<1> QED BY <1>1, <1>2, <1>3 DEF Extends

LEMMA TailFacts ==
  ASSUME NEW S, NEW s \in Seq(S), s # <<>>
  PROVE  Tail(s) \in Seq(S) /\ Head(s) \in S /\ From(Tail(s), s) /\ Head(s) = s[1] /\ 1 \in 1..Len(s)
<1>1. /\ Tail(s) \in Seq(S) /\ Head(s) \in S /\ Head(s) = s[1] /\ Len(s) \in Nat /\ Len(s) # 0
      /\ Len(Tail(s)) = Len(s) - 1
      /\ \A i \in 1..Len(Tail(s)) : Tail(s)[i] = s[i + 1]
  BY HeadTailProperties, LenProperties, EmptySeq
<1>2. \A i \in 1..Len(Tail(s)) : i + 1 \in 1..Len(s)
  BY <1>1
<1> QED BY <1>1, <1>2 DEF From

LEMMA SetFacts ==
  ASSUME NEW A, NEW B, NEW D \in SUBSET A, NEW map \in [D -> B], NEW key \in A, NEW value \in B
  PROVE  /\ DOMAIN MapSet(map, key, value) = {key} \cup D /\ {key} \cup D \in SUBSET A
         /\ MapSet(map, key, value) \in [{key} \cup D -> B]
         /\ MapSet(map, key, value)[key] = value
         /\ \A k \in D : k # key => MapSet(map, key, value)[k] = map[k]
         /\ map[key] = value \/ key \notin D => MapExtends(map, MapSet(map, key, value))
BY DEF MapSet, MapExtends

LEMMA LaneMapFacts ==
  ASSUME NEW map \in LaneMaps
  PROVE  /\ DOMAIN map \in SUBSET InteractionLanes /\ map \in [DOMAIN map -> Streams]
         /\ \A lane \in InteractionLanes, s \in Streams : MapSet(map, lane, s) \in LaneMaps
<1>1. DOMAIN map \in SUBSET InteractionLanes /\ map \in [DOMAIN map -> Streams]
  BY DEF LaneMaps
<1>2. ASSUME NEW lane \in InteractionLanes, NEW s \in Streams
      PROVE  MapSet(map, lane, s) \in LaneMaps
  <2> DEFINE m == MapSet(map, lane, s)
             D == DOMAIN map
  <2>1. m \in [{lane} \cup D -> Streams] /\ {lane} \cup D \in SUBSET InteractionLanes
    BY <1>1, SetFacts
  <2> HIDE DEF m, D
  <2> QED BY <2>1 DEF LaneMaps, m
<1> QED BY <1>1, <1>2

LEMMA PendingMapFacts ==
  ASSUME NEW map \in PendingMaps
  PROVE  /\ DOMAIN map \in SUBSET Nat /\ map \in [DOMAIN map -> HeldRecords]
         /\ \A o \in Nat, r \in HeldRecords : MapSet(map, o, r) \in PendingMaps
         /\ \A o \in Nat : [k \in DOMAIN map \ {o} |-> map[k]] \in PendingMaps
<1>1. DOMAIN map \in SUBSET Nat /\ map \in [DOMAIN map -> HeldRecords]
  BY DEF PendingMaps
<1>2. ASSUME NEW o \in Nat, NEW r \in HeldRecords
      PROVE  MapSet(map, o, r) \in PendingMaps
  <2> DEFINE m == MapSet(map, o, r)
             D == DOMAIN map
  <2>1. m \in [{o} \cup D -> HeldRecords] /\ {o} \cup D \in SUBSET Nat
    BY <1>1, SetFacts
  <2> HIDE DEF m, D
  <2> QED BY <2>1 DEF PendingMaps, m
<1>3. ASSUME NEW o \in Nat
      PROVE  [k \in DOMAIN map \ {o} |-> map[k]] \in PendingMaps
  <2>1. [k \in DOMAIN map \ {o} |-> map[k]] \in [DOMAIN map \ {o} -> HeldRecords]
    BY <1>1
  <2>2. DOMAIN map \ {o} \in SUBSET Nat
    BY <1>1
  <2> QED BY <2>1, <2>2 DEF PendingMaps
<1> QED BY <1>1, <1>2, <1>3

LEMMA EmptyMaps ==
  <<>> \in PendingMaps /\ <<>> \in LaneMaps /\ DOMAIN <<>> = {}
<1>1. DOMAIN <<>> = {} /\ <<>> \in [{} -> HeldRecords] /\ <<>> \in [{} -> Streams]
  OBVIOUS
<1> QED BY <1>1 DEF PendingMaps, LaneMaps

(***************************************************************************)
(* What a step leaves on its way, stays good.                              *)
(***************************************************************************)
LEMMA GoodStays ==
  ASSUME NEW frames \in Seq(Frames), NEW next \in Seq(Frames), Extends(frames, next),
         NEW map, NEW map2, MapExtends(map, map2),
         NEW best, NEW lane, NEW o \in Nat, NEW f, Good(frames, map, best, lane, o, f)
  PROVE  Good(next, map2, best, lane, o, f)
<1>1. Len(frames) \in Nat /\ Len(next) \in Nat
  BY LenProperties
<1>2. o + 1 \in 1..Len(frames) /\ o < Len(next)
  BY <1>1 DEF Good, Stands, Extends
<1>3. Stands(next, o, f)
  BY <1>2 DEF Good, Stands, Extends
<1>4. Routed(map2, best, lane, f)
  BY DEF Good, Routed, MapExtends
<1> QED BY <1>3, <1>4 DEF Good

LEMMA TransitStep ==
  ASSUME Types, TransitInv, unreliable' = unreliable,
         written' \in [Endpoints -> Seq(Frames)],
         \A w \in Endpoints :
           /\ Extends(written[w], written'[w]) /\ MapExtends(laneStream[w], laneStream'[w])
           /\ \A lane \in Lanes : \A i \in 1..Len(wire'[w][lane]) :
                \/ \E j \in 1..Len(wire[w][lane]) : wire'[w][lane][i] = wire[w][lane][j]
                \/ Good(written'[w], laneStream'[w], unreliable, lane,
                        wire'[w][lane][i].ordinal, wire'[w][lane][i].frame)
           /\ \A i \in 1..Len(datagrams'[w]) :
                \/ \E j \in 1..Len(datagrams[w]) : datagrams'[w][i] = datagrams[w][j]
                \/ Good(written'[w], laneStream'[w], unreliable, Datagram(w),
                        datagrams'[w][i].ordinal, datagrams'[w][i].frame)
           /\ \A r \in air'[w] :
                r \in air[w] \/ Good(written'[w], laneStream'[w], unreliable, Datagram(w), r.ordinal, r.frame)
           /\ \A o \in DOMAIN pending'[Peer(w)] :
                \/ o \in DOMAIN pending[Peer(w)] /\ pending'[Peer(w)][o] = pending[Peer(w)][o]
                \/ Good(written'[w], laneStream'[w], unreliable, pending'[Peer(w)][o].lane, o,
                        pending'[Peer(w)][o].frame)
  PROVE  TransitInv'
<1> SUFFICES ASSUME NEW w \in Endpoints
             PROVE  LET GoodHere(lane, ordinal, f) ==
                          Good(written'[w], laneStream'[w], unreliable, lane, ordinal, f)
                    IN /\ \A lane \in Lanes : \A i \in 1..Len(wire'[w][lane]) :
                            GoodHere(lane, wire'[w][lane][i].ordinal, wire'[w][lane][i].frame)
                       /\ \A i \in 1..Len(datagrams'[w]) :
                            GoodHere(Datagram(w), datagrams'[w][i].ordinal, datagrams'[w][i].frame)
                       /\ \A r \in air'[w] : GoodHere(Datagram(w), r.ordinal, r.frame)
                       /\ \A o \in DOMAIN pending'[Peer(w)] :
                            GoodHere(pending'[Peer(w)][o].lane, o, pending'[Peer(w)][o].frame)
  BY DEF TransitInv
<1> DEFINE frames == written[w]
           next == written'[w]
           map == laneStream[w]
           map2 == laneStream'[w]
<1>1. /\ frames \in Seq(Frames) /\ next \in Seq(Frames)
      /\ Extends(frames, next) /\ MapExtends(map, map2)
  BY DEF Types
<1>2. \A lane, f : \A o \in Nat :
        Good(frames, map, unreliable, lane, o, f) => Good(next, map2, unreliable, lane, o, f)
  <2> HIDE DEF frames, next, map, map2
  <2> QED BY <1>1, GoodStays
<1>3. ASSUME NEW lane \in Lanes, NEW i \in 1..Len(wire'[w][lane])
      PROVE  Good(next, map2, unreliable, lane, wire'[w][lane][i].ordinal, wire'[w][lane][i].frame)
  <2>1. CASE \E j \in 1..Len(wire[w][lane]) : wire'[w][lane][i] = wire[w][lane][j]
    <3>1. PICK j \in 1..Len(wire[w][lane]) : wire'[w][lane][i] = wire[w][lane][j]
      BY <2>1
    <3>2. wire[w][lane][j].ordinal \in Nat
      <4>1. wire[w][lane] \in Seq(Records)
        BY DEF Types
      <4>2. wire[w][lane][j] \in Records
        BY <4>1, ElementOfSeq
      <4> QED BY <4>2 DEF Records
    <3>3. Good(frames, map, unreliable, lane, wire[w][lane][j].ordinal, wire[w][lane][j].frame)
      BY DEF TransitInv
    <3> HIDE DEF next, map2, frames, map
    <3> QED BY <3>1, <3>2, <3>3, <1>2
  <2> QED BY <2>1
<1>4. ASSUME NEW i \in 1..Len(datagrams'[w])
      PROVE  Good(next, map2, unreliable, Datagram(w), datagrams'[w][i].ordinal, datagrams'[w][i].frame)
  <2>1. CASE \E j \in 1..Len(datagrams[w]) : datagrams'[w][i] = datagrams[w][j]
    <3>1. PICK j \in 1..Len(datagrams[w]) : datagrams'[w][i] = datagrams[w][j]
      BY <2>1
    <3>2. datagrams[w][j].ordinal \in Nat
      <4>1. datagrams[w] \in Seq(Records)
        BY DEF Types
      <4>2. datagrams[w][j] \in Records
        BY <4>1, ElementOfSeq
      <4> QED BY <4>2 DEF Records
    <3>3. Good(frames, map, unreliable, Datagram(w), datagrams[w][j].ordinal, datagrams[w][j].frame)
      BY DEF TransitInv
    <3> HIDE DEF next, map2, frames, map
    <3> QED BY <3>1, <3>2, <3>3, <1>2
  <2> QED BY <2>1
<1>5. ASSUME NEW r \in air'[w]
      PROVE  Good(next, map2, unreliable, Datagram(w), r.ordinal, r.frame)
  <2>1. CASE r \in air[w]
    <3>1. r.ordinal \in Nat
      BY <2>1 DEF Types, Records
    <3>2. Good(frames, map, unreliable, Datagram(w), r.ordinal, r.frame)
      BY <2>1 DEF TransitInv
    <3> HIDE DEF next, map2, frames, map
    <3> QED BY <3>1, <3>2, <1>2
  <2> QED BY <2>1
<1>6. ASSUME NEW o \in DOMAIN pending'[Peer(w)]
      PROVE  Good(next, map2, unreliable, pending'[Peer(w)][o].lane, o, pending'[Peer(w)][o].frame)
  <2>1. CASE o \in DOMAIN pending[Peer(w)] /\ pending'[Peer(w)][o] = pending[Peer(w)][o]
    <3>1. o \in Nat
      <4>1. pending[Peer(w)] \in PendingMaps
        BY PeerFacts DEF Types
      <4> QED BY <2>1, <4>1, PendingMapFacts
    <3>2. Good(frames, map, unreliable, pending[Peer(w)][o].lane, o, pending[Peer(w)][o].frame)
      BY <2>1 DEF TransitInv
    <3> HIDE DEF next, map2, frames, map
    <3> QED BY <2>1, <3>1, <3>2, <1>2
  <2> QED BY <2>1
<1> QED BY <1>3, <1>4, <1>5, <1>6

LEMMA ExtendsRefl ==
  /\ \A s : Extends(s, s) \/ ~(Len(s) \in Nat)
  /\ \A map : MapExtends(map, map)
BY DEF Extends, MapExtends

(***************************************************************************)
(* Steps of the session itself.                                            *)
(***************************************************************************)
LEMMA PhaseStep ==
  ASSUME IInv, UNCHANGED <<mode, traffic>>,
         phase' \in [Endpoints -> {"connecting", "opening", "ready", "closed", "failed"}],
         subscribed' \in [Endpoints -> BOOLEAN], control' \in [Endpoints -> BOOLEAN],
         \A e \in Endpoints : /\ phase'[e] \in {"closed", "failed"} <=> phase[e] \in {"closed", "failed"}
                              /\ phase[e] = "ready" => phase'[e] = "ready"
  PROVE  IInv'
<1> USE DEF mode, traffic, mapping, ordering
<1>1. Types'
  BY DEF IInv, Types
<1>2. WriterInv'
  BY DEF IInv, WriterInv, Bound
<1>3. ReaderInv'
  BY DEF IInv, ReaderInv, IsOpen
<1>4. TransitInv'
  BY DEF IInv, TransitInv
<1>5. FragmentInv'
  BY DEF IInv, FragmentInv, IsClosing
<1>6. LaneInv'
  BY DEF IInv, LaneInv
<1>7. LifeInv'
  <2>1. RequestInv => RequestInv'
    BY DEF RequestInv
  <2>2. KeptInv => KeptInv'
    BY DEF KeptInv, IsClosing
  <2>3. OneLaneInv => OneLaneInv'
    BY DEF OneLaneInv, IsClosing
  <2> QED BY <2>1, <2>2, <2>3 DEF IInv, LifeInv
<1> QED BY <1>1, <1>2, <1>3, <1>4, <1>5, <1>6, <1>7 DEF IInv

LEMMA SessionSteps ==
  ASSUME IInv, NEW e \in Endpoints,
         \/ SessionReady(e) \/ Subscribe(e)
         \/ ControlStreamCreated \/ AcceptControl
  PROVE  IInv'
<1>1. /\ phase \in [Endpoints -> {"connecting", "opening", "ready", "closed", "failed"}]
      /\ subscribed \in [Endpoints -> BOOLEAN] /\ control \in [Endpoints -> BOOLEAN]
      /\ "requester" \in Endpoints /\ "responder" \in Endpoints
  BY DEF IInv, Types, Endpoints
<1>2. CASE SessionReady(e)
  BY <1>1, <1>2, PhaseStep DEF SessionReady
<1>3. CASE Subscribe(e)
  BY <1>1, <1>3, PhaseStep DEF Subscribe
<1>4. CASE ControlStreamCreated
  BY <1>1, <1>4, PhaseStep DEF ControlStreamCreated
<1>5. CASE AcceptControl
  BY <1>1, <1>5, PhaseStep DEF AcceptControl, lifecycle
<1> QED BY <1>2, <1>3, <1>4, <1>5

\* An end that gives up forgets everything it holds; the records on their way
\* to it and from it stay where they are, or have just been read.
LEMMA ReleaseStep ==
  ASSUME IInv, NEW e \in Endpoints, NEW how \in {"closed", "failed"}, Release(e, how),
         UNCHANGED <<mode, subscribed, nextOut, opened, laneStream, finished, nextIn, written, delivered>>,
         wire' \in [Endpoints -> [Lanes -> Seq(Records)]],
         air' \in [Endpoints -> SUBSET Records],
         \A w \in Endpoints :
           /\ \A lane \in Lanes : From(wire'[w][lane], wire[w][lane])
           /\ air'[w] \subseteq air[w]
  PROVE  IInv'
<1>1. Types /\ WriterInv /\ ReaderInv /\ TransitInv /\ FragmentInv /\ LaneInv /\ LifeInv
  BY DEF IInv
<1>2. /\ phase' = [phase EXCEPT ![e] = how]
      /\ pending' = [pending EXCEPT ![e] = <<>>]
      /\ interactions' = [interactions EXCEPT ![e] = [s \in Streams |-> NoInteraction]]
      /\ datagrams' = [datagrams EXCEPT ![e] = <<>>]
      /\ outFnf' = [outFnf EXCEPT ![e] = {}]
      /\ inFnf' = [inFnf EXCEPT ![e] = {}]
      /\ control' = [control EXCEPT ![e] = FALSE]
      /\ draining' = [draining EXCEPT ![e] = FALSE]
  BY DEF Release
<1>3. resumed' = resumed /\ unreliable' = unreliable
  BY DEF mode
<1>4. NoInteraction \in Entries /\ <<>> \in Seq(Records) /\ Len(<<>>) = 0
  BY EmptySeq DEF NoInteraction, Entries
<1>5. Types'
  <2>1. interactions' \in [Endpoints -> [Streams -> Entries]]
    BY <1>1, <1>2, <1>4 DEF Types
  <2>2. pending' \in [Endpoints -> PendingMaps]
    BY <1>1, <1>2, EmptyMaps DEF Types
  <2>3. phase' \in [Endpoints -> {"connecting", "opening", "ready", "closed", "failed"}]
    BY <1>1, <1>2 DEF Types
  <2>4. datagrams' \in [Endpoints -> Seq(Records)]
    BY <1>1, <1>2, <1>4 DEF Types
  <2>5. /\ outFnf' \in [Endpoints -> SUBSET {5}] /\ inFnf' \in [Endpoints -> SUBSET {5}]
        /\ control' \in [Endpoints -> BOOLEAN] /\ draining' \in [Endpoints -> BOOLEAN]
    BY <1>1, <1>2 DEF Types
  <2> QED BY <1>1, <1>3, <2>1, <2>2, <2>3, <2>4, <2>5 DEF Types
<1>6. WriterInv'
  BY <1>1, <1>3 DEF WriterInv, Bound
<1>7. \A x \in Endpoints : x # e =>
        /\ phase'[x] = phase[x] /\ pending'[x] = pending[x] /\ interactions'[x] = interactions[x]
        /\ datagrams'[x] = datagrams[x] /\ outFnf'[x] = outFnf[x] /\ inFnf'[x] = inFnf[x]
        /\ draining'[x] = draining[x]
  BY <1>1, <1>2 DEF Types
<1>8. /\ phase'[e] = how /\ pending'[e] = <<>> /\ datagrams'[e] = <<>> /\ draining'[e] = FALSE
      /\ \A s \in Streams : interactions'[e][s] = NoInteraction
  BY <1>1, <1>2 DEF Types
<1>9. ReaderInv'
  BY <1>1, <1>7, <1>8, EmptyMaps DEF ReaderInv, IsOpen
<1>10. TransitInv'
  <2>1. \A w \in Endpoints : Extends(written[w], written'[w]) /\ MapExtends(laneStream[w], laneStream'[w])
    BY <1>1, ExtendsRefl, LenProperties DEF Types
  <2>2. written' \in [Endpoints -> Seq(Frames)]
    BY <1>1 DEF Types
  <2>3. \A w \in Endpoints : \A lane \in Lanes : \A i \in 1..Len(wire'[w][lane]) :
          \E j \in 1..Len(wire[w][lane]) : wire'[w][lane][i] = wire[w][lane][j]
    BY DEF From
  <2>4. \A w \in Endpoints : \A i \in 1..Len(datagrams'[w]) :
          \E j \in 1..Len(datagrams[w]) : datagrams'[w][i] = datagrams[w][j]
    <3>1. \A i \in 1..Len(datagrams'[e]) : FALSE
      BY <1>4, <1>8
    <3> QED BY <1>7, <3>1
  <2>5. \A w \in Endpoints : \A o \in DOMAIN pending'[Peer(w)] :
          o \in DOMAIN pending[Peer(w)] /\ pending'[Peer(w)][o] = pending[Peer(w)][o]
    BY <1>7, <1>8, PeerFacts, EmptyMaps
  <2>6. \A w \in Endpoints : air'[w] \subseteq air[w]
    OBVIOUS
  <2>7. Types /\ TransitInv /\ unreliable' = unreliable
    BY <1>1, <1>3
  <2> HIDE DEF mode
  <2> QED BY ONLY <2>1, <2>2, <2>3, <2>4, <2>5, <2>6, <2>7, TransitStep
<1>11. \A x \in Endpoints : IsClosing(x) => IsClosing(x)'
  BY <1>7, <1>8 DEF IsClosing
<1>12. IsClosing(e)'
  BY <1>8 DEF IsClosing
<1>13. FragmentInv'
  BY <1>1, <1>7, <1>11, <1>12 DEF FragmentInv
<1>14. LaneInv'
  BY <1>1, <1>7, <1>8 DEF LaneInv
<1>15. LifeInv'
  <2>1. RequestInv => RequestInv'
    BY DEF RequestInv
  <2>2. KeptInv => KeptInv'
    BY <1>7, <1>11, <1>12 DEF KeptInv
  <2>3. ASSUME OneLaneInv
        PROVE  OneLaneInv'
    <3>2. \A x \in Endpoints : ~IsClosing(x)' => \A lane \in DOMAIN laneStream[x] :
            interactions'[x][laneStream[x][lane]] = NoInteraction => lane \in finished[x]
      BY <1>7, <1>11, <1>12, <2>3 DEF OneLaneInv
    <3> QED BY <2>3, <3>2 DEF OneLaneInv
  <2> QED BY <1>1, <1>3, <2>1, <2>2, <2>3 DEF LifeInv
<1> QED BY <1>5, <1>6, <1>9, <1>10, <1>13, <1>14, <1>15 DEF IInv

LEMMA CloseStep ==
  ASSUME IInv, NEW e \in Endpoints, Close(e)
  PROVE  IInv'
<1>1. /\ wire' = wire /\ air' = air /\ Release(e, "closed")
      /\ UNCHANGED <<mode, subscribed, nextOut, opened, laneStream, finished, nextIn, written, delivered>>
  BY DEF Close
<1>2. wire \in [Endpoints -> [Lanes -> Seq(Records)]] /\ air \in [Endpoints -> SUBSET Records]
  BY DEF IInv, Types
<1>3. \A w \in Endpoints : \A lane \in Lanes : From(wire[w][lane], wire[w][lane])
  BY DEF From
<1> QED BY <1>1, <1>2, <1>3, ReleaseStep

(***************************************************************************)
(* The lane of datagrams.                                                  *)
(***************************************************************************)
\* w are the lanes with more records on one of them.
Longer(w, e, lane, records) ==
  /\ w \in [Endpoints -> [Lanes -> Seq(Records)]]
  /\ \A x \in Endpoints, m \in Lanes : ~(x = e /\ m = lane) => w[x][m] = wire[x][m]
  /\ \A i \in 1..Len(w[e][lane]) :
       \/ \E j \in 1..Len(wire[e][lane]) : w[e][lane][i] = wire[e][lane][j]
       \/ \E j \in 1..Len(records) : w[e][lane][i] = records[j]

LEMMA EnqueueFacts ==
  ASSUME Types, NEW e \in Endpoints, NEW lane \in Lanes, NEW records \in Seq(Records)
  PROVE  Longer(Enqueued(e, lane, records), e, lane, records)
<1> DEFINE old == wire[e][lane]
           w == Enqueued(e, lane, records)
<1>1. wire \in [Endpoints -> [Lanes -> Seq(Records)]] /\ old \in Seq(Records)
  BY DEF Types
<1>2. /\ old \o records \in Seq(Records)
      /\ Len(old \o records) = Len(old) + Len(records)
      /\ \A i \in 1..(Len(old) + Len(records)) :
           (old \o records)[i] = IF i <= Len(old) THEN old[i] ELSE records[i - Len(old)]
  BY <1>1, ConcatProperties
<1>3. Len(old) \in Nat /\ Len(records) \in Nat
  BY <1>1, LenProperties
<1>4. /\ w \in [Endpoints -> [Lanes -> Seq(Records)]]
      /\ w[e][lane] = old \o records
      /\ \A x \in Endpoints, m \in Lanes : ~(x = e /\ m = lane) => w[x][m] = wire[x][m]
  <2>1. w = [wire EXCEPT ![e] = [wire[e] EXCEPT ![lane] = old \o records]]
    BY <1>1 DEF Enqueued
  <2> HIDE DEF old, w
  <2> QED BY <1>1, <1>2, <2>1
<1> HIDE DEF w
<1>5. \A i \in 1..(Len(old) + Len(records)) : ~(i <= Len(old)) => i - Len(old) \in 1..Len(records)
  BY <1>3
<1>6. \A i \in 1..(Len(old) + Len(records)) : i <= Len(old) => i \in 1..Len(old)
  BY <1>3
<1>7. \A i \in 1..Len(w[e][lane]) :
        \/ \E j \in 1..Len(old) : w[e][lane][i] = old[j]
        \/ \E j \in 1..Len(records) : w[e][lane][i] = records[j]
  <2> HIDE DEF old
  <2> SUFFICES ASSUME NEW i \in 1..(Len(old) + Len(records))
               PROVE  \/ \E j \in 1..Len(old) : (old \o records)[i] = old[j]
                      \/ \E j \in 1..Len(records) : (old \o records)[i] = records[j]
    BY <1>2, <1>4
  <2>1. CASE i <= Len(old)
    BY <1>2, <1>6, <2>1
  <2>2. CASE ~(i <= Len(old))
    <3>1. (old \o records)[i] = records[i - Len(old)]
      BY <1>2, <2>2
    <3>2. i - Len(old) \in 1..Len(records)
      BY <1>5, <2>2
    <3> QED BY ONLY <3>1, <3>2
  <2> QED BY <2>1, <2>2
<1>8. Longer(w, e, lane, records)
  BY ONLY <1>4, <1>7 DEF Longer
<1> QED BY <1>8 DEF w

LEMMA DatagramLaneStep ==
  ASSUME IInv, UNCHANGED aside, TransitInv',
         wire' \in [Endpoints -> [Lanes -> Seq(Records)]],
         datagrams' \in [Endpoints -> Seq(Records)], air' \in [Endpoints -> SUBSET Records]
  PROVE  IInv'
<1> USE DEF aside, lifecycle, mode, mapping, ordering
<1>1. Types'
  BY DEF IInv, Types
<1>2. WriterInv'
  BY DEF IInv, WriterInv, Bound
<1>3. ReaderInv'
  BY DEF IInv, ReaderInv, IsOpen
<1>4. FragmentInv'
  BY DEF IInv, FragmentInv, IsClosing
<1>5. LaneInv'
  BY DEF IInv, LaneInv
<1>6. LifeInv'
  <2>1. RequestInv => RequestInv'
    BY DEF RequestInv
  <2>2. KeptInv => KeptInv'
    BY DEF KeptInv, IsClosing
  <2>3. OneLaneInv => OneLaneInv'
    BY DEF OneLaneInv, IsClosing
  <2> QED BY <2>1, <2>2, <2>3 DEF IInv, LifeInv
<1> QED BY <1>1, <1>2, <1>3, <1>4, <1>5, <1>6 DEF IInv

\* The notices of datagrams stand for the same frames, and the control stream
\* may carry them.
LEMMA MarkersAreGood ==
  ASSUME Types, NEW w \in Endpoints, NEW packets \in Seq(Records),
         \A i \in 1..Len(packets) :
           Good(written[w], laneStream[w], unreliable, Datagram(w), packets[i].ordinal, packets[i].frame)
  PROVE  /\ Markers(packets) \in Seq(Records)
         /\ \A i \in 1..Len(Markers(packets)) :
              Good(written[w], laneStream[w], unreliable, Control,
                   Markers(packets)[i].ordinal, Markers(packets)[i].frame)
<1>1. /\ Len(packets) \in Nat /\ DOMAIN packets = 1..Len(packets)
      /\ \A i \in 1..Len(packets) : packets[i] \in Records
  BY LenProperties, ElementOfSeq
<1>2. ASSUME NEW i \in 1..Len(packets)
      PROVE  LET r == packets[i]
             IN /\ Record(r.ordinal, Skip(r.frame)) \in Records
                /\ Good(written[w], laneStream[w], unreliable, Control, r.ordinal, Skip(r.frame))
  <2> DEFINE o == packets[i].ordinal
             f == packets[i].frame
             g == written[w][o + 1]
  <2>1. o \in Nat /\ f \in AnyFrame
    BY <1>1 DEF Records
  <2>2. /\ o < Len(written[w]) /\ f \in {g, Skip(g)}
        /\ f.type = "REQUEST_FNF" /\ ~f.follows /\ unreliable
    BY LaneFacts DEF Good, Stands, Routed
  <2>3. g \in Frames
    <3>1. written[w] \in Seq(Frames)
      BY DEF Types
    <3>2. o + 1 \in 1..Len(written[w])
      BY <2>1, <2>2, <3>1, LenProperties
    <3> QED BY <3>1, <3>2, ElementOfSeq
  <2> HIDE DEF g
  <2>4. f = g
    BY <2>2, <2>3, NotSkipped
  <2>5. Skip(g) \in AnyFrame /\ Skip(g).type = "SKIPPED"
    BY <2>2, <2>3, <2>4, SkipFacts
  <2>6. Stands(written[w], o, Skip(f))
    BY <2>2, <2>4 DEF Stands, g
  <2>7. Routed(laneStream[w], unreliable, Control, Skip(f))
    BY <2>2, <2>4, <2>5, LaneFacts DEF Routed
  <2>8. Record(o, Skip(f)) \in Records
    BY <2>1, <2>4, <2>5 DEF Record, Records
  <2> QED BY <2>6, <2>7, <2>8 DEF Good
<1> DEFINE m == Markers(packets)
<1>3. m = [i \in 1..Len(packets) |-> Record(packets[i].ordinal, Skip(packets[i].frame))]
  BY <1>1 DEF Markers
<1> HIDE DEF m
<1>4. m \in [1..Len(packets) -> Records]
  BY <1>2, <1>3
<1>5. m \in Seq(Records)
  BY <1>1, <1>4, SeqDef
<1>6. Len(m) = Len(packets)
  BY <1>1, <1>4, <1>5, LenProperties
<1>7. ASSUME NEW i \in 1..Len(m)
      PROVE  Good(written[w], laneStream[w], unreliable, Control, m[i].ordinal, m[i].frame)
  <2>1. i \in 1..Len(packets) /\ m[i] = Record(packets[i].ordinal, Skip(packets[i].frame))
    BY <1>3, <1>6
  <2>2. m[i].ordinal = packets[i].ordinal /\ m[i].frame = Skip(packets[i].frame)
    BY <2>1 DEF Record
  <2> QED BY <1>2, <2>1, <2>2
<1> QED BY <1>5, <1>7 DEF m

LEMMA MarkerStep ==
  ASSUME IInv, NEW e \in Endpoints, NEW packets \in Seq(Records),
         From(packets, datagrams[e]),
         wire' = Enqueued(e, Control, Markers(packets)),
         datagrams' \in [Endpoints -> Seq(Records)],
         \A x \in Endpoints : From(datagrams'[x], datagrams[x]),
         air' \in [Endpoints -> SUBSET Records],
         \A x \in Endpoints : \A r \in air'[x] :
           r \in air[x] \/ \E i \in 1..Len(datagrams[x]) : r = datagrams[x][i],
         UNCHANGED aside
  PROVE  IInv'
<1>1. Types /\ TransitInv
  BY DEF IInv
<1>2. /\ written' = written /\ laneStream' = laneStream /\ unreliable' = unreliable /\ pending' = pending
  BY DEF aside, lifecycle, mode, mapping, ordering
<1>3. \A x \in Endpoints : \A i \in 1..Len(datagrams[x]) :
        Good(written[x], laneStream[x], unreliable, Datagram(x), datagrams[x][i].ordinal, datagrams[x][i].frame)
  BY <1>1 DEF TransitInv
<1>4. /\ Markers(packets) \in Seq(Records)
      /\ \A i \in 1..Len(Markers(packets)) :
           Good(written[e], laneStream[e], unreliable, Control,
                Markers(packets)[i].ordinal, Markers(packets)[i].frame)
  <2>1. \A i \in 1..Len(packets) :
          Good(written[e], laneStream[e], unreliable, Datagram(e), packets[i].ordinal, packets[i].frame)
    BY <1>3 DEF From
  <2> QED BY <1>1, <2>1, MarkersAreGood
<1> DEFINE notices == Markers(packets)
<1> HIDE DEF notices
<1>5. /\ wire' \in [Endpoints -> [Lanes -> Seq(Records)]]
      /\ \A x \in Endpoints : \A lane \in Lanes : \A i \in 1..Len(wire'[x][lane]) :
           \/ \E j \in 1..Len(wire[x][lane]) : wire'[x][lane][i] = wire[x][lane][j]
           \/ x = e /\ lane = Control /\ \E j \in 1..Len(notices) : wire'[x][lane][i] = notices[j]
  <2>1. notices \in Seq(Records) /\ Control \in Lanes /\ wire' = Enqueued(e, Control, notices)
    BY <1>4, LaneFacts DEF notices
  <2>2. /\ wire' \in [Endpoints -> [Lanes -> Seq(Records)]]
        /\ \A x \in Endpoints, m \in Lanes : ~(x = e /\ m = Control) => wire'[x][m] = wire[x][m]
        /\ \A i \in 1..Len(wire'[e][Control]) :
             \/ \E j \in 1..Len(wire[e][Control]) : wire'[e][Control][i] = wire[e][Control][j]
             \/ \E j \in 1..Len(notices) : wire'[e][Control][i] = notices[j]
    <3>1. Types /\ e \in Endpoints
      BY <1>1
    <3>2. Longer(wire', e, Control, notices)
      BY <2>1, <3>1, EnqueueFacts
    <3> QED BY ONLY <3>2 DEF Longer
  <2>3. ASSUME NEW x \in Endpoints, NEW lane \in Lanes, NEW i \in 1..Len(wire'[x][lane])
        PROVE  \/ \E j \in 1..Len(wire[x][lane]) : wire'[x][lane][i] = wire[x][lane][j]
               \/ x = e /\ lane = Control /\ \E j \in 1..Len(notices) : wire'[x][lane][i] = notices[j]
    <3>1. CASE x = e /\ lane = Control
      BY ONLY <2>2, <3>1
    <3>2. CASE ~(x = e /\ lane = Control)
      <4>1. wire'[x][lane] = wire[x][lane]
        BY <2>2, <3>2
      <4> QED BY ONLY <4>1
    <3> QED BY <3>1, <3>2
  <2> QED BY ONLY <2>2, <2>3
<1>6. \A x \in Endpoints : Extends(written[x], written'[x]) /\ MapExtends(laneStream[x], laneStream'[x])
  BY <1>1, <1>2, ExtendsRefl, LenProperties DEF Types
<1>7. written' \in [Endpoints -> Seq(Frames)]
  BY <1>1, <1>2 DEF Types
<1>8. \A x \in Endpoints : \A lane \in Lanes : \A i \in 1..Len(wire'[x][lane]) :
        \/ \E j \in 1..Len(wire[x][lane]) : wire'[x][lane][i] = wire[x][lane][j]
        \/ Good(written'[x], laneStream'[x], unreliable, lane,
                wire'[x][lane][i].ordinal, wire'[x][lane][i].frame)
  <2>1. \A j \in 1..Len(notices) : Good(written'[e], laneStream'[e], unreliable, Control, notices[j].ordinal, notices[j].frame)
    BY <1>2, <1>4 DEF notices
  <2>2. ASSUME NEW x \in Endpoints, NEW lane \in Lanes, NEW i \in 1..Len(wire'[x][lane]),
               x = e /\ lane = Control, NEW j \in 1..Len(notices), wire'[x][lane][i] = notices[j]
        PROVE  Good(written'[x], laneStream'[x], unreliable, lane,
                    wire'[x][lane][i].ordinal, wire'[x][lane][i].frame)
    BY <2>1, <2>2
  <2>3. ASSUME NEW x \in Endpoints, NEW lane \in Lanes, NEW i \in 1..Len(wire'[x][lane])
        PROVE  \/ \E j \in 1..Len(wire[x][lane]) : wire'[x][lane][i] = wire[x][lane][j]
               \/ Good(written'[x], laneStream'[x], unreliable, lane,
                       wire'[x][lane][i].ordinal, wire'[x][lane][i].frame)
    <3>1. CASE x = e /\ lane = Control /\ \E j \in 1..Len(notices) : wire'[x][lane][i] = notices[j]
      BY <2>2, <3>1
    <3> QED BY <1>5, <3>1
  <2> QED BY <2>3
<1>9. \A x \in Endpoints : \A i \in 1..Len(datagrams'[x]) :
        \E j \in 1..Len(datagrams[x]) : datagrams'[x][i] = datagrams[x][j]
  BY DEF From
<1>10. \A x \in Endpoints : \A r \in air'[x] :
         r \in air[x] \/ Good(written'[x], laneStream'[x], unreliable, Datagram(x), r.ordinal, r.frame)
  BY <1>2, <1>3
<1>11. \A x \in Endpoints : \A o \in DOMAIN pending'[Peer(x)] :
         o \in DOMAIN pending[Peer(x)] /\ pending'[Peer(x)][o] = pending[Peer(x)][o]
  BY <1>2
<1>12. TransitInv'
  BY ONLY <1>1, <1>2, <1>6, <1>7, <1>8, <1>9, <1>10, <1>11, TransitStep
<1> QED BY <1>5, <1>12, DatagramLaneStep

LEMMA DatagramLaneSteps ==
  ASSUME IInv, NEW e \in Endpoints, SubmitDatagram(e) \/ DatagramLaneFails(e)
  PROVE  IInv'
<1>1. /\ datagrams \in [Endpoints -> Seq(Records)] /\ datagrams[e] \in Seq(Records)
      /\ air \in [Endpoints -> SUBSET Records]
  BY DEF IInv, Types
<1>2. \A x \in Endpoints : From(datagrams[x], datagrams[x])
  BY DEF From
<1>3. CASE SubmitDatagram(e)
  <2> DEFINE h == Head(datagrams[e])
             t == Tail(datagrams[e])
  <2>1. datagrams[e] # <<>> /\ datagrams' = [datagrams EXCEPT ![e] = t]
        /\ air' = [air EXCEPT ![e] = @ \cup {h}] /\ wire' = Enqueued(e, Control, Markers(<<h>>))
        /\ UNCHANGED aside
    BY <1>3 DEF SubmitDatagram
  <2>2. /\ t \in Seq(Records) /\ h \in Records /\ From(t, datagrams[e])
        /\ h = datagrams[e][1] /\ 1 \in 1..Len(datagrams[e])
    BY <1>1, <2>1, TailFacts
  <2> HIDE DEF h, t
  <2>3. <<h>> \in Seq(Records) /\ From(<<h>>, datagrams[e])
    BY <2>2 DEF From
  <2>4. datagrams' \in [Endpoints -> Seq(Records)] /\ \A x \in Endpoints : From(datagrams'[x], datagrams[x])
    BY <1>1, <1>2, <2>1, <2>2
  <2>5. air' \in [Endpoints -> SUBSET Records]
    BY <1>1, <2>1, <2>2
  <2>6. \A x \in Endpoints : \A r \in air'[x] :
          r \in air[x] \/ \E i \in 1..Len(datagrams[x]) : r = datagrams[x][i]
    BY <1>1, <2>1, <2>2
  <2> QED BY <2>1, <2>3, <2>4, <2>5, <2>6, MarkerStep
<1>4. CASE DatagramLaneFails(e)
  <2>1. datagrams' = [datagrams EXCEPT ![e] = <<>>] /\ air' = air
        /\ wire' = Enqueued(e, Control, Markers(datagrams[e])) /\ UNCHANGED aside
    BY <1>4 DEF DatagramLaneFails
  <2>2. <<>> \in Seq(Records) /\ From(<<>>, datagrams[e])
    BY EmptySeq DEF From
  <2>3. datagrams' \in [Endpoints -> Seq(Records)] /\ \A x \in Endpoints : From(datagrams'[x], datagrams[x])
    BY <1>1, <1>2, <2>1, <2>2
  <2> QED BY <1>1, <1>2, <2>1, <2>3, MarkerStep
<1> QED BY <1>3, <1>4

(***************************************************************************)
(* What one more frame says of a sequence of them.                         *)
(***************************************************************************)
LEMMA FragmentAppend ==
  ASSUME NEW S, NEW frames \in Seq(S), NEW f \in S
  PROVE  /\ FnfUnderWay(Append(frames, f)) <=>
              /\ ~LastFragment(f)
              /\ \/ FnfUnderWay(frames)
                 \/ FirstFragment(f) /\ \A i \in 1..Len(frames) : ~LastFragment(frames[i])
         /\ \/ LastFragment(f) /\ ~FnfUnderWay(frames)
            \/ FirstFragment(f) /\ \E i \in 1..Len(frames) : FirstFragment(frames[i])
            \/ WellFragmented(frames) => WellFragmented(Append(frames, f))
<1> DEFINE next == Append(frames, f)
           n == Len(frames)
<1>1. /\ n \in Nat /\ Len(next) = n + 1 /\ next[n + 1] = f
      /\ \A i \in 1..n : next[i] = frames[i]
  BY AppendFacts DEF Extends
<1>2. /\ \A i \in 1..(n + 1) : i \in 1..n \/ i = n + 1
      /\ \A i \in 1..n : i \in 1..(n + 1)
      /\ n + 1 \in 1..(n + 1)
  BY <1>1
<1> HIDE DEF next, n
<1>3. /\ (\E i \in 1..Len(next) : FirstFragment(next[i])) <=>
           (\E i \in 1..n : FirstFragment(frames[i])) \/ FirstFragment(f)
      /\ (\A i \in 1..Len(next) : ~LastFragment(next[i])) <=>
           (\A i \in 1..n : ~LastFragment(frames[i])) /\ ~LastFragment(f)
  BY <1>1, <1>2
<1>4. FnfUnderWay(next) <=>
        /\ ~LastFragment(f)
        /\ \/ FnfUnderWay(frames)
           \/ FirstFragment(f) /\ \A i \in 1..n : ~LastFragment(frames[i])
  BY <1>3 DEF FnfUnderWay, n
<1>5. ASSUME LastFragment(f) => FnfUnderWay(frames),
             FirstFragment(f) => \A i \in 1..n : ~FirstFragment(frames[i]),
             WellFragmented(frames)
      PROVE  WellFragmented(next)
  <2>1. \A i \in 1..n : LastFragment(frames[i]) =>
          \E j \in 1..(i - 1) : j \in 1..n /\ FirstFragment(frames[j])
    <3>1. \A i \in 1..n : \A j \in 1..(i - 1) : j \in 1..n
      BY <1>1
    <3> QED BY <1>5, <3>1 DEF WellFragmented, n
  <2>2. LastFragment(f) => \E j \in 1..n : FirstFragment(frames[j])
    BY <1>5 DEF FnfUnderWay, n
  <2>3. \A i \in 1..n : LastFragment(frames[i]) => ~FirstFragment(f) /\ ~LastFragment(f)
    BY <1>5, <2>1 DEF FnfUnderWay, n
  <2>4. \A i \in 1..Len(next) : LastFragment(next[i]) => \E j \in 1..(i - 1) : FirstFragment(next[j])
    <3> SUFFICES ASSUME NEW i \in 1..(n + 1), LastFragment(next[i])
                 PROVE  \E j \in 1..(i - 1) : FirstFragment(next[j])
      BY <1>1
    <3>1. CASE i \in 1..n
      BY <1>1, <2>1, <3>1
    <3>2. CASE i = n + 1
      <4>1. PICK j \in 1..n : FirstFragment(frames[j])
        BY <1>1, <2>2, <3>2
      <4>2. j \in 1..(i - 1) /\ next[j] = frames[j]
        BY <1>1, <3>2
      <4> QED BY <4>1, <4>2
    <3> QED BY <1>2, <3>1, <3>2
  <2>5. \A i \in 1..Len(next) : LastFragment(next[i]) =>
          \A j \in 1..Len(next) : j > i => ~FirstFragment(next[j]) /\ ~LastFragment(next[j])
    <3> SUFFICES ASSUME NEW i \in 1..(n + 1), LastFragment(next[i]), NEW j \in 1..(n + 1), j > i
                 PROVE  ~FirstFragment(next[j]) /\ ~LastFragment(next[j])
      BY <1>1
    <3>1. i \in 1..n /\ next[i] = frames[i]
      BY <1>1
    <3>2. CASE j \in 1..n
      BY <1>1, <1>5, <3>1, <3>2 DEF WellFragmented, n
    <3>3. CASE j = n + 1
      BY <1>1, <2>3, <3>1, <3>3
    <3> QED BY <1>2, <3>2, <3>3
  <2> QED BY <2>4, <2>5 DEF WellFragmented
<1> QED BY <1>4, <1>5 DEF next, n

LEMMA HasAppend ==
  ASSUME NEW S, NEW frames \in Seq(S), NEW f \in S, NEW s
  PROVE  /\ \A T : SeqHas(Append(frames, f), s, T) <=>
              SeqHas(frames, s, T) \/ (f.stream = s /\ f.type \in T)
         /\ Ended(Append(frames, f), s) <=> Ended(frames, s) \/ (f.stream = s /\ EndsItsHalf(f))
<1> DEFINE next == Append(frames, f)
           n == Len(frames)
<1>1. /\ n \in Nat /\ Len(next) = n + 1 /\ next[n + 1] = f
      /\ \A i \in 1..n : next[i] = frames[i]
      /\ DOMAIN frames = 1..n /\ DOMAIN next = 1..Len(next)
  BY AppendFacts, LenProperties DEF Extends
<1>2. /\ \A i \in 1..(n + 1) : i \in 1..n \/ i = n + 1
      /\ \A i \in 1..n : i \in 1..(n + 1)
      /\ n + 1 \in 1..(n + 1)
  BY <1>1
<1> HIDE DEF next, n
<1>3. ASSUME NEW T
      PROVE  SeqHas(next, s, T) <=> SeqHas(frames, s, T) \/ (f.stream = s /\ f.type \in T)
  BY <1>1, <1>2 DEF SeqHas
<1>4. Ended(next, s) <=> Ended(frames, s) \/ (f.stream = s /\ EndsItsHalf(f))
  BY <1>1, <1>2 DEF Ended
<1> QED BY <1>3, <1>4 DEF next

LEMMA HasConcat ==
  ASSUME NEW S, NEW out \in Seq(S), NEW in \in Seq(S), NEW s, NEW T
  PROVE  SeqHas(out \o in, s, T) <=> SeqHas(out, s, T) \/ SeqHas(in, s, T)
<1> DEFINE all == out \o in
           n == Len(out)
           k == Len(in)
<1>1. /\ n \in Nat /\ k \in Nat /\ Len(all) = n + k
      /\ \A i \in 1..(n + k) : all[i] = IF i <= n THEN out[i] ELSE in[i - n]
      /\ DOMAIN all = 1..(n + k) /\ DOMAIN out = 1..n /\ DOMAIN in = 1..k
  BY ConcatProperties, LenProperties
<1>2. /\ \A i \in 1..n : i \in 1..(n + k) /\ i <= n
      /\ \A i \in 1..k : n + i \in 1..(n + k) /\ ~(n + i <= n) /\ (n + i) - n = i
      /\ \A i \in 1..(n + k) : i \in 1..n \/ (~(i <= n) /\ i - n \in 1..k)
  BY <1>1
<1> HIDE DEF all, n, k
<1>3. /\ \A i \in 1..n : all[i] = out[i]
      /\ \A i \in 1..k : all[n + i] = in[i]
  BY <1>1, <1>2
<1>4. ASSUME SeqHas(all, s, T)
      PROVE  SeqHas(out, s, T) \/ SeqHas(in, s, T)
  <2>1. PICK i \in 1..(n + k) : all[i].stream = s /\ all[i].type \in T
    BY <1>1, <1>4 DEF SeqHas
  <2>2. CASE i \in 1..n
    BY <1>1, <1>3, <2>1, <2>2 DEF SeqHas
  <2>3. CASE ~(i <= n) /\ i - n \in 1..k
    BY <1>1, <2>1, <2>3 DEF SeqHas
  <2> QED BY <1>2, <2>2, <2>3
<1>5. SeqHas(out, s, T) => SeqHas(all, s, T)
  BY <1>1, <1>2, <1>3 DEF SeqHas
<1>6. ASSUME SeqHas(in, s, T)
      PROVE  SeqHas(all, s, T)
  <2>1. PICK i \in 1..k : in[i].stream = s /\ in[i].type \in T
    BY <1>1, <1>6 DEF SeqHas
  <2>2. n + i \in 1..(n + k) /\ all[n + i] = in[i]
    BY <1>2, <1>3
  <2> QED BY <1>1, <2>1, <2>2 DEF SeqHas
<1> QED BY <1>4, <1>5, <1>6 DEF all

LEMMA FramesAreFrames ==
  ASSUME NEW frames \in Seq(Frames)
  PROVE  frames \in Seq(AnyFrame)
<1>1. frames \in [1..Len(frames) -> Frames] /\ Len(frames) \in Nat
  BY LenProperties
<1>2. frames \in [1..Len(frames) -> AnyFrame]
  BY <1>1, FrameFacts
<1> QED BY <1>1, <1>2, SeqDef

LEMMA BegunAndOver ==
  ASSUME Types, ~resumed, NEW e \in Endpoints, NEW s
  PROVE  /\ Begun(e, s) <=> Began(written[e], delivered[e], s)
         /\ Over(e, s) <=> Finished(written[e], delivered[e], s)
<1>1. written[e] \in Seq(AnyFrame) /\ delivered[e] \in Seq(AnyFrame)
  BY FramesAreFrames DEF Types
<1>2. \A T : SeqHas(written[e] \o delivered[e], s, T) <=>
               SeqHas(written[e], s, T) \/ SeqHas(delivered[e], s, T)
  BY <1>1, HasConcat
<1> QED BY <1>2 DEF Begun, Over, Began, Finished

(***************************************************************************)
(* What one more frame makes of the entry of an interaction.               *)
(***************************************************************************)
LEMMA TrackedFacts ==
  ASSUME NEW x \in Entries, NEW f \in AnyFrame, NEW local \in BOOLEAN,
         x = NoInteraction \/ x.lane \in InteractionLanes
  PROVE  LET y == Tracked(x, f, local)
             ends == EndsItsHalf(f)
         IN /\ y \in Entries
            /\ y # NoInteraction => x # NoInteraction /\ y.lane = x.lane
            /\ x # NoInteraction /\ x.type = "REQUEST_CHANNEL" /\ ~(x.local /\ x.remote) =>
                 /\ y # NoInteraction <=>
                      /\ f.type \notin {"CANCEL", "ERROR"}
                      /\ ~((x.local \/ (ends /\ local)) /\ (x.remote \/ (ends /\ ~local)))
                 /\ y # NoInteraction =>
                      /\ y.type = "REQUEST_CHANNEL"
                      /\ y.local <=> x.local \/ (ends /\ local)
                      /\ y.remote <=> x.remote \/ (ends /\ ~local)
<1> DEFINE y == Tracked(x, f, local)
           ends == EndsItsHalf(f)
           typed == Typed(x, f)
           done == WithHalf(typed, local)
<1>1. NoInteraction \in Entries /\ NoInteraction.lane = Control /\ Control \notin InteractionLanes
  BY LaneFacts DEF NoInteraction, Entries
<1>2. typed \in Entries /\ typed.lane = x.lane /\ typed.local = x.local /\ typed.remote = x.remote
      /\ (x.type = "REQUEST_CHANNEL" => typed.type = "REQUEST_CHANNEL")
  BY DEF Typed, Entries, InitialInteractionType
<1> HIDE DEF typed
<1>3. /\ done \in Entries /\ done.lane = x.lane /\ done.type = typed.type
      /\ done.local = (x.local \/ local) /\ done.remote = (x.remote \/ ~local)
  BY <1>2 DEF WithHalf, Entries
<1> HIDE DEF done
<1>4. y = IF x = NoInteraction \/ f.type \in {"CANCEL", "ERROR"} THEN NoInteraction
          ELSE IF ~ends THEN typed
          ELSE IF typed.type # "REQUEST_CHANNEL" \/ (done.local /\ done.remote) THEN NoInteraction
          ELSE done
  BY DEF Tracked, typed, done
<1>5. x # NoInteraction => typed # NoInteraction /\ done # NoInteraction
  BY <1>1, <1>2, <1>3
<1>6. x.local \in BOOLEAN /\ x.remote \in BOOLEAN
  BY DEF Entries
<1> HIDE DEF y, ends
<1>7. y \in Entries /\ (y # NoInteraction => x # NoInteraction /\ y.lane = x.lane)
  BY <1>1, <1>2, <1>3, <1>4
<1>8. ASSUME x # NoInteraction, x.type = "REQUEST_CHANNEL", ~(x.local /\ x.remote)
      PROVE  /\ y # NoInteraction <=>
                  /\ f.type \notin {"CANCEL", "ERROR"}
                  /\ ~((x.local \/ (ends /\ local)) /\ (x.remote \/ (ends /\ ~local)))
             /\ y # NoInteraction =>
                  /\ y.type = "REQUEST_CHANNEL"
                  /\ y.local <=> x.local \/ (ends /\ local)
                  /\ y.remote <=> x.remote \/ (ends /\ ~local)
  <2>1. CASE f.type \in {"CANCEL", "ERROR"}
    BY <1>4, <1>8, <2>1
  <2>2. CASE f.type \notin {"CANCEL", "ERROR"} /\ ~ends
    BY <1>2, <1>4, <1>5, <1>6, <1>8, <2>2
  <2>3. CASE f.type \notin {"CANCEL", "ERROR"} /\ ends
    BY <1>2, <1>3, <1>4, <1>5, <1>6, <1>8, <2>3
  <2> QED BY <2>1, <2>2, <2>3
<1> QED BY <1>7, <1>8 DEF y, ends

\* An entry of a stream is not touched by the frames of another.
LEMMA KeptOfOthers ==
  ASSUME NEW out \in Seq(AnyFrame), NEW in \in Seq(AnyFrame), NEW f \in AnyFrame, NEW s, f.stream # s,
         NEW x
  PROVE  /\ Began(Append(out, f), in, s) <=> Began(out, in, s)
         /\ Began(out, Append(in, f), s) <=> Began(out, in, s)
         /\ Kept(x, out, in, s) => Kept(x, Append(out, f), in, s) /\ Kept(x, out, Append(in, f), s)
<1> DEFINE out2 == Append(out, f)
           in2 == Append(in, f)
<1>1. /\ \A T : SeqHas(out2, s, T) <=> SeqHas(out, s, T)
      /\ \A T : SeqHas(in2, s, T) <=> SeqHas(in, s, T)
      /\ Ended(out2, s) <=> Ended(out, s)
      /\ Ended(in2, s) <=> Ended(in, s)
  BY HasAppend
<1> HIDE DEF out2, in2
<1>2. Began(out2, in, s) = Began(out, in, s) /\ Began(out, in2, s) = Began(out, in, s)
  BY <1>1 DEF Began
<1>3. Finished(out2, in, s) = Finished(out, in, s) /\ Finished(out, in2, s) = Finished(out, in, s)
  BY <1>1 DEF Finished
<1>4. Kept(x, out, in, s) => Kept(x, out2, in, s) /\ Kept(x, out, in2, s)
  BY <1>1, <1>2, <1>3 DEF Kept
<1> QED BY <1>2, <1>4 DEF out2, in2

LEMMA KeptByWriting ==
  ASSUME NEW out \in Seq(AnyFrame), NEW in \in Seq(AnyFrame), NEW f \in AnyFrame,
         NEW x \in Entries, x # NoInteraction, x.lane \in InteractionLanes,
         Kept(x, out, in, f.stream)
  PROVE  Kept(Tracked(x, f, TRUE), Append(out, f), in, f.stream)
<1> DEFINE out2 == Append(out, f)
           y == Tracked(x, f, TRUE)
           s == f.stream
<1>1. /\ \A T : SeqHas(out2, s, T) <=> SeqHas(out, s, T) \/ f.type \in T
      /\ Ended(out2, s) <=> Ended(out, s) \/ EndsItsHalf(f)
  BY HasAppend
<1>2. /\ Began(out, in, s) /\ ~Finished(out, in, s) /\ x.type = "REQUEST_CHANNEL"
      /\ x.local <=> Ended(out, s)
      /\ x.remote <=> Ended(in, s)
  BY DEF Kept
<1>3. ~(x.local /\ x.remote)
  BY <1>2 DEF Finished
<1>4. /\ y # NoInteraction <=>
           f.type \notin {"CANCEL", "ERROR"} /\ ~((x.local \/ EndsItsHalf(f)) /\ x.remote)
      /\ y # NoInteraction =>
           /\ y.type = "REQUEST_CHANNEL"
           /\ y.local <=> x.local \/ EndsItsHalf(f)
           /\ y.remote <=> x.remote
  <2>1. LET ends == EndsItsHalf(f)
        IN /\ y # NoInteraction <=>
                /\ f.type \notin {"CANCEL", "ERROR"}
                /\ ~((x.local \/ (ends /\ TRUE)) /\ (x.remote \/ (ends /\ ~TRUE)))
           /\ y # NoInteraction =>
                /\ y.type = "REQUEST_CHANNEL"
                /\ y.local <=> x.local \/ (ends /\ TRUE)
                /\ y.remote <=> x.remote \/ (ends /\ ~TRUE)
    <3>1. TRUE \in BOOLEAN
      OBVIOUS
    <3> QED BY <1>2, <1>3, <3>1, TrackedFacts
  <2> HIDE DEF y
  <2> QED BY ONLY <2>1
<1> HIDE DEF out2, y, s
<1>5. Began(out2, in, s)
  BY <1>1, <1>2 DEF Began
<1>6. Finished(out2, in, s) <=>
        f.type \in {"CANCEL", "ERROR"} \/ ((Ended(out, s) \/ EndsItsHalf(f)) /\ Ended(in, s))
  BY <1>1, <1>2 DEF Finished
<1>7. Kept(y, out2, in, s)
  BY <1>1, <1>2, <1>4, <1>5, <1>6 DEF Kept
<1> QED BY <1>7 DEF out2, y, s

LEMMA KeptByReading ==
  ASSUME NEW out \in Seq(AnyFrame), NEW in \in Seq(AnyFrame), NEW f \in AnyFrame,
         NEW x \in Entries, x = NoInteraction \/ x.lane \in InteractionLanes,
         Began(out, in, f.stream), Kept(x, out, in, f.stream)
  PROVE  Kept(Tracked(x, f, FALSE), out, Append(in, f), f.stream)
<1> DEFINE in2 == Append(in, f)
           y == Tracked(x, f, FALSE)
           s == f.stream
<1>1. /\ \A T : SeqHas(in2, s, T) <=> SeqHas(in, s, T) \/ f.type \in T
      /\ Ended(in2, s) <=> Ended(in, s) \/ EndsItsHalf(f)
  BY HasAppend
<1>2. Began(out, in2, s)
  BY <1>1 DEF Began
<1>3. CASE x = NoInteraction
  <2>1. Finished(out, in, s)
    BY <1>3 DEF Kept
  <2>2. Finished(out, in2, s)
    BY <1>1, <2>1 DEF Finished
  <2>3. y = NoInteraction
    BY <1>3 DEF Tracked
  <2> HIDE DEF in2, y, s
  <2> QED BY <2>2, <2>3 DEF Kept, in2, y, s
<1>4. CASE x # NoInteraction
  <2>1. /\ ~Finished(out, in, s) /\ x.type = "REQUEST_CHANNEL"
        /\ x.local <=> Ended(out, s)
        /\ x.remote <=> Ended(in, s)
    BY <1>4 DEF Kept
  <2>2. ~(x.local /\ x.remote)
    BY <2>1 DEF Finished
  <2>3. /\ y # NoInteraction <=>
             f.type \notin {"CANCEL", "ERROR"} /\ ~(x.local /\ (x.remote \/ EndsItsHalf(f)))
        /\ y # NoInteraction =>
             /\ y.type = "REQUEST_CHANNEL"
             /\ y.local <=> x.local
             /\ y.remote <=> x.remote \/ EndsItsHalf(f)
    BY <1>4, <2>1, <2>2, TrackedFacts
  <2> HIDE DEF in2, y, s
  <2>4. Finished(out, in2, s) <=>
          f.type \in {"CANCEL", "ERROR"} \/ (Ended(out, s) /\ (Ended(in, s) \/ EndsItsHalf(f)))
    BY <1>1, <2>1 DEF Finished
  <2>5. Kept(y, out, in2, s)
    BY <1>1, <1>2, <2>1, <2>3, <2>4 DEF Kept
  <2> QED BY <2>5 DEF in2, y, s
<1> QED BY <1>3, <1>4

\* Nothing of a stream has been written or given to an end.
Silent(out, in, s) ==
  /\ \A i \in 1..Len(out) : out[i].stream # s
  /\ \A i \in 1..Len(in) : in[i].stream # s

LEMMA KeptByStarting ==
  ASSUME NEW out \in Seq(AnyFrame), NEW in \in Seq(AnyFrame), NEW f \in AnyFrame,
         NEW lane \in InteractionLanes, f.type = "REQUEST_CHANNEL", Silent(out, in, f.stream)
  PROVE  LET x == Interaction(lane, f)
         IN /\ Kept(Tracked(x, f, TRUE), Append(out, f), in, f.stream)
            /\ Kept(Tracked(x, f, FALSE), out, Append(in, f), f.stream)
<1> DEFINE out2 == Append(out, f)
           in2 == Append(in, f)
           x == Interaction(lane, f)
           y == Tracked(x, f, TRUE)
           z == Tracked(x, f, FALSE)
           s == f.stream
<1>1. /\ DOMAIN out = 1..Len(out) /\ DOMAIN in = 1..Len(in)
  BY LenProperties
<1>2. /\ \A T : ~SeqHas(out, s, T) /\ ~SeqHas(in, s, T)
      /\ ~Ended(out, s) /\ ~Ended(in, s)
  BY <1>1 DEF Silent, SeqHas, Ended
<1>3. /\ \A T : SeqHas(out2, s, T) <=> f.type \in T
      /\ \A T : SeqHas(in2, s, T) <=> f.type \in T
      /\ Ended(out2, s) <=> EndsItsHalf(f)
      /\ Ended(in2, s) <=> EndsItsHalf(f)
  BY <1>2, HasAppend
<1>4. /\ x \in Entries /\ x.lane = lane /\ x.type = "REQUEST_CHANNEL" /\ x.local = FALSE /\ x.remote = FALSE
  BY DEF Interaction, Entries, InitialInteractionType
<1>5. x # NoInteraction
  BY <1>4, LaneFacts DEF NoInteraction
<1> HIDE DEF x
<1>6. /\ y # NoInteraction
      /\ y.type = "REQUEST_CHANNEL"
      /\ y.local <=> EndsItsHalf(f)
      /\ ~y.remote
  BY <1>4, <1>5, TrackedFacts
<1>7. /\ z # NoInteraction
      /\ z.type = "REQUEST_CHANNEL"
      /\ z.remote <=> EndsItsHalf(f)
      /\ ~z.local
  BY <1>4, <1>5, TrackedFacts
<1> HIDE DEF out2, in2, y, z, s
<1>8. Began(out2, in, s) /\ Began(out, in2, s)
  BY <1>3 DEF Began
<1>9. ~Finished(out2, in, s) /\ ~Finished(out, in2, s)
  BY <1>2, <1>3 DEF Finished
<1>10. Kept(y, out2, in, s) /\ Kept(z, out, in2, s)
  BY <1>2, <1>3, <1>6, <1>7, <1>8, <1>9 DEF Kept
<1> QED BY <1>10 DEF x, y, z, s, out2, in2

(***************************************************************************)
(* What an end has been given, in terms of what the other has written.     *)
(***************************************************************************)
LEMMA StandsFacts ==
  ASSUME NEW frames \in Seq(Frames), NEW o \in Nat, NEW f, Stands(frames, o, f)
  PROVE  LET g == frames[o + 1]
         IN /\ o + 1 \in 1..Len(frames) /\ g \in Frames /\ f \in AnyFrame
            /\ f.stream = g.stream /\ f.follows = g.follows /\ f.complete = g.complete
            /\ f.type # "SKIPPED" => f = g
            /\ f.type = "SKIPPED" => g.type = "REQUEST_FNF" /\ ~g.follows
<1> DEFINE g == frames[o + 1]
<1>1. o + 1 \in 1..Len(frames) /\ f \in {g, Skip(g)}
  BY LenProperties DEF Stands
<1>2. g \in Frames
  BY <1>1, ElementOfSeq
<1> HIDE DEF g
<1>3. f = g \/ f = Skip(g)
  BY <1>1
<1>4. /\ f \in AnyFrame
      /\ f.stream = g.stream /\ f.follows = g.follows /\ f.complete = g.complete
      /\ f.type # "SKIPPED" => f = g
      /\ f.type = "SKIPPED" => g.type = "REQUEST_FNF" /\ ~g.follows
  BY <1>2, <1>3, NotSkipped
<1> QED BY <1>1, <1>2, <1>4 DEF g

LEMMA DeliveredFacts ==
  ASSUME Types, ReaderInv, NEW e \in Endpoints, NEW i \in 1..Len(delivered[e])
  PROVE  LET f == delivered[e][i]
             g == written[Peer(e)][i]
         IN /\ i \in 1..Len(written[Peer(e)]) /\ g \in Frames
            /\ f.stream = g.stream /\ f.follows = g.follows /\ f.complete = g.complete
            /\ f.type # "SKIPPED" => f = g
            /\ f.type = "SKIPPED" => g.type = "REQUEST_FNF" /\ ~g.follows
<1> DEFINE frames == written[Peer(e)]
           o == i - 1
           f == delivered[e][i]
<1>1. delivered[e] \in Seq(AnyFrame) /\ frames \in Seq(Frames)
  BY PeerFacts DEF Types
<1>2. o \in Nat /\ o + 1 = i
  BY <1>1, LenProperties
<1>3. Stands(frames, o, f)
  BY DEF ReaderInv
<1> HIDE DEF frames, o, f
<1>4. LET g == frames[o + 1]
      IN /\ o + 1 \in 1..Len(frames) /\ g \in Frames /\ f \in AnyFrame
         /\ f.stream = g.stream /\ f.follows = g.follows /\ f.complete = g.complete
         /\ f.type # "SKIPPED" => f = g
         /\ f.type = "SKIPPED" => g.type = "REQUEST_FNF" /\ ~g.follows
  BY <1>1, <1>2, <1>3, StandsFacts
<1> QED BY <1>2, <1>4 DEF frames, f

LEMMA StartIsWritten ==
  ASSUME Types, ReaderInv, NEW s \in Streams, SeqHas(delivered["responder"], s, {"REQUEST_CHANNEL"})
  PROVE  SeqHas(written["requester"], s, {"REQUEST_CHANNEL"})
<1>1. "responder" \in Endpoints /\ Peer("responder") = "requester" /\ "requester" \in Endpoints
  BY DEF Endpoints, Peer
<1>2. /\ DOMAIN delivered["responder"] = 1..Len(delivered["responder"])
      /\ DOMAIN written["requester"] = 1..Len(written["requester"])
  BY <1>1, LenProperties DEF Types
<1>3. PICK i \in 1..Len(delivered["responder"]) :
        delivered["responder"][i].stream = s /\ delivered["responder"][i].type = "REQUEST_CHANNEL"
  BY <1>2 DEF SeqHas
<1>4. i \in 1..Len(written["requester"]) /\ delivered["responder"][i] = written["requester"][i]
  BY <1>1, <1>3, DeliveredFacts
<1> QED BY <1>2, <1>3, <1>4 DEF SeqHas

LEMMA NothingBeforeTheStart ==
  ASSUME Types, ReaderInv, RequestInv, NEW e \in Endpoints, NEW s \in Streams,
         ~Began(written[e], delivered[e], s)
  PROVE  /\ Silent(written[e], delivered[e], s)
         /\ e = "requester" => ~Began(written["responder"], delivered["responder"], s)
<1>1. /\ "responder" \in Endpoints /\ Peer("responder") = "requester"
      /\ "requester" \in Endpoints /\ Peer("requester") = "responder"
      /\ e = "requester" \/ e = "responder"
  BY DEF Endpoints, Peer
<1>2. \A x \in Endpoints : /\ DOMAIN delivered[x] = 1..Len(delivered[x])
                           /\ DOMAIN written[x] = 1..Len(written[x])
                           /\ Len(delivered[x]) \in Nat /\ Len(written[x]) \in Nat
  BY LenProperties DEF Types
<1>3. CASE e = "requester"
  <2>1. ~SeqHas(written["requester"], s, {"REQUEST_CHANNEL"})
    BY <1>3 DEF Began
  <2>2. ~SeqHas(delivered["responder"], s, {"REQUEST_CHANNEL"})
    BY <2>1, StartIsWritten
  <2>3. ASSUME NEW i \in 1..Len(written["requester"])
        PROVE  written["requester"][i].stream # s
    <3>1. SUFFICES ASSUME written["requester"][i].stream = s
                   PROVE  FALSE
      OBVIOUS
    <3>2. PICK j \in 1..i : Starts(written["requester"][j], s)
      BY <3>1 DEF RequestInv
    <3>3. j \in 1..Len(written["requester"])
      BY <1>1, <1>2
    <3> QED BY <1>1, <1>2, <2>1, <3>2, <3>3 DEF SeqHas, Starts
  <2>4. ASSUME NEW i \in 1..Len(delivered["requester"])
        PROVE  delivered["requester"][i].stream # s
    <3>1. /\ i \in 1..Len(written["responder"])
          /\ delivered["requester"][i].stream = written["responder"][i].stream
      BY <1>1, DeliveredFacts
    <3> QED BY <2>2, <3>1 DEF RequestInv
  <2>5. ~SeqHas(written["responder"], s, {"REQUEST_CHANNEL"})
    BY <1>1, <1>2 DEF RequestInv, SeqHas, Starts
  <2> QED BY <1>3, <2>2, <2>3, <2>4, <2>5 DEF Silent, Began
<1>4. CASE e = "responder"
  <2>1. ~SeqHas(delivered["responder"], s, {"REQUEST_CHANNEL"})
    BY <1>4 DEF Began
  <2>2. ASSUME NEW i \in 1..Len(written["responder"])
        PROVE  written["responder"][i].stream # s
    BY <2>1 DEF RequestInv
  <2>3. ASSUME NEW i \in 1..Len(delivered["responder"])
        PROVE  delivered["responder"][i].stream # s
    <3>1. SUFFICES ASSUME delivered["responder"][i].stream = s
                   PROVE  FALSE
      OBVIOUS
    <3>2. /\ i \in 1..Len(written["requester"])
          /\ written["requester"][i].stream = s
      BY <1>1, <3>1, DeliveredFacts
    <3>3. PICK j \in 1..i : Starts(written["requester"][j], s)
      BY <3>2 DEF RequestInv
    <3>4. j \in 1..Len(delivered["responder"])
      BY <1>1, <1>2
    <3>5. delivered["responder"][j] = written["requester"][j]
      BY <1>1, <3>3, <3>4, DeliveredFacts DEF Starts
    <3> QED BY <1>1, <1>2, <2>1, <3>3, <3>4, <3>5 DEF SeqHas, Starts
  <2> QED BY <1>4, <2>2, <2>3 DEF Silent
<1> QED BY <1>1, <1>3, <1>4

(***************************************************************************)
(* Writing a frame.                                                        *)
(***************************************************************************)
\* What the protocol may write, in terms of the invariant.
LEMMA MayWriteFacts ==
  ASSUME IInv, NEW e \in Endpoints, NEW f \in Frames, MayWrite(e, f), IsOpen(e)
  PROVE  /\ FirstFragment(f) => \A i \in 1..Len(written[e]) : ~FirstFragment(written[e][i])
         /\ LastFragment(f) => 5 \in outFnf[e] /\ FnfUnderWay(written[e])
         /\ f.type = "PAYLOAD" /\ f.stream \in outFnf[e] => f.stream = 5
         /\ f.type = "REQUEST_CHANNEL" => e = "requester" /\ ~Begun(e, f.stream)
         /\ f.stream \in Streams /\ f.type # "REQUEST_CHANNEL" =>
              Begun(e, f.stream) /\ ~Over(e, f.stream)
<1>1. /\ Types /\ FragmentInv /\ ~IsClosing(e)
      /\ outFnf[e] \subseteq {5} /\ 5 \notin Streams /\ 3 \notin Streams /\ 0 \notin Streams
      /\ written[e] \in Seq(Frames)
  BY LanesAssumption DEF IInv, Types, IsOpen, IsClosing
<1>2. /\ f \in AnyFrame /\ f.type # "SKIPPED"
      /\ f.follows => f.type = "REQUEST_FNF" /\ f.stream = 5
      /\ f.type = "REQUEST_FNF" /\ ~f.follows => f.stream = 3
      /\ f.type \in {"SETUP", "RESUME", "RESUME_OK", "KEEPALIVE", "METADATA_PUSH"} => f.stream = 0
  BY FrameFacts
<1>3. Handshake(e) \in {"SETUP", "RESUME", "RESUME_OK", "none"} /\ f.type # "none"
  BY <1>2 DEF Handshake, AnyFrame, FrameTypes
<1>4. \/ f.type \in {"SETUP", "RESUME", "RESUME_OK", "KEEPALIVE", "METADATA_PUSH"}
      \/ f.type = "REQUEST_FNF" /\ ~SeqHas(written[e], f.stream, {"REQUEST_FNF"})
      \/ f.type = "PAYLOAD" /\ f.stream \in outFnf[e]
      \/ f.type = "REQUEST_CHANNEL" /\ e = "requester" /\ ~Begun(e, f.stream)
      \/ /\ f.type \in {"PAYLOAD", "REQUEST_N", "CANCEL", "ERROR"} /\ f.stream \in Streams
         /\ Begun(e, f.stream) /\ ~Over(e, f.stream)
  BY <1>3 DEF MayWrite
<1>5. FirstFragment(f) => \A i \in 1..Len(written[e]) : ~FirstFragment(written[e][i])
  <2>1. SUFFICES ASSUME FirstFragment(f), NEW i \in 1..Len(written[e]), FirstFragment(written[e][i])
                 PROVE  FALSE
    OBVIOUS
  <2>2. ~SeqHas(written[e], 5, {"REQUEST_FNF"})
    BY <1>2, <1>4, <2>1 DEF FirstFragment
  <2>3. written[e][i] \in Frames /\ DOMAIN written[e] = 1..Len(written[e])
    BY <1>1, ElementOfSeq, LenProperties
  <2>4. written[e][i].stream = 5 /\ written[e][i].type = "REQUEST_FNF"
    BY <2>1, <2>3, FrameFacts DEF FirstFragment
  <2> QED BY <2>2, <2>3, <2>4 DEF SeqHas
<1>6. LastFragment(f) => 5 \in outFnf[e] /\ FnfUnderWay(written[e])
  BY <1>1, <1>4 DEF LastFragment, FragmentInv
<1>7. f.type = "PAYLOAD" /\ f.stream \in outFnf[e] => f.stream = 5
  BY <1>1
<1>8. f.type = "REQUEST_CHANNEL" => e = "requester" /\ ~Begun(e, f.stream)
  BY <1>4
<1>9. f.stream \in Streams /\ f.type # "REQUEST_CHANNEL" => Begun(e, f.stream) /\ ~Over(e, f.stream)
  BY <1>1, <1>2, <1>4
<1> QED BY <1>5, <1>6, <1>7, <1>8, <1>9

\* e writes f: what is common to all the routes it may take.
Writes(e, f) ==
  /\ MayWrite(e, f) /\ IsOpen(e) /\ Len(written[e]) < Bound(e)
  /\ written' = [written EXCEPT ![e] = Append(@, f)]
  /\ TakeOrdinal(e)
  /\ UNCHANGED <<lifecycle, control, inFnf, air, ordering, delivered>>

LEMMA WritesFacts ==
  ASSUME IInv, NEW e \in Endpoints, NEW f \in Frames, Writes(e, f)
  PROVE  /\ written' \in [Endpoints -> Seq(Frames)] /\ nextOut' \in [Endpoints -> Nat]
         /\ written'[e] = Append(written[e], f) /\ nextOut'[e] = nextOut[e] + 1
         /\ \A x \in Endpoints : x # e => written'[x] = written[x] /\ nextOut'[x] = nextOut[x]
         /\ \A x \in Endpoints : Extends(written[x], written'[x])
         /\ Record(nextOut[e], f) \in Records /\ Stands(written'[e], nextOut[e], f)
         /\ nextOut[e] = Len(written[e]) /\ Len(written'[e]) = Len(written[e]) + 1
<1>1. /\ written \in [Endpoints -> Seq(Frames)] /\ written[e] \in Seq(Frames)
      /\ nextOut \in [Endpoints -> Nat] /\ nextOut[e] = Len(written[e])
  BY DEF IInv, Types, WriterInv
<1>2. /\ Append(written[e], f) \in Seq(Frames) /\ Len(written[e]) \in Nat
      /\ Len(Append(written[e], f)) = Len(written[e]) + 1
      /\ Extends(written[e], Append(written[e], f)) /\ Append(written[e], f)[Len(written[e]) + 1] = f
  BY <1>1, AppendFacts
<1>3. /\ written' \in [Endpoints -> Seq(Frames)] /\ nextOut' \in [Endpoints -> Nat]
      /\ written'[e] = Append(written[e], f) /\ nextOut'[e] = nextOut[e] + 1
      /\ \A x \in Endpoints : x # e => written'[x] = written[x] /\ nextOut'[x] = nextOut[x]
  BY <1>1, <1>2 DEF Writes, TakeOrdinal
<1>4. \A x \in Endpoints : Extends(written[x], written'[x])
  <2>1. \A x \in Endpoints : Extends(written[x], written[x])
    BY <1>1, ExtendsRefl, LenProperties
  <2> QED BY <1>2, <1>3, <2>1
<1>5. Record(nextOut[e], f) \in Records
  BY <1>1, <1>2, FrameFacts DEF Record, Records
<1>6. Stands(written'[e], nextOut[e], f)
  BY <1>1, <1>2, <1>3 DEF Stands
<1> QED BY <1>1, <1>2, <1>3, <1>4, <1>5, <1>6

LEMMA WritesCounts ==
  ASSUME IInv, NEW e \in Endpoints, NEW f \in Frames, Writes(e, f),
         opened'[e] \in {opened[e], opened[e] + 1},
         \A x \in Endpoints : x # e => opened'[x] = opened[x]
  PROVE  WriterInv' /\ ReaderInv'
<1>1. Types /\ WriterInv /\ ReaderInv
  BY DEF IInv
<1>2. /\ nextOut'[e] = nextOut[e] + 1
      /\ \A x \in Endpoints : x # e => written'[x] = written[x] /\ nextOut'[x] = nextOut[x]
      /\ \A x \in Endpoints : Extends(written[x], written'[x])
      /\ Len(written'[e]) = Len(written[e]) + 1 /\ Len(written[e]) < Bound(e)
  BY WritesFacts DEF Writes
<1>3. resumed' = resumed /\ phase' = phase /\ nextIn' = nextIn /\ pending' = pending
      /\ draining' = draining /\ delivered' = delivered
  BY DEF Writes, lifecycle, mode, ordering
<1>4. \A x \in Endpoints : Bound(x)' = Bound(x) /\ Bound(x) \in Nat
  BY <1>1, <1>3, LanesAssumption DEF Bound, Types
<1>5. \A x \in Endpoints : Len(written[x]) \in Nat /\ opened[x] \in Nat /\ Len(delivered[x]) \in Nat
  BY <1>1, LenProperties, LanesAssumption DEF Types
<1>6. WriterInv'
  <2>1. /\ nextOut[e] = Len(written[e]) /\ opened[e] <= Len(written[e])
    BY <1>1 DEF WriterInv
  <2>2. nextOut'[e] = Len(written'[e])
    BY <1>2, <2>1
  <2>3. Len(written'[e]) <= Bound(e)
    <3>1. \A n, b \in Nat : n < b => n + 1 <= b
      OBVIOUS
    <3> QED BY <1>2, <1>4, <1>5, <3>1
  <2>4. opened'[e] <= Len(written'[e])
    <3>1. \A n, k \in Nat : k <= n => k <= n + 1 /\ k + 1 <= n + 1
      OBVIOUS
    <3> QED BY <1>2, <1>5, <2>1, <3>1
  <2>5. \A x \in Endpoints : x # e =>
          nextOut'[x] = Len(written'[x]) /\ Len(written'[x]) <= Bound(x) /\ opened'[x] <= Len(written'[x])
    BY <1>1, <1>2 DEF WriterInv
  <2> QED BY <1>4, <2>2, <2>3, <2>4, <2>5 DEF WriterInv
<1>7. ReaderInv'
  <2>1. ASSUME NEW x \in Endpoints, NEW i \in 1..Len(delivered[x])
        PROVE  Stands(written'[Peer(x)], i - 1, delivered[x][i])
    <3> DEFINE frames == written[Peer(x)]
               next == written'[Peer(x)]
               g == delivered[x][i]
    <3>1. Stands(frames, i - 1, g) /\ Extends(frames, next) /\ Len(frames) \in Nat /\ Len(next) \in Nat
      <4>1. written'[Peer(x)] \in Seq(Frames)
        BY WritesFacts, PeerFacts
      <4> QED BY <1>1, <1>2, <1>5, <4>1, PeerFacts, LenProperties DEF ReaderInv
    <3> HIDE DEF frames, next, g
    <3>2. i - 1 \in Nat /\ (i - 1) + 1 = i
      BY <1>5
    <3>3. i \in 1..Len(frames)
      BY <3>1, <3>2 DEF Stands
    <3> QED BY <3>1, <3>2, <3>3 DEF Stands, Extends, frames, next, g
  <2>2. \A x \in Endpoints : Len(delivered[x]) <= Len(written'[Peer(x)])
    <3>1. \A x \in Endpoints : Len(delivered[x]) <= Len(written[Peer(x)]) /\ Len(written[Peer(x)]) <= Len(written'[Peer(x)])
                               /\ Len(written[Peer(x)]) \in Nat /\ Len(written'[Peer(x)]) \in Nat
      <4>1. \A x \in Endpoints : Len(written'[x]) \in Nat
        BY WritesFacts, LenProperties
      <4> QED BY <1>1, <1>2, <1>5, <4>1, PeerFacts DEF ReaderInv, Extends
    <3>2. \A a, b, c \in Nat : a <= b /\ b <= c => a <= c
      OBVIOUS
    <3> QED BY <1>5, <3>1, <3>2
  <2> QED BY <1>1, <1>3, <2>1, <2>2 DEF ReaderInv, IsOpen
<1> QED BY <1>6, <1>7

\* A record just written stands for its frame; it only has to be on a lane
\* that may carry it.
LEMMA WritesTransit ==
  ASSUME IInv, NEW e \in Endpoints, NEW f \in Frames, Writes(e, f),
         \A x \in Endpoints : MapExtends(laneStream[x], laneStream'[x]),
         \A x \in Endpoints : \A lane \in Lanes : \A i \in 1..Len(wire'[x][lane]) :
           \/ \E j \in 1..Len(wire[x][lane]) : wire'[x][lane][i] = wire[x][lane][j]
           \/ /\ x = e /\ wire'[x][lane][i] = Record(nextOut[e], f)
              /\ Routed(laneStream'[e], unreliable, lane, f),
         \A x \in Endpoints : \A i \in 1..Len(datagrams'[x]) :
           \/ \E j \in 1..Len(datagrams[x]) : datagrams'[x][i] = datagrams[x][j]
           \/ /\ x = e /\ datagrams'[x][i] = Record(nextOut[e], f)
              /\ Routed(laneStream'[e], unreliable, Datagram(e), f)
  PROVE  TransitInv'
<1>1. Types /\ TransitInv
  BY DEF IInv
<1>2. /\ unreliable' = unreliable /\ air' = air /\ pending' = pending
  BY DEF Writes, lifecycle, mode, ordering
<1>3. /\ written' \in [Endpoints -> Seq(Frames)]
      /\ \A x \in Endpoints : Extends(written[x], written'[x])
      /\ Stands(written'[e], nextOut[e], f)
  BY WritesFacts
<1>4. Record(nextOut[e], f).ordinal = nextOut[e] /\ Record(nextOut[e], f).frame = f
  BY DEF Record
<1>5. ASSUME NEW x \in Endpoints, NEW lane \in Lanes, NEW i \in 1..Len(wire'[x][lane])
      PROVE  \/ \E j \in 1..Len(wire[x][lane]) : wire'[x][lane][i] = wire[x][lane][j]
             \/ Good(written'[x], laneStream'[x], unreliable, lane,
                     wire'[x][lane][i].ordinal, wire'[x][lane][i].frame)
  <2>1. CASE /\ x = e /\ wire'[x][lane][i] = Record(nextOut[e], f)
             /\ Routed(laneStream'[e], unreliable, lane, f)
    <3> HIDE DEF Writes
    <3> QED BY <1>3, <1>4, <2>1 DEF Good
  <2> QED BY <2>1
<1>6. ASSUME NEW x \in Endpoints, NEW i \in 1..Len(datagrams'[x])
      PROVE  \/ \E j \in 1..Len(datagrams[x]) : datagrams'[x][i] = datagrams[x][j]
             \/ Good(written'[x], laneStream'[x], unreliable, Datagram(x),
                     datagrams'[x][i].ordinal, datagrams'[x][i].frame)
  <2>1. CASE /\ x = e /\ datagrams'[x][i] = Record(nextOut[e], f)
             /\ Routed(laneStream'[e], unreliable, Datagram(e), f)
    BY <1>3, <1>4, <2>1 DEF Good
  <2> QED BY <2>1
<1>7. \A x \in Endpoints : \A r \in air'[x] :
        r \in air[x] \/ Good(written'[x], laneStream'[x], unreliable, Datagram(x), r.ordinal, r.frame)
  BY <1>2
<1>8. \A x \in Endpoints : \A o \in DOMAIN pending'[Peer(x)] :
        \/ o \in DOMAIN pending[Peer(x)] /\ pending'[Peer(x)][o] = pending[Peer(x)][o]
        \/ Good(written'[x], laneStream'[x], unreliable, pending'[Peer(x)][o].lane, o,
                pending'[Peer(x)][o].frame)
  BY <1>2
<1>9. \A x \in Endpoints : MapExtends(laneStream[x], laneStream'[x])
  OBVIOUS
<1> QED BY ONLY <1>1, <1>2, <1>3, <1>5, <1>6, <1>7, <1>8, <1>9, TransitStep

LEMMA WritesFragments ==
  ASSUME IInv, NEW e \in Endpoints, NEW f \in Frames, Writes(e, f),
         \A x \in Endpoints : x # e => outFnf'[x] = outFnf[x],
         FirstFragment(f) => 5 \in outFnf'[e],
         LastFragment(f) => 5 \notin outFnf'[e],
         ~FirstFragment(f) /\ ~LastFragment(f) => (5 \in outFnf'[e] <=> 5 \in outFnf[e])
  PROVE  FragmentInv'
<1>1. Types /\ FragmentInv /\ written[e] \in Seq(Frames)
  BY DEF IInv, Types
<1>2. phase' = phase /\ inFnf' = inFnf /\ delivered' = delivered
  BY DEF Writes, lifecycle
<1>3. /\ written'[e] = Append(written[e], f)
      /\ \A x \in Endpoints : x # e => written'[x] = written[x]
  BY WritesFacts
<1>4. /\ FirstFragment(f) => \A i \in 1..Len(written[e]) : ~FirstFragment(written[e][i])
      /\ LastFragment(f) => FnfUnderWay(written[e])
  BY MayWriteFacts DEF Writes
<1>5. /\ FnfUnderWay(written'[e]) <=>
           /\ ~LastFragment(f)
           /\ \/ FnfUnderWay(written[e])
              \/ FirstFragment(f) /\ \A i \in 1..Len(written[e]) : ~LastFragment(written[e][i])
      /\ WellFragmented(written'[e])
  BY <1>1, <1>3, <1>4, FragmentAppend DEF FragmentInv
<1>6. FirstFragment(f) => \A i \in 1..Len(written[e]) : ~LastFragment(written[e][i])
  <2>1. Len(written[e]) \in Nat
    BY <1>1, LenProperties
  <2>2. \A i \in 1..Len(written[e]) : \A j \in 1..(i - 1) : j \in 1..Len(written[e])
    BY <2>1
  <2> QED BY <1>1, <1>4, <2>2 DEF FragmentInv, WellFragmented
<1>7. FirstFragment(f) => ~LastFragment(f)
  BY DEF FirstFragment, LastFragment
<1>8. ~IsClosing(e) => (5 \in outFnf'[e] <=> FnfUnderWay(written'[e]))
  BY <1>1, <1>5, <1>6, <1>7 DEF FragmentInv
<1> QED BY <1>1, <1>2, <1>3, <1>5, <1>8 DEF FragmentInv, IsClosing

\* A frame that belongs to no interaction.
LEMMA WriteAside ==
  ASSUME IInv, NEW e \in Endpoints, NEW f \in Frames, Writes(e, f), f.stream \notin Streams,
         UNCHANGED mapping,
         outFnf' \in [Endpoints -> SUBSET {5}],
         datagrams' \in [Endpoints -> Seq(Records)],
         wire' \in [Endpoints -> [Lanes -> Seq(Records)]],
         TransitInv', FragmentInv'
  PROVE  IInv'
<1>1. Types /\ LaneInv /\ LifeInv
  BY DEF IInv
<1>2. /\ resumed' = resumed /\ unreliable' = unreliable /\ phase' = phase /\ subscribed' = subscribed
      /\ control' = control /\ inFnf' = inFnf /\ air' = air
      /\ nextIn' = nextIn /\ pending' = pending /\ draining' = draining /\ delivered' = delivered
      /\ opened' = opened /\ interactions' = interactions /\ laneStream' = laneStream /\ finished' = finished
  BY DEF Writes, lifecycle, mode, ordering, mapping
<1>3. /\ written' \in [Endpoints -> Seq(Frames)] /\ nextOut' \in [Endpoints -> Nat]
      /\ written'[e] = Append(written[e], f)
      /\ \A x \in Endpoints : x # e => written'[x] = written[x]
  BY WritesFacts
<1>4. Types'
  BY <1>1, <1>2, <1>3 DEF Types
<1>5. WriterInv' /\ ReaderInv'
  BY <1>2, WritesCounts
<1>6. LaneInv'
  BY <1>1, <1>2 DEF LaneInv
<1>7. ASSUME ~resumed
      PROVE  RequestInv' /\ KeptInv' /\ OneLaneInv'
  <2>1. RequestInv /\ KeptInv /\ OneLaneInv
    BY <1>1, <1>7 DEF LifeInv
  <2>2. \A x \in Endpoints : written[x] \in Seq(AnyFrame) /\ delivered[x] \in Seq(AnyFrame)
    BY <1>1, FramesAreFrames DEF Types
  <2>3. f \in AnyFrame /\ \A s \in Streams : f.stream # s
    BY FrameFacts
  <2>4. \A x \in Endpoints, s \in Streams :
          Began(written'[x], delivered[x], s) <=> Began(written[x], delivered[x], s)
    <3>1. \A s \in Streams :
            Began(Append(written[e], f), delivered[e], s) <=> Began(written[e], delivered[e], s)
      BY <2>2, <2>3, KeptOfOthers
    <3> QED BY <1>3, <3>1
  <2>5. KeptInv'
    <3>1. ASSUME NEW x \in Endpoints, NEW s \in Streams, Kept(interactions[x][s], written[x], delivered[x], s)
          PROVE  Kept(interactions[x][s], written'[x], delivered[x], s)
      <4>1. CASE x = e
        <5> DEFINE y == interactions[e][s]
        <5>1. Kept(y, written[e], delivered[e], s)
          BY <3>1, <4>1
        <5> HIDE DEF y
        <5>2. Kept(y, Append(written[e], f), delivered[e], s)
          BY <2>2, <2>3, <5>1, KeptOfOthers
        <5> QED BY <1>3, <4>1, <5>2 DEF y
      <4>2. CASE x # e
        BY <1>3, <3>1, <4>2
      <4> QED BY <4>1, <4>2
    <3> QED BY <1>2, <2>1, <3>1 DEF KeptInv, IsClosing
  <2>6. OneLaneInv'
    BY <1>2, <2>1, <2>4 DEF OneLaneInv, IsClosing
  <2>7. RequestInv'
    <3>1. /\ "requester" \in Endpoints /\ "responder" \in Endpoints /\ e \in {"requester", "responder"}
      BY DEF Endpoints
    <3>2. \A x \in Endpoints : \A i \in 1..Len(written'[x]) :
            \/ i \in 1..Len(written[x]) /\ written'[x][i] = written[x][i]
            \/ written'[x][i] = f
      <4>1. \A i \in 1..Len(written'[e]) :
            \/ i \in 1..Len(written[e]) /\ written'[e][i] = written[e][i]
            \/ written'[e][i] = f
        BY <1>3, <2>2, <2>3, AppendFacts
      <4> QED BY <1>3, <4>1
    <3>3. \A x \in Endpoints : Len(written[x]) \in Nat /\ Extends(written[x], written'[x])
      BY <2>2, LenProperties, WritesFacts
    <3>4. \A s \in Streams : ~Starts(f, s)
      BY DEF Starts
    <3>5. ASSUME NEW s \in Streams, NEW i \in 1..Len(written'["requester"]), written'["requester"][i].stream = s
          PROVE  \E j \in 1..i : Starts(written'["requester"][j], s)
      <4>1. i \in 1..Len(written["requester"]) /\ written["requester"][i].stream = s
        BY <3>1, <3>2, <3>5
      <4>2. PICK j \in 1..i : Starts(written["requester"][j], s)
        BY <2>1, <4>1 DEF RequestInv
      <4>3. j \in 1..Len(written["requester"])
        BY <3>1, <3>3, <4>1
      <4> QED BY <3>1, <3>3, <4>2, <4>3 DEF Extends
    <3>6. ASSUME NEW s \in Streams, NEW i \in 1..Len(written'["responder"])
          PROVE  /\ ~Starts(written'["responder"][i], s)
                 /\ written'["responder"][i].stream = s =>
                      SeqHas(delivered["responder"], s, {"REQUEST_CHANNEL"})
      <4>1. CASE i \in 1..Len(written["responder"]) /\ written'["responder"][i] = written["responder"][i]
        BY <2>1, <4>1 DEF RequestInv
      <4>2. CASE written'["responder"][i] = f
        BY <3>4, <4>2
      <4> QED BY <3>1, <3>2, <4>1, <4>2
    <3>7. ASSUME NEW s \in Streams, NEW i \in 1..Len(written'["requester"]), NEW j \in 1..Len(written'["requester"]),
                 Starts(written'["requester"][i], s), Starts(written'["requester"][j], s)
          PROVE  i = j
      <4>1. /\ i \in 1..Len(written["requester"]) /\ written'["requester"][i] = written["requester"][i]
            /\ j \in 1..Len(written["requester"]) /\ written'["requester"][j] = written["requester"][j]
        BY <3>1, <3>2, <3>4, <3>7
      <4> QED BY <2>1, <3>7, <4>1 DEF RequestInv
    <3> QED BY <1>2, <3>5, <3>6, <3>7 DEF RequestInv
  <2> QED BY <2>5, <2>6, <2>7
<1>8. LifeInv'
  BY <1>2, <1>7 DEF LifeInv
<1> QED BY <1>4, <1>5, <1>6, <1>8 DEF IInv

\* A record enqueued on one lane of e.
LEMMA EnqueueOne ==
  ASSUME Types, NEW e \in Endpoints, NEW lane \in Lanes, NEW r \in Records
  PROVE  LET q == Enqueued(e, lane, <<r>>)
         IN /\ q \in [Endpoints -> [Lanes -> Seq(Records)]]
            /\ \A x \in Endpoints : \A l \in Lanes : ~(x = e /\ l = lane) => q[x][l] = wire[x][l]
            /\ \A i \in 1..Len(q[e][lane]) :
                 (\E j \in 1..Len(wire[e][lane]) : q[e][lane][i] = wire[e][lane][j]) \/ q[e][lane][i] = r
<1> DEFINE old == wire[e][lane]
           q == Enqueued(e, lane, <<r>>)
<1>1. wire \in [Endpoints -> [Lanes -> Seq(Records)]] /\ old \in Seq(Records)
  BY DEF Types
<1>2. /\ Append(old, r) \in Seq(Records) /\ old \o <<r>> = Append(old, r)
      /\ \A i \in 1..Len(Append(old, r)) :
           (i \in 1..Len(old) /\ Append(old, r)[i] = old[i]) \/ Append(old, r)[i] = r
  BY <1>1, AppendFacts
<1>3. /\ q \in [Endpoints -> [Lanes -> Seq(Records)]]
      /\ q[e][lane] = Append(old, r)
      /\ \A x \in Endpoints : \A l \in Lanes : ~(x = e /\ l = lane) => q[x][l] = wire[x][l]
  <2>1. q = [wire EXCEPT ![e] = [wire[e] EXCEPT ![lane] = old \o <<r>>]]
    BY <1>1 DEF Enqueued
  <2> HIDE DEF old, q
  <2> QED BY <1>1, <1>2, <2>1
<1> HIDE DEF q
<1>4. \A i \in 1..Len(q[e][lane]) :
        (\E j \in 1..Len(wire[e][lane]) : q[e][lane][i] = wire[e][lane][j]) \/ q[e][lane][i] = r
  BY <1>2, <1>3
<1> QED BY <1>3, <1>4 DEF q

\* A frame written to a lane that may carry it.
LEMMA LaneTransit ==
  ASSUME IInv, NEW e \in Endpoints, NEW f \in Frames, Writes(e, f), NEW lane \in Lanes,
         wire' = Enqueued(e, lane, <<Record(nextOut[e], f)>>), datagrams' = datagrams,
         \A x \in Endpoints : MapExtends(laneStream[x], laneStream'[x]),
         Routed(laneStream'[e], unreliable, lane, f)
  PROVE  TransitInv' /\ wire' \in [Endpoints -> [Lanes -> Seq(Records)]]
<1> DEFINE r == Record(nextOut[e], f)
           q == Enqueued(e, lane, <<r>>)
<1>1. Types /\ r \in Records
  BY WritesFacts DEF IInv
<1> HIDE DEF r
<1>2. /\ q \in [Endpoints -> [Lanes -> Seq(Records)]]
      /\ \A x \in Endpoints : \A l \in Lanes : ~(x = e /\ l = lane) => q[x][l] = wire[x][l]
      /\ \A i \in 1..Len(q[e][lane]) :
           (\E j \in 1..Len(wire[e][lane]) : q[e][lane][i] = wire[e][lane][j]) \/ q[e][lane][i] = r
  BY <1>1, EnqueueOne
<1>3. wire' = q
  BY DEF r
<1> HIDE DEF q
<1>4. \A x \in Endpoints : \A l \in Lanes : \A i \in 1..Len(wire'[x][l]) :
        \/ \E j \in 1..Len(wire[x][l]) : wire'[x][l][i] = wire[x][l][j]
        \/ /\ x = e /\ wire'[x][l][i] = Record(nextOut[e], f)
           /\ Routed(laneStream'[e], unreliable, l, f)
  <2> SUFFICES ASSUME NEW x \in Endpoints, NEW l \in Lanes, NEW i \in 1..Len(wire'[x][l])
               PROVE  \/ \E j \in 1..Len(wire[x][l]) : wire'[x][l][i] = wire[x][l][j]
                      \/ /\ x = e /\ wire'[x][l][i] = Record(nextOut[e], f)
                         /\ Routed(laneStream'[e], unreliable, l, f)
    OBVIOUS
  <2>1. CASE x = e /\ l = lane
    BY <1>2, <1>3, <2>1 DEF r
  <2>2. CASE ~(x = e /\ l = lane)
    <3>1. wire'[x][l] = wire[x][l]
      BY <1>2, <1>3, <2>2
    <3> QED BY <3>1
  <2> QED BY <2>1, <2>2
<1>5. \A x \in Endpoints : \A i \in 1..Len(datagrams'[x]) :
        \/ \E j \in 1..Len(datagrams[x]) : datagrams'[x][i] = datagrams[x][j]
        \/ /\ x = e /\ datagrams'[x][i] = Record(nextOut[e], f)
           /\ Routed(laneStream'[e], unreliable, Datagram(e), f)
  OBVIOUS
<1>6. TransitInv'
  BY <1>4, <1>5, WritesTransit
<1> QED BY <1>2, <1>3, <1>6

LEMMA WriteReliableStep ==
  ASSUME IInv, NEW e \in Endpoints, NEW f \in Frames, Writes(e, f),
         Routed(laneStream[e], unreliable, Reliable(e), f), WriteReliable(e, f)
  PROVE  IInv'
<1>1. Types /\ outFnf \in [Endpoints -> SUBSET {5}] /\ outFnf[e] \subseteq {5}
  BY DEF IInv, Types
<1>3. /\ wire' = Enqueued(e, Reliable(e), <<Record(nextOut[e], f)>>)
      /\ outFnf' = [outFnf EXCEPT ![e] =
           IF f.stream = 0 THEN @ ELSE IF f.follows THEN @ \cup {f.stream} ELSE @ \ {f.stream}]
      /\ UNCHANGED mapping /\ datagrams' = datagrams /\ laneStream' = laneStream
  BY DEF WriteReliable, mapping
<1>4. /\ f.follows => f.type = "REQUEST_FNF" /\ f.stream = 5
      /\ f.type = "REQUEST_FNF" /\ ~f.follows => f.stream = 3
      /\ f.type = "METADATA_PUSH" => f.stream = 0
      /\ f.type \in {"METADATA_PUSH", "REQUEST_FNF"} \/ (f.type = "PAYLOAD" /\ f.stream = 5)
  BY FrameFacts, LaneFacts DEF Routed
<1>5. f.stream \notin Streams
  BY <1>4, LanesAssumption
<1>6. /\ outFnf' \in [Endpoints -> SUBSET {5}]
      /\ \A x \in Endpoints : x # e => outFnf'[x] = outFnf[x]
      /\ outFnf'[e] = IF f.stream = 0 THEN outFnf[e]
                      ELSE IF f.follows THEN outFnf[e] \cup {f.stream} ELSE outFnf[e] \ {f.stream}
  BY <1>1, <1>3, <1>4
<1>7. FragmentInv'
  <2>1. FirstFragment(f) => 5 \in outFnf'[e]
    BY <1>4, <1>6 DEF FirstFragment
  <2>2. LastFragment(f) => 5 \notin outFnf'[e]
    BY <1>4, <1>6 DEF LastFragment
  <2>3. ~FirstFragment(f) /\ ~LastFragment(f) => (5 \in outFnf'[e] <=> 5 \in outFnf[e])
    BY <1>4, <1>6 DEF FirstFragment, LastFragment
  <2> QED BY <1>6, <2>1, <2>2, <2>3, WritesFragments
<1>8. \A x \in Endpoints : MapExtends(laneStream[x], laneStream'[x])
  BY <1>3, ExtendsRefl
<1>9. Reliable(e) \in Lanes /\ Routed(laneStream'[e], unreliable, Reliable(e), f)
  BY <1>3, LaneFacts
<1>10. TransitInv' /\ wire' \in [Endpoints -> [Lanes -> Seq(Records)]]
  BY <1>3, <1>8, <1>9, LaneTransit
<1>11. datagrams' \in [Endpoints -> Seq(Records)]
  BY <1>1, <1>3 DEF Types
<1> QED BY <1>3, <1>5, <1>6, <1>7, <1>10, <1>11, WriteAside

\* A frame that is no fragment leaves the fragmented requests as they are.
LEMMA WritesNoFragment ==
  ASSUME IInv, NEW e \in Endpoints, NEW f \in Frames, Writes(e, f),
         ~FirstFragment(f), ~LastFragment(f), outFnf' = outFnf
  PROVE  FragmentInv' /\ outFnf' \in [Endpoints -> SUBSET {5}]
BY WritesFragments DEF IInv, Types

LEMMA WriteControlStep ==
  ASSUME IInv, NEW e \in Endpoints, NEW f \in Frames, Writes(e, f),
         IsControlFrame(f), WriteControl(e, f)
  PROVE  IInv'
<1>1. Types
  BY DEF IInv
<1>3. /\ wire' = Enqueued(e, Control, <<Record(nextOut[e], f)>>)
      /\ UNCHANGED mapping /\ datagrams' = datagrams /\ laneStream' = laneStream /\ outFnf' = outFnf
  BY DEF WriteControl, mapping
<1>4. f.stream \notin Streams /\ ~FirstFragment(f) /\ ~LastFragment(f)
  BY LanesAssumption DEF IsControlFrame, FirstFragment, LastFragment
<1>5. FragmentInv' /\ outFnf' \in [Endpoints -> SUBSET {5}]
  BY <1>3, <1>4, WritesNoFragment
<1>6. \A x \in Endpoints : MapExtends(laneStream[x], laneStream'[x])
  BY <1>3, ExtendsRefl
<1>7. Control \in Lanes /\ Routed(laneStream'[e], unreliable, Control, f)
  BY LaneFacts DEF Routed
<1>8. TransitInv' /\ wire' \in [Endpoints -> [Lanes -> Seq(Records)]]
  BY <1>3, <1>6, <1>7, LaneTransit
<1>9. datagrams' \in [Endpoints -> Seq(Records)]
  BY <1>1, <1>3 DEF Types
<1> QED BY <1>3, <1>4, <1>5, <1>8, <1>9, WriteAside

LEMMA WriteDatagramStep ==
  ASSUME IInv, NEW e \in Endpoints, NEW f \in Frames, Writes(e, f),
         f.type = "REQUEST_FNF", ~f.follows, unreliable, WriteDatagram(e, f)
  PROVE  IInv'
<1>1. Types /\ datagrams \in [Endpoints -> Seq(Records)] /\ wire \in [Endpoints -> [Lanes -> Seq(Records)]]
  BY DEF IInv, Types
<1> DEFINE r == Record(nextOut[e], f)
<1>2. r \in Records
  BY WritesFacts
<1>3. /\ UNCHANGED mapping /\ laneStream' = laneStream /\ outFnf' = outFnf
      /\ \/ datagrams' = [datagrams EXCEPT ![e] = Append(@, r)] /\ wire' = wire
         \/ wire' = Enqueued(e, Reliable(e), <<r>>) /\ datagrams' = datagrams
  BY DEF WriteDatagram, mapping
<1>4. f.stream \notin Streams /\ ~FirstFragment(f) /\ ~LastFragment(f)
  BY FrameFacts, LanesAssumption DEF FirstFragment, LastFragment
<1>5. FragmentInv' /\ outFnf' \in [Endpoints -> SUBSET {5}]
  BY <1>3, <1>4, WritesNoFragment
<1>6. \A x \in Endpoints : MapExtends(laneStream[x], laneStream'[x])
  BY <1>3, ExtendsRefl
<1>7. Routed(laneStream'[e], unreliable, Datagram(e), f) /\ Routed(laneStream'[e], unreliable, Reliable(e), f)
  BY LaneFacts DEF Routed
<1>8. CASE datagrams' = [datagrams EXCEPT ![e] = Append(@, r)] /\ wire' = wire
  <2> HIDE DEF r
  <2>1. datagrams[e] \in Seq(Records) /\ datagrams'[e] = Append(datagrams[e], r)
    BY <1>1, <1>8
  <2>2. /\ Append(datagrams[e], r) \in Seq(Records)
        /\ \A i \in 1..Len(Append(datagrams[e], r)) :
             \/ i \in 1..Len(datagrams[e]) /\ Append(datagrams[e], r)[i] = datagrams[e][i]
             \/ Append(datagrams[e], r)[i] = r
    BY <1>2, <2>1, AppendFacts
  <2>3. datagrams' \in [Endpoints -> Seq(Records)]
    BY <1>1, <1>8, <2>2
  <2>4. \A x \in Endpoints : \A i \in 1..Len(datagrams'[x]) :
          \/ \E j \in 1..Len(datagrams[x]) : datagrams'[x][i] = datagrams[x][j]
          \/ /\ x = e /\ datagrams'[x][i] = Record(nextOut[e], f)
             /\ Routed(laneStream'[e], unreliable, Datagram(e), f)
    <3>1. \A i \in 1..Len(datagrams'[e]) :
            (\E j \in 1..Len(datagrams[e]) : datagrams'[e][i] = datagrams[e][j]) \/ datagrams'[e][i] = r
      BY <2>1, <2>2
    <3>2. \A x \in Endpoints : x # e => datagrams'[x] = datagrams[x]
      BY <1>1, <1>8
    <3> QED BY <1>7, <3>1, <3>2 DEF r
  <2>5. TransitInv'
    <3>1. \A x \in Endpoints : \A l \in Lanes : \A i \in 1..Len(wire'[x][l]) :
            \/ \E j \in 1..Len(wire[x][l]) : wire'[x][l][i] = wire[x][l][j]
            \/ /\ x = e /\ wire'[x][l][i] = Record(nextOut[e], f)
               /\ Routed(laneStream'[e], unreliable, l, f)
      BY <1>8
    <3> QED BY <1>6, <2>4, <3>1, WritesTransit
  <2>6. wire' \in [Endpoints -> [Lanes -> Seq(Records)]]
    BY <1>1, <1>8
  <2> QED BY <1>3, <1>4, <1>5, <2>3, <2>5, <2>6, WriteAside
<1>9. CASE wire' = Enqueued(e, Reliable(e), <<r>>) /\ datagrams' = datagrams
  <2>1. Reliable(e) \in Lanes
    BY LaneFacts
  <2>2. TransitInv' /\ wire' \in [Endpoints -> [Lanes -> Seq(Records)]]
    BY <1>6, <1>7, <1>9, <2>1, LaneTransit
  <2>3. datagrams' \in [Endpoints -> Seq(Records)]
    BY <1>1, <1>9
  <2> QED BY <1>3, <1>4, <1>5, <2>2, <2>3, WriteAside
<1> QED BY <1>3, <1>8, <1>9

(***************************************************************************)
(* A frame of an interaction, written or read: what becomes of the lanes.  *)
(***************************************************************************)
\* s takes lane at e, its entry becomes after, the writers of gone finish.
Maps(e, s, lane, after, gone) ==
  /\ laneStream' = [laneStream EXCEPT ![e] = MapSet(@, lane, s)]
  /\ interactions' = [interactions EXCEPT ![e][s] = after]
  /\ finished' = [finished EXCEPT ![e] = @ \cup gone]

LEMMA MapsFacts ==
  ASSUME Types, NEW e \in Endpoints, NEW s \in Streams, NEW lane \in InteractionLanes,
         NEW after \in Entries, NEW gone \in SUBSET InteractionLanes,
         Maps(e, s, lane, after, gone),
         lane \in DOMAIN laneStream[e] => laneStream[e][lane] = s
  PROVE  /\ laneStream' \in [Endpoints -> LaneMaps]
         /\ interactions' \in [Endpoints -> [Streams -> Entries]]
         /\ finished' \in [Endpoints -> SUBSET InteractionLanes]
         /\ DOMAIN laneStream'[e] = {lane} \cup DOMAIN laneStream[e]
         /\ laneStream'[e][lane] = s
         /\ \A l \in DOMAIN laneStream[e] : laneStream'[e][l] = laneStream[e][l]
         /\ \A x \in Endpoints : MapExtends(laneStream[x], laneStream'[x])
         /\ interactions'[e][s] = after
         /\ \A t \in Streams : t # s => interactions'[e][t] = interactions[e][t]
         /\ finished'[e] = finished[e] \cup gone
         /\ \A x \in Endpoints : x # e =>
              /\ laneStream'[x] = laneStream[x] /\ interactions'[x] = interactions[x]
              /\ finished'[x] = finished[x]
<1> DEFINE map == laneStream[e]
           next == MapSet(map, lane, s)
           D == DOMAIN map
<1>1. /\ laneStream \in [Endpoints -> LaneMaps] /\ interactions \in [Endpoints -> [Streams -> Entries]]
      /\ finished \in [Endpoints -> SUBSET InteractionLanes] /\ map \in LaneMaps
  BY DEF Types
<1>2. /\ D \in SUBSET InteractionLanes /\ map \in [D -> Streams] /\ next \in LaneMaps
  BY <1>1, LaneMapFacts
<1>3. /\ laneStream' = [laneStream EXCEPT ![e] = next]
      /\ interactions' = [interactions EXCEPT ![e][s] = after]
      /\ finished' = [finished EXCEPT ![e] = @ \cup gone]
  BY DEF Maps
<1>4. lane \in D => map[lane] = s
  OBVIOUS
<1> HIDE DEF map, D
<1>5. /\ DOMAIN next = {lane} \cup D /\ next[lane] = s
      /\ \A k \in D : k # lane => next[k] = map[k]
  BY DEF MapSet, D
<1>6. \A k \in D : next[k] = map[k]
  BY <1>4, <1>5
<1> HIDE DEF next
<1>7. /\ laneStream' \in [Endpoints -> LaneMaps]
      /\ interactions' \in [Endpoints -> [Streams -> Entries]]
      /\ finished' \in [Endpoints -> SUBSET InteractionLanes]
  BY <1>1, <1>2, <1>3
<1>8. /\ laneStream'[e] = next /\ interactions'[e][s] = after /\ finished'[e] = finished[e] \cup gone
      /\ \A t \in Streams : t # s => interactions'[e][t] = interactions[e][t]
  BY <1>1, <1>3
<1>9. \A x \in Endpoints : x # e =>
        /\ laneStream'[x] = laneStream[x] /\ interactions'[x] = interactions[x]
        /\ finished'[x] = finished[x]
  BY <1>1, <1>3
<1>10. \A x \in Endpoints : MapExtends(laneStream[x], laneStream'[x])
  BY <1>5, <1>6, <1>8, <1>9 DEF MapExtends, map, D
<1> QED BY <1>5, <1>6, <1>7, <1>8, <1>9, <1>10 DEF map, D

LEMMA MapsLanes ==
  ASSUME Types, LaneInv, NEW e \in Endpoints, NEW s \in Streams, NEW lane \in InteractionLanes,
         NEW after \in Entries, NEW gone \in SUBSET InteractionLanes,
         Maps(e, s, lane, after, gone),
         \A x \in Endpoints : lane \in DOMAIN laneStream[x] => laneStream[x][lane] = s,
         opened' \in [Endpoints -> 0..MaxLanes],
         \A x \in Endpoints : opened[x] <= opened'[x],
         lane.k <= opened'[lane.opener],
         \A l \in gone : l = lane \/ (l \in DOMAIN laneStream[e] /\ laneStream[e][l] = s),
         after # NoInteraction =>
           /\ after.lane \notin finished[e] \cup gone
           /\ after.lane = lane \/ (after.lane \in DOMAIN laneStream[e] /\ laneStream[e][after.lane] = s)
  PROVE  LaneInv'
<1>1. /\ DOMAIN laneStream'[e] = {lane} \cup DOMAIN laneStream[e]
      /\ laneStream'[e][lane] = s
      /\ \A l \in DOMAIN laneStream[e] : laneStream'[e][l] = laneStream[e][l]
      /\ interactions'[e][s] = after
      /\ \A t \in Streams : t # s => interactions'[e][t] = interactions[e][t]
      /\ finished'[e] = finished[e] \cup gone
      /\ \A x \in Endpoints : x # e =>
           /\ laneStream'[x] = laneStream[x] /\ interactions'[x] = interactions[x]
           /\ finished'[x] = finished[x]
  BY MapsFacts
<1>2. \A x \in Endpoints : \A l \in DOMAIN laneStream[x] : l \in InteractionLanes
  BY LaneMapFacts DEF Types
<1>3. \A x \in Endpoints : \A l \in DOMAIN laneStream'[x] : l.k <= opened'[l.opener]
  <2>1. \A x \in Endpoints : \A l \in DOMAIN laneStream[x] : l.k <= opened'[l.opener]
    <3> SUFFICES ASSUME NEW x \in Endpoints, NEW l \in DOMAIN laneStream[x]
                 PROVE  l.k <= opened'[l.opener]
      OBVIOUS
    <3>1. l.opener \in Endpoints /\ l.k \in 1..MaxLanes
      BY <1>2, LaneFacts
    <3>2. /\ l.k <= opened[l.opener] /\ opened[l.opener] <= opened'[l.opener]
          /\ opened[l.opener] \in 0..MaxLanes /\ opened'[l.opener] \in 0..MaxLanes
      BY <3>1 DEF Types, LaneInv
    <3>3. \A a, b, c \in Int : a <= b /\ b <= c => a <= c
      OBVIOUS
    <3>4. l.k \in Int /\ opened[l.opener] \in Int /\ opened'[l.opener] \in Int
      BY <3>1, <3>2
    <3> QED BY <3>2, <3>3, <3>4
  <2> QED BY <1>1, <2>1
<1>4. \A x \in Endpoints : \A l \in DOMAIN laneStream'[x] \cap DOMAIN laneStream'[Peer(x)] :
        laneStream'[x][l] = laneStream'[Peer(x)][l]
  <2>1. \A x \in Endpoints : \A l \in DOMAIN laneStream'[x] :
          \/ l = lane /\ laneStream'[x][l] = s
          \/ l # lane /\ l \in DOMAIN laneStream[x] /\ laneStream'[x][l] = laneStream[x][l]
    BY <1>1
  <2>2. \A x \in Endpoints : \A l \in DOMAIN laneStream[x] \cap DOMAIN laneStream[Peer(x)] :
          laneStream[x][l] = laneStream[Peer(x)][l]
    BY DEF LaneInv
  <2>3. \A x \in Endpoints : Peer(x) \in Endpoints
    BY PeerFacts
  <2> QED BY <2>1, <2>2, <2>3
<1>5. \A x \in Endpoints : finished'[x] \subseteq DOMAIN laneStream'[x]
  BY <1>1 DEF LaneInv
<1>6. ASSUME NEW t \in Streams, interactions'[e][t] # NoInteraction
      PROVE  /\ interactions'[e][t].lane \in DOMAIN laneStream'[e] \ finished'[e]
             /\ laneStream'[e][interactions'[e][t].lane] = t
  <2>1. CASE t = s
    BY <1>1, <1>6, <2>1
  <2>2. CASE t # s
    <3> DEFINE own == interactions[e][t].lane
    <3>1. own \in DOMAIN laneStream[e] \ finished[e] /\ laneStream[e][own] = t
      BY <1>1, <1>6, <2>2 DEF LaneInv
    <3>2. own # lane
      BY <2>2, <3>1
    <3>3. own \notin gone
      BY <2>2, <3>1, <3>2
    <3>4. interactions'[e][t].lane = own
      BY <1>1, <2>2
    <3> HIDE DEF own
    <3> QED BY <1>1, <3>1, <3>3, <3>4
  <2> QED BY <2>1, <2>2
<1>7. \A x \in Endpoints, t \in Streams : interactions'[x][t] # NoInteraction =>
        /\ interactions'[x][t].lane \in DOMAIN laneStream'[x] \ finished'[x]
        /\ laneStream'[x][interactions'[x][t].lane] = t
  <2>1. \A x \in Endpoints, t \in Streams : x # e /\ interactions'[x][t] # NoInteraction =>
          /\ interactions'[x][t].lane \in DOMAIN laneStream'[x] \ finished'[x]
          /\ laneStream'[x][interactions'[x][t].lane] = t
    BY <1>1 DEF LaneInv
  <2> QED BY <1>6, <2>1
<1> QED BY <1>3, <1>4, <1>5, <1>7 DEF LaneInv

LEMMA MapsOneLane ==
  ASSUME Types, OneLaneInv, NEW e \in Endpoints, NEW s \in Streams, NEW lane \in InteractionLanes,
         NEW after \in Entries, NEW gone \in SUBSET InteractionLanes,
         Maps(e, s, lane, after, gone),
         \A x \in Endpoints : \A l \in DOMAIN laneStream[x] : laneStream[x][l] = s => l = lane,
         lane \in DOMAIN laneStream[e] => laneStream[e][lane] = s,
         after = NoInteraction => lane \in finished[e] \cup gone,
         phase' = phase,
         Began(written'[e], delivered'[e], s),
         \A x \in Endpoints, t \in Streams : ~(x = e /\ t = s) =>
           (Began(written'[x], delivered'[x], t) <=> Began(written[x], delivered[x], t))
  PROVE  OneLaneInv'
<1>1. /\ DOMAIN laneStream'[e] = {lane} \cup DOMAIN laneStream[e]
      /\ laneStream'[e][lane] = s
      /\ \A l \in DOMAIN laneStream[e] : laneStream'[e][l] = laneStream[e][l]
      /\ interactions'[e][s] = after
      /\ \A t \in Streams : t # s => interactions'[e][t] = interactions[e][t]
      /\ finished'[e] = finished[e] \cup gone
      /\ \A x \in Endpoints : x # e =>
           /\ laneStream'[x] = laneStream[x] /\ interactions'[x] = interactions[x]
           /\ finished'[x] = finished[x]
  BY MapsFacts
<1>2. \A x \in Endpoints : \A l \in DOMAIN laneStream'[x] :
        \/ l = lane /\ x = e /\ laneStream'[x][l] = s
        \/ l \in DOMAIN laneStream[x] /\ laneStream'[x][l] = laneStream[x][l]
  BY <1>1
<1>3. \A x \in Endpoints, t \in Streams :
        Began(written'[x], delivered'[x], t) <=> \E l \in DOMAIN laneStream'[x] : laneStream'[x][l] = t
  <2>1. \A x \in Endpoints, t \in Streams :
          Began(written[x], delivered[x], t) <=> \E l \in DOMAIN laneStream[x] : laneStream[x][l] = t
    BY DEF OneLaneInv
  <2>2. \A x \in Endpoints, t \in Streams : ~(x = e /\ t = s) =>
          ((\E l \in DOMAIN laneStream'[x] : laneStream'[x][l] = t)
             <=> \E l \in DOMAIN laneStream[x] : laneStream[x][l] = t)
    BY <1>1
  <2>3. \E l \in DOMAIN laneStream'[e] : laneStream'[e][l] = s
    BY <1>1
  <2> QED BY <2>1, <2>2, <2>3
<1>4. \A a, b \in Endpoints : \A l \in DOMAIN laneStream'[a], m \in DOMAIN laneStream'[b] :
        laneStream'[a][l] = laneStream'[b][m] => l = m
  <2> SUFFICES ASSUME NEW a \in Endpoints, NEW b \in Endpoints,
                      NEW l \in DOMAIN laneStream'[a], NEW m \in DOMAIN laneStream'[b],
                      laneStream'[a][l] = laneStream'[b][m]
               PROVE  l = m
    OBVIOUS
  <2>1. CASE laneStream'[a][l] = s
    <3>1. \A x \in Endpoints : \A k \in DOMAIN laneStream'[x] : laneStream'[x][k] = s => k = lane
      BY <1>2
    <3>2. l = lane
      BY <2>1, <3>1
    <3>3. m = lane
      BY <2>1, <3>1
    <3> QED BY <3>2, <3>3
  <2>2. CASE laneStream'[a][l] # s
    <3>1. /\ l \in DOMAIN laneStream[a] /\ laneStream'[a][l] = laneStream[a][l]
          /\ m \in DOMAIN laneStream[b] /\ laneStream'[b][m] = laneStream[b][m]
      BY <1>2, <2>2
    <3>2. laneStream[a][l] = laneStream[b][m]
      BY <3>1
    <3>3. laneStream[a][l] = laneStream[b][m] => l = m
      BY <3>1 DEF OneLaneInv
    <3> QED BY <3>2, <3>3
  <2> QED BY <2>1, <2>2
<1>5. \A x \in Endpoints : ~IsClosing(x)' => \A l \in DOMAIN laneStream'[x] :
        interactions'[x][laneStream'[x][l]] = NoInteraction => l \in finished'[x]
  <2>1. \A x \in Endpoints : IsClosing(x)' = IsClosing(x)
    BY DEF IsClosing
  <2>2. \A x \in Endpoints : \A l \in DOMAIN laneStream[x] : laneStream[x][l] \in Streams
    BY LaneMapFacts DEF Types
  <2>3. ASSUME ~IsClosing(e), NEW l \in DOMAIN laneStream'[e],
               interactions'[e][laneStream'[e][l]] = NoInteraction
        PROVE  l \in finished'[e]
    <3>1. CASE laneStream'[e][l] = s
      <4>1. l = lane
        BY <1>2, <3>1
      <4> QED BY <1>1, <2>3, <3>1, <4>1
    <3>2. CASE laneStream'[e][l] # s
      <4>1. l \in DOMAIN laneStream[e] /\ laneStream'[e][l] = laneStream[e][l]
        BY <1>2, <3>2
      <4>2. interactions[e][laneStream[e][l]] = NoInteraction
        BY <1>1, <2>2, <2>3, <3>2, <4>1
      <4> QED BY <1>1, <2>3, <4>1, <4>2 DEF OneLaneInv
    <3> QED BY <3>1, <3>2
  <2>4. ASSUME NEW x \in Endpoints, x # e, ~IsClosing(x), NEW l \in DOMAIN laneStream'[x],
               interactions'[x][laneStream'[x][l]] = NoInteraction
        PROVE  l \in finished'[x]
    BY <1>1, <2>4 DEF OneLaneInv
  <2> QED BY <2>1, <2>3, <2>4
<1> QED BY <1>3, <1>4, <1>5 DEF OneLaneInv

LEMMA EntryFacts ==
  /\ NoInteraction \in Entries
  /\ \A lane \in InteractionLanes : \A f :
       /\ Interaction(lane, f) \in Entries \/ InitialInteractionType(f) \notin {"unknown", "REQUEST_STREAM", "REQUEST_CHANNEL"}
       /\ Interaction(lane, f).lane = lane /\ Interaction(lane, f) # NoInteraction
<1>1. NoInteraction \in Entries /\ NoInteraction.lane = Control /\ Control \notin InteractionLanes
  BY LaneFacts DEF NoInteraction, Entries
<1>2. \A lane \in InteractionLanes : \A f :
       /\ Interaction(lane, f) \in Entries \/ InitialInteractionType(f) \notin {"unknown", "REQUEST_STREAM", "REQUEST_CHANNEL"}
       /\ Interaction(lane, f).lane = lane
  BY DEF Interaction, Entries
<1> QED BY <1>1, <1>2

\* The frames that go to the lane of an interaction.
LEMMA InteractionFrames ==
  ASSUME IInv, NEW e \in Endpoints, NEW f \in Frames, Writes(e, f),
         f.type \notin {"REQUEST_FNF", "METADATA_PUSH"},
         ~(f.type = "PAYLOAD" /\ f.stream \in outFnf[e]), ~IsControlFrame(f)
  PROVE  /\ f.stream \in Streams /\ IsInteractionFrame(f) /\ ~FirstFragment(f) /\ ~LastFragment(f)
         /\ interactions[e][f.stream] # NoInteraction => f.type # "REQUEST_CHANNEL" \/ resumed
<1>1. /\ f \in AnyFrame /\ f.type # "SKIPPED" /\ f.type # "REQUEST_STREAM"
      /\ f.type \in {"SETUP", "RESUME", "RESUME_OK", "KEEPALIVE", "METADATA_PUSH"} => f.stream = 0
      /\ f.type \in {"REQUEST_CHANNEL", "REQUEST_N", "CANCEL", "ERROR"} => f.stream \in Streams
      /\ f.type = "PAYLOAD" => f.stream = 5 \/ f.stream \in Streams
  BY FrameFacts
<1>2. /\ LastFragment(f) => 5 \in outFnf[e]
      /\ f.type = "REQUEST_CHANNEL" => ~Begun(e, f.stream)
  BY MayWriteFacts DEF Writes
<1>3. f.type \in {"PAYLOAD", "REQUEST_CHANNEL", "REQUEST_N", "CANCEL", "ERROR"}
  BY <1>1 DEF AnyFrame, FrameTypes, IsControlFrame
<1>4. ~LastFragment(f) /\ ~FirstFragment(f)
  BY <1>2, <1>3 DEF LastFragment, FirstFragment
<1>5. f.stream \in Streams
  BY <1>1, <1>3, <1>4 DEF LastFragment
<1>6. f.stream # 0
  BY <1>5, StreamFacts
<1>7. IsInteractionFrame(f)
  BY <1>3, <1>6 DEF IsInteractionFrame
<1>8. f.type = "REQUEST_CHANNEL" /\ ~resumed => interactions[e][f.stream] = NoInteraction
  <2> SUFFICES ASSUME f.type = "REQUEST_CHANNEL", ~resumed
               PROVE  interactions[e][f.stream] = NoInteraction
    OBVIOUS
  <2>1. Types /\ KeptInv
    BY DEF IInv, LifeInv
  <2>2. ~Began(written[e], delivered[e], f.stream)
    BY <1>2, <2>1, BegunAndOver
  <2>3. ~IsClosing(e)
    BY DEF Writes, IsOpen, IsClosing
  <2> QED BY <1>5, <2>1, <2>2, <2>3 DEF KeptInv, Kept
<1> QED BY <1>4, <1>5, <1>7, <1>8

LEMMA WritesRequests ==
  ASSUME IInv, ~resumed, NEW e \in Endpoints, NEW f \in Frames, Writes(e, f), f.stream \in Streams
  PROVE  RequestInv'
<1> DEFINE s == f.stream
<1>1. /\ Types /\ ReaderInv /\ RequestInv
      /\ "requester" \in Endpoints /\ "responder" \in Endpoints /\ e \in {"requester", "responder"}
      /\ Peer("requester") = "responder"
  BY DEF IInv, LifeInv, Endpoints, Peer
<1>2. /\ f.type = "REQUEST_CHANNEL" => e = "requester" /\ ~Begun(e, s)
      /\ f.type # "REQUEST_CHANNEL" => Begun(e, s)
  BY MayWriteFacts DEF Writes
<1>3. Begun(e, s) <=> Began(written[e], delivered[e], s)
  BY <1>1, BegunAndOver
<1>4. \A x \in Endpoints : /\ written[x] \in Seq(Frames) /\ Len(written[x]) \in Nat
                           /\ DOMAIN written[x] = 1..Len(written[x])
                           /\ DOMAIN delivered[x] = 1..Len(delivered[x])
  BY <1>1, LenProperties DEF Types
<1>5. /\ written'[e] = Append(written[e], f) /\ Len(written'[e]) = Len(written[e]) + 1
      /\ \A x \in Endpoints : x # e => written'[x] = written[x]
      /\ delivered' = delivered
  BY WritesFacts DEF Writes
<1>6. /\ \A i \in 1..Len(written'[e]) :
           \/ i \in 1..Len(written[e]) /\ written'[e][i] = written[e][i]
           \/ i = Len(written[e]) + 1 /\ written'[e][i] = f
      /\ \A i \in 1..Len(written[e]) : written'[e][i] = written[e][i]
  BY <1>4, <1>5, AppendFacts DEF Extends
<1>7. ASSUME SeqHas(delivered["requester"], s, {"REQUEST_CHANNEL"})
      PROVE  FALSE
  <2>1. PICK i \in 1..Len(delivered["requester"]) :
          delivered["requester"][i].stream = s /\ delivered["requester"][i].type = "REQUEST_CHANNEL"
    BY <1>1, <1>4, <1>7 DEF SeqHas
  <2>2. i \in 1..Len(written["responder"]) /\ delivered["requester"][i] = written["responder"][i]
    BY <1>1, <2>1, DeliveredFacts
  <2> QED BY <1>1, <2>1, <2>2 DEF RequestInv, Starts
<1>8. CASE e = "requester"
  <2>1. written'["responder"] = written["responder"]
    BY <1>1, <1>5, <1>8
  <2>2. ASSUME NEW i \in 1..Len(written[e])
        PROVE  \A j \in 1..i : j \in 1..Len(written[e]) /\ written'[e][j] = written[e][j]
    BY <1>4, <1>6
  <2>3. ASSUME NEW t \in Streams, NEW i \in 1..Len(written'[e]), written'[e][i].stream = t
        PROVE  \E j \in 1..i : Starts(written'[e][j], t)
    <3>1. CASE i \in 1..Len(written[e]) /\ written'[e][i] = written[e][i]
      <4>1. PICK j \in 1..i : Starts(written[e][j], t)
        BY <1>1, <1>8, <2>3, <3>1 DEF RequestInv
      <4> QED BY <2>2, <3>1, <4>1
    <3>2. CASE i = Len(written[e]) + 1 /\ written'[e][i] = f /\ f.type = "REQUEST_CHANNEL"
      <4>1. i \in 1..i
        BY <1>4, <3>2
      <4> QED BY <2>3, <3>2, <4>1 DEF Starts
    <3>3. CASE i = Len(written[e]) + 1 /\ written'[e][i] = f /\ f.type # "REQUEST_CHANNEL"
      <4>1. SeqHas(written[e], s, {"REQUEST_CHANNEL"})
        BY <1>2, <1>3, <1>7, <1>8, <3>3 DEF Began
      <4>2. PICK j \in 1..Len(written[e]) : Starts(written[e][j], s)
        BY <1>1, <1>4, <4>1 DEF SeqHas, Starts
      <4>3. j \in 1..i /\ written'[e][j] = written[e][j] /\ t = s
        BY <1>4, <1>6, <2>3, <3>3, <4>2
      <4> QED BY <4>2, <4>3
    <3> QED BY <1>6, <3>1, <3>2, <3>3
  <2>4. ASSUME NEW t \in Streams, NEW i \in 1..Len(written[e]), Starts(written[e][i], t), Starts(f, t)
        PROVE  FALSE
    <3>1. t = s /\ ~SeqHas(written[e], s, {"REQUEST_CHANNEL"})
      BY <1>2, <1>3, <2>4 DEF Starts, Began
    <3> QED BY <1>1, <1>4, <2>4, <3>1 DEF SeqHas, Starts
  <2>5. ASSUME NEW t \in Streams, NEW i \in 1..Len(written'[e]), NEW j \in 1..Len(written'[e]),
               Starts(written'[e][i], t), Starts(written'[e][j], t)
        PROVE  i = j
    <3>1. CASE i \in 1..Len(written[e]) /\ j \in 1..Len(written[e])
      BY <1>1, <1>6, <1>8, <2>5, <3>1 DEF RequestInv
    <3>2. CASE ~(i \in 1..Len(written[e]) /\ j \in 1..Len(written[e]))
      BY <1>6, <2>4, <2>5, <3>2
    <3> QED BY <3>1, <3>2
  <2> QED BY <1>1, <1>5, <1>8, <2>1, <2>3, <2>5 DEF RequestInv
<1>9. CASE e = "responder"
  <2>1. written'["requester"] = written["requester"]
    BY <1>1, <1>5, <1>9
  <2>2. f.type # "REQUEST_CHANNEL" /\ Began(written[e], delivered[e], s)
    BY <1>2, <1>3, <1>9
  <2>3. ~SeqHas(written[e], s, {"REQUEST_CHANNEL"})
    BY <1>1, <1>4, <1>9 DEF SeqHas, Starts, RequestInv
  <2>4. SeqHas(delivered[e], s, {"REQUEST_CHANNEL"})
    BY <2>2, <2>3 DEF Began
  <2>5. ASSUME NEW t \in Streams, NEW i \in 1..Len(written'[e])
        PROVE  /\ ~Starts(written'[e][i], t)
               /\ written'[e][i].stream = t => SeqHas(delivered[e], t, {"REQUEST_CHANNEL"})
    <3>1. CASE i \in 1..Len(written[e]) /\ written'[e][i] = written[e][i]
      BY <1>1, <1>9, <3>1 DEF RequestInv
    <3>2. CASE written'[e][i] = f
      BY <2>2, <2>4, <3>2 DEF Starts
    <3> QED BY <1>6, <3>1, <3>2
  <2> QED BY <1>1, <1>5, <1>9, <2>1, <2>5 DEF RequestInv
<1> QED BY <1>1, <1>8, <1>9

LEMMA WriteInteractionStep ==
  ASSUME IInv, NEW e \in Endpoints, NEW f \in Frames, Writes(e, f),
         f.type \notin {"REQUEST_FNF", "METADATA_PUSH"},
         ~(f.type = "PAYLOAD" /\ f.stream \in outFnf[e]), ~IsControlFrame(f),
         WriteInteraction(e, f)
  PROVE  IInv'
<1> DEFINE s == f.stream
           new == interactions[e][s] = NoInteraction
           lane == IF new THEN Lane("interaction", e, opened[e] + 1) ELSE interactions[e][s].lane
           before == IF new THEN Interaction(lane, f) ELSE interactions[e][s]
           after == Tracked(before, f, TRUE)
           gone == Released(before, after)
<1>1. /\ s \in Streams /\ IsInteractionFrame(f) /\ ~FirstFragment(f) /\ ~LastFragment(f)
  BY InteractionFrames
<1>2. /\ new => opened[e] < MaxLanes
      /\ opened' = [opened EXCEPT ![e] = IF new THEN @ + 1 ELSE @]
      /\ Maps(e, s, lane, after, gone)
      /\ wire' = Enqueued(e, lane, <<Record(nextOut[e], f)>>)
      /\ outFnf' = outFnf /\ datagrams' = datagrams
  BY DEF WriteInteraction, Maps
<1>3. /\ Types /\ LaneInv /\ LifeInv
      /\ opened \in [Endpoints -> 0..MaxLanes] /\ opened[e] \in 0..MaxLanes
      /\ interactions[e][s] \in Entries
      /\ f \in AnyFrame /\ f.type # "REQUEST_STREAM"
      /\ MaxLanes \in Nat
  <2>1. f \in AnyFrame /\ f.type # "REQUEST_STREAM"
    BY FrameFacts
  <2>2. Types /\ LaneInv /\ LifeInv
    BY DEF IInv
  <2>3. interactions[e][s] \in Entries
    BY <1>1, <2>2 DEF Types
  <2>4. opened \in [Endpoints -> 0..MaxLanes] /\ opened[e] \in 0..MaxLanes
    BY <2>2 DEF Types
  <2> QED BY <2>1, <2>2, <2>3, <2>4, LanesAssumption
<1>4. ASSUME new
      PROVE  /\ lane \in InteractionLanes /\ lane.k = opened[e] + 1 /\ lane.opener = e
             /\ \A x \in Endpoints : lane \notin DOMAIN laneStream[x]
             /\ opened'[e] = opened[e] + 1
             /\ before = Interaction(lane, f)
  <2>1. opened[e] + 1 \in 1..MaxLanes
    BY <1>2, <1>3, <1>4
  <2>2. lane = Lane("interaction", e, opened[e] + 1)
    BY <1>4
  <2>3. lane \in InteractionLanes /\ lane.k = opened[e] + 1 /\ lane.opener = e
    BY <2>1, <2>2, NewLane
  <2>4. \A x \in Endpoints : lane \notin DOMAIN laneStream[x]
    <3> SUFFICES ASSUME NEW x \in Endpoints, lane \in DOMAIN laneStream[x]
                 PROVE  FALSE
      OBVIOUS
    <3>1. lane.k <= opened[e]
      BY <1>3, <2>3 DEF LaneInv
    <3> HIDE DEF lane
    <3> QED BY <1>3, <2>3, <3>1
  <2>5. opened'[e] = opened[e] + 1 /\ before = Interaction(lane, f)
    BY <1>2, <1>3, <1>4
  <2> QED BY <2>3, <2>4, <2>5
<1>5. ASSUME ~new
      PROVE  /\ lane \in InteractionLanes /\ lane \in DOMAIN laneStream[e] \ finished[e]
             /\ laneStream[e][lane] = s /\ lane.k <= opened[lane.opener]
             /\ opened' = opened /\ before = interactions[e][s] /\ before.lane = lane
  <2>1. lane = interactions[e][s].lane /\ before = interactions[e][s]
    BY <1>5
  <2>2. lane \in DOMAIN laneStream[e] \ finished[e] /\ laneStream[e][lane] = s
    BY <1>1, <1>3, <1>5, <2>1 DEF LaneInv
  <2>3. lane \in InteractionLanes
    BY <1>3, <2>2, LaneMapFacts DEF Types
  <2>4. lane.k <= opened[lane.opener]
    BY <1>3, <2>2 DEF LaneInv
  <2>5. opened' = opened
    BY <1>2, <1>3, <1>5
  <2> QED BY <2>1, <2>2, <2>3, <2>4, <2>5
<1>6. lane \in InteractionLanes
  BY <1>4, <1>5
<1>7. before \in Entries /\ before # NoInteraction /\ before.lane = lane
  <2>1. CASE new
    <3>1. lane \in InteractionLanes /\ before = Interaction(lane, f)
      BY <1>4, <2>1
    <3>2. InitialInteractionType(f) \in {"unknown", "REQUEST_STREAM", "REQUEST_CHANNEL"}
      BY DEF InitialInteractionType
    <3> HIDE DEF new, lane, before
    <3> QED BY <3>1, <3>2, EntryFacts
  <2>2. CASE ~new
    BY <1>3, <1>5, <2>2
  <2> QED BY <2>1, <2>2
<1> HIDE DEF new, lane, before, s
<1>8. after \in Entries /\ (after # NoInteraction => after.lane = lane)
  BY <1>3, <1>6, <1>7, TrackedFacts
<1> HIDE DEF after
<1>9. /\ gone = IF after = NoInteraction THEN {lane} ELSE {}
      /\ gone \in SUBSET InteractionLanes
  BY <1>6, <1>7 DEF Released
<1> HIDE DEF gone
<1>10. \A x \in Endpoints : lane \in DOMAIN laneStream[x] => laneStream[x][lane] = s
  <2>1. CASE new
    BY <1>4, <2>1
  <2>2. CASE ~new
    <3>1. lane \in DOMAIN laneStream[e] /\ laneStream[e][lane] = s
      BY <1>5, <2>2
    <3>2. lane \in DOMAIN laneStream[Peer(e)] => laneStream[Peer(e)][lane] = s
      BY <1>3, <3>1 DEF LaneInv
    <3> QED BY <3>1, <3>2, PeerFacts
  <2> QED BY <2>1, <2>2
<1>11. /\ laneStream' \in [Endpoints -> LaneMaps]
       /\ interactions' \in [Endpoints -> [Streams -> Entries]]
       /\ finished' \in [Endpoints -> SUBSET InteractionLanes]
       /\ lane \in DOMAIN laneStream'[e] /\ laneStream'[e][lane] = s
       /\ \A x \in Endpoints : MapExtends(laneStream[x], laneStream'[x])
       /\ interactions'[e][s] = after
       /\ \A t \in Streams : t # s => interactions'[e][t] = interactions[e][t]
       /\ \A x \in Endpoints : x # e => interactions'[x] = interactions[x]
  <2>1. lane \in DOMAIN laneStream[e] => laneStream[e][lane] = s
    BY <1>10
  <2> QED BY <1>1, <1>2, <1>3, <1>6, <1>8, <1>9, <2>1, MapsFacts
<1>12. /\ opened' \in [Endpoints -> 0..MaxLanes]
       /\ \A x \in Endpoints : opened[x] <= opened'[x]
       /\ \A x \in Endpoints : x # e => opened'[x] = opened[x]
       /\ opened'[e] \in {opened[e], opened[e] + 1}
       /\ lane.k <= opened'[lane.opener]
  <2>1. \A x \in Endpoints : opened[x] \in Int
    BY <1>3
  <2>2. CASE new
    <3>1. opened' = [opened EXCEPT ![e] = @ + 1] /\ opened[e] + 1 \in 0..MaxLanes
      BY <1>2, <1>3, <2>2
    <3>2. lane.k = opened'[lane.opener] /\ lane.opener = e /\ opened'[e] = opened[e] + 1
      BY <1>4, <2>2
    <3> QED BY <1>3, <2>1, <3>1, <3>2
  <2>3. CASE ~new
    BY <1>3, <1>5, <2>1, <2>3
  <2> QED BY <2>2, <2>3
<1>13. WriterInv' /\ ReaderInv'
  BY <1>12, WritesCounts
<1>14. FragmentInv' /\ outFnf' \in [Endpoints -> SUBSET {5}]
  BY <1>1, <1>2, WritesNoFragment
<1>15. TransitInv' /\ wire' \in [Endpoints -> [Lanes -> Seq(Records)]]
  <2>1. lane \in Lanes /\ lane.kind = "interaction"
    BY <1>6, LaneFacts
  <2>2. Routed(laneStream'[e], unreliable, lane, f)
    BY <1>1, <1>11, <2>1 DEF Routed, s
  <2> QED BY <1>2, <1>11, <2>1, <2>2, LaneTransit
<1>16. LaneInv'
  <2>1. \A l \in gone : l = lane
    BY <1>9
  <2>2. after # NoInteraction => after.lane = lane /\ lane \notin finished[e] \cup gone
    <3>1. lane \notin finished[e]
      <4>1. finished[e] \subseteq DOMAIN laneStream[e]
        BY <1>3 DEF LaneInv
      <4> QED BY <1>4, <1>5, <4>1
    <3> QED BY <1>8, <1>9, <3>1
  <2> QED BY <1>1, <1>2, <1>3, <1>6, <1>8, <1>9, <1>10, <1>12, <2>1, <2>2, MapsLanes
<1>17. /\ resumed' = resumed /\ unreliable' = unreliable /\ phase' = phase /\ subscribed' = subscribed
       /\ control' = control /\ inFnf' = inFnf /\ air' = air
       /\ nextIn' = nextIn /\ pending' = pending /\ draining' = draining /\ delivered' = delivered
  BY DEF Writes, lifecycle, mode, ordering
<1>18. /\ written' \in [Endpoints -> Seq(Frames)] /\ nextOut' \in [Endpoints -> Nat]
       /\ written'[e] = Append(written[e], f)
       /\ \A x \in Endpoints : x # e => written'[x] = written[x]
  BY WritesFacts
<1>19. Types'
  <2>1. datagrams' \in [Endpoints -> Seq(Records)]
    BY <1>2, <1>3 DEF Types
  <2> QED BY <1>3, <1>11, <1>12, <1>14, <1>15, <1>17, <1>18, <2>1 DEF Types
<1>20. ASSUME ~resumed
       PROVE  RequestInv' /\ KeptInv' /\ OneLaneInv'
  <2>1. /\ RequestInv /\ KeptInv /\ OneLaneInv /\ ReaderInv /\ ~IsClosing(e)
    BY <1>20 DEF IInv, LifeInv, Writes, IsOpen, IsClosing
  <2>2. \A x \in Endpoints : written[x] \in Seq(AnyFrame) /\ delivered[x] \in Seq(AnyFrame)
    BY <1>3, FramesAreFrames DEF Types
  <2>3. Kept(interactions[e][s], written[e], delivered[e], s)
    BY <1>1, <2>1 DEF KeptInv
  <2>4. /\ Begun(e, s) <=> Began(written[e], delivered[e], s)
        /\ Over(e, s) <=> Finished(written[e], delivered[e], s)
    BY <1>3, <1>20, BegunAndOver
  <2>5. /\ f.type = "REQUEST_CHANNEL" => e = "requester" /\ ~Begun(e, s)
        /\ f.type # "REQUEST_CHANNEL" => Begun(e, s) /\ ~Over(e, s)
    BY <1>1, MayWriteFacts DEF Writes, s
  <2>6. new <=> f.type = "REQUEST_CHANNEL"
    BY <2>3, <2>4, <2>5 DEF Kept, new
  <2>7. ASSUME new
        PROVE  /\ Silent(written[e], delivered[e], s)
               /\ \A x \in Endpoints : ~Began(written[x], delivered[x], s)
    <3>1. ~Began(written[e], delivered[e], s) /\ e = "requester"
      BY <2>4, <2>5, <2>6, <2>7
    <3>2. /\ Silent(written[e], delivered[e], s)
          /\ ~Began(written["responder"], delivered["responder"], s)
      BY <1>1, <1>3, <2>1, <3>1, NothingBeforeTheStart
    <3> QED BY <3>1, <3>2 DEF Endpoints
  <2>8. Kept(after, Append(written[e], f), delivered[e], s)
    <3> DEFINE out == written[e]
               in == delivered[e]
    <3>1. out \in Seq(AnyFrame) /\ in \in Seq(AnyFrame)
      BY <2>2
    <3>2. CASE new
      <4>1. Silent(out, in, f.stream) /\ f.type = "REQUEST_CHANNEL" /\ before = Interaction(lane, f)
        BY <1>4, <2>6, <2>7, <3>2 DEF s
      <4> HIDE DEF out, in
      <4>2. Kept(Tracked(before, f, TRUE), Append(out, f), in, f.stream)
        BY <1>3, <1>6, <3>1, <4>1, KeptByStarting
      <4> QED BY <4>2 DEF after, s, out, in
    <3>3. CASE ~new
      <4>1. Kept(before, out, in, f.stream)
        BY <1>5, <2>3, <3>3 DEF s
      <4> HIDE DEF out, in
      <4>2. Kept(Tracked(before, f, TRUE), Append(out, f), in, f.stream)
        BY <1>3, <1>6, <1>7, <3>1, <4>1, KeptByWriting
      <4> QED BY <4>2 DEF after, s, out, in
    <3> QED BY <3>2, <3>3
  <2>9. \A t \in Streams : t # s =>
          /\ Began(Append(written[e], f), delivered[e], t) <=> Began(written[e], delivered[e], t)
          /\ Kept(interactions[e][t], written[e], delivered[e], t)
               => Kept(interactions[e][t], Append(written[e], f), delivered[e], t)
    <3> SUFFICES ASSUME NEW t \in Streams, t # s
                 PROVE  /\ Began(Append(written[e], f), delivered[e], t) <=> Began(written[e], delivered[e], t)
                        /\ Kept(interactions[e][t], written[e], delivered[e], t)
                             => Kept(interactions[e][t], Append(written[e], f), delivered[e], t)
      OBVIOUS
    <3> DEFINE y == interactions[e][t]
               out == written[e]
               in == delivered[e]
    <3>1. out \in Seq(AnyFrame) /\ in \in Seq(AnyFrame) /\ f.stream # t
      BY <2>2 DEF s
    <3> HIDE DEF y, out, in
    <3>2. /\ Began(Append(out, f), in, t) <=> Began(out, in, t)
          /\ Kept(y, out, in, t) => Kept(y, Append(out, f), in, t)
      BY <1>3, <3>1, KeptOfOthers
    <3> QED BY <3>2 DEF y, out, in
  <2>10. KeptInv'
    <3>1. \A t \in Streams : Kept(interactions'[e][t], written'[e], delivered'[e], t)
      BY <1>11, <1>17, <1>18, <2>1, <2>8, <2>9 DEF KeptInv
    <3>2. \A x \in Endpoints, t \in Streams : x # e /\ ~IsClosing(x) =>
            Kept(interactions'[x][t], written'[x], delivered'[x], t)
      BY <1>11, <1>17, <1>18, <2>1 DEF KeptInv
    <3>3. \A x \in Endpoints : IsClosing(x)' = IsClosing(x)
      BY <1>17 DEF IsClosing
    <3> QED BY <3>1, <3>2, <3>3 DEF KeptInv
  <2>11. \A x \in Endpoints, t \in Streams : ~(x = e /\ t = s) =>
           (Began(written'[x], delivered'[x], t) <=> Began(written[x], delivered[x], t))
    BY <1>17, <1>18, <2>9
  <2>12. Began(written'[e], delivered'[e], s)
    <3>1. SeqHas(written[e], s, {"REQUEST_CHANNEL"}) \/ f.type = "REQUEST_CHANNEL"
            => SeqHas(Append(written[e], f), s, {"REQUEST_CHANNEL"})
      BY <1>3, <2>2, HasAppend DEF s
    <3>2. Began(written[e], delivered[e], s) \/ f.type = "REQUEST_CHANNEL"
      BY <2>4, <2>5
    <3> QED BY <1>17, <1>18, <3>1, <3>2 DEF Began
  <2>13. \A x \in Endpoints : \A l \in DOMAIN laneStream[x] : laneStream[x][l] = s => l = lane
    <3>1. CASE new
      BY <1>1, <2>1, <2>7, <3>1 DEF OneLaneInv
    <3>2. CASE ~new
      <4>1. lane \in DOMAIN laneStream[e] /\ laneStream[e][lane] = s
        BY <1>5, <3>2
      <4> QED BY <2>1, <4>1 DEF OneLaneInv
    <3> QED BY <3>1, <3>2
  <2>14. OneLaneInv'
    <3>1. lane \in DOMAIN laneStream[e] => laneStream[e][lane] = s
      BY <1>10
    <3>2. after = NoInteraction => lane \in finished[e] \cup gone
      BY <1>9
    <3> QED BY <1>1, <1>2, <1>3, <1>6, <1>8, <1>9, <1>17, <2>1, <2>11, <2>12, <2>13, <3>1, <3>2, MapsOneLane
  <2>15. RequestInv'
    BY <1>1, <1>20, WritesRequests DEF s
  <2> QED BY <2>10, <2>14, <2>15
<1>21. LifeInv'
  BY <1>17, <1>20 DEF LifeInv
<1> QED BY <1>13, <1>14, <1>15, <1>16, <1>19, <1>21 DEF IInv

LEMMA WriteFrameStep ==
  ASSUME IInv, NEW e \in Endpoints, WriteFrame(e)
  PROVE  IInv'
<1>1. PICK f \in Frames :
        /\ MayWrite(e, f)
        /\ Route(e, f)
        /\ written' = [written EXCEPT ![e] = Append(@, f)]
  BY DEF WriteFrame
<1>2. TakeOrdinal(e)
  BY <1>1 DEF Route, WriteReliable, WriteDatagram, WriteControl, WriteInteraction
<1>3. Writes(e, f)
  BY <1>1, <1>2 DEF WriteFrame, Writes
<1>4. /\ f.type = "METADATA_PUSH" => f.stream = 0
      /\ f.type = "PAYLOAD" /\ f.stream \in outFnf[e] => f.stream = 5
  BY <1>3, FrameFacts, MayWriteFacts DEF Writes
<1>5. CASE \/ f.type = "REQUEST_FNF" /\ (f.follows \/ ~unreliable)
           \/ f.type = "METADATA_PUSH"
           \/ f.type = "PAYLOAD" /\ f.stream \in outFnf[e]
  <2>1. WriteReliable(e, f)
    BY <1>1, <1>5 DEF Route
  <2>2. Routed(laneStream[e], unreliable, Reliable(e), f)
    BY <1>4, <1>5, LaneFacts DEF Routed
  <2> QED BY <1>3, <2>1, <2>2, WriteReliableStep
<1>6. CASE f.type = "REQUEST_FNF" /\ ~(f.follows \/ ~unreliable)
  <2>1. WriteDatagram(e, f)
    BY <1>1, <1>6 DEF Route
  <2> QED BY <1>3, <1>6, <2>1, WriteDatagramStep DEF IInv, Types
<1>7. CASE /\ f.type \notin {"REQUEST_FNF", "METADATA_PUSH"}
           /\ ~(f.type = "PAYLOAD" /\ f.stream \in outFnf[e]) /\ IsControlFrame(f)
  <2>1. WriteControl(e, f)
    BY <1>1, <1>7 DEF Route
  <2> QED BY <1>3, <1>7, <2>1, WriteControlStep
<1>8. CASE /\ f.type \notin {"REQUEST_FNF", "METADATA_PUSH"}
           /\ ~(f.type = "PAYLOAD" /\ f.stream \in outFnf[e]) /\ ~IsControlFrame(f)
  <2>1. WriteInteraction(e, f)
    BY <1>1, <1>8 DEF Route
  <2> QED BY <1>3, <1>8, <2>1, WriteInteractionStep
<1> QED BY <1>5, <1>6, <1>7, <1>8

(***************************************************************************)
(* Reading.  A record is read when it is next in order; what is known of   *)
(* it then is that it is good, and that suffices to accept it.             *)
(***************************************************************************)
LEMMA InOrder ==
  ASSUME IInv, NEW e \in Endpoints, NEW lane \in AllLanes, NEW f,
         Good(written[Peer(e)], laneStream[Peer(e)], unreliable, lane, nextIn[e], f)
  PROVE  /\ f \in AnyFrame /\ nextIn[e] \in Nat /\ nextIn[e] = Len(delivered[e])
         /\ Stands(written[Peer(e)], Len(delivered[e]), f)
         /\ Routed(laneStream[Peer(e)], unreliable, lane, f)
         /\ f.type # "SKIPPED" =>
              f = written[Peer(e)][Len(delivered[e]) + 1] /\ f \in Frames
              /\ Len(delivered[e]) + 1 \in 1..Len(written[Peer(e)])
         /\ f.type = "SKIPPED" => f.stream = 3
         /\ f.follows => f.type = "REQUEST_FNF" /\ f.stream = 5
         /\ f.type = "REQUEST_FNF" /\ ~f.follows => f.stream = 3
         /\ f.type = "METADATA_PUSH" => f.stream = 0
         /\ lane.kind = "interaction" =>
              /\ lane \in InteractionLanes /\ lane \in DOMAIN laneStream[Peer(e)]
              /\ laneStream[Peer(e)][lane] = f.stream /\ f.stream \in Streams
              /\ IsInteractionFrame(f) /\ f.type # "SKIPPED"
         /\ lane.kind # "interaction" => f.stream \notin Streams
         /\ FirstFragment(f) \/ LastFragment(f) => lane.kind = "reliable"
<1> DEFINE w == Peer(e)
           n == Len(delivered[e])
           frames == written[w]
           g == frames[n + 1]
<1>1. /\ Types /\ ReaderInv /\ w \in Endpoints
      /\ frames \in Seq(Frames) /\ delivered[e] \in Seq(AnyFrame) /\ n \in Nat
      /\ nextIn[e] = n
  BY PeerFacts, LenProperties DEF IInv, Types, ReaderInv
<1>2. Stands(frames, n, f) /\ Routed(laneStream[w], unreliable, lane, f)
  BY <1>1 DEF Good
<1>3. /\ n + 1 \in 1..Len(frames) /\ g \in Frames /\ f \in AnyFrame
      /\ f.stream = g.stream /\ f.follows = g.follows /\ f.complete = g.complete
      /\ f.type # "SKIPPED" => f = g
      /\ f.type = "SKIPPED" => g.type = "REQUEST_FNF" /\ ~g.follows
  <2> HIDE DEF w, n, frames
  <2> QED BY <1>1, <1>2, StandsFacts
<1> HIDE DEF g
<1>4. /\ g.follows => g.type = "REQUEST_FNF" /\ g.stream = 5
      /\ g.type = "REQUEST_FNF" /\ ~g.follows => g.stream = 3
      /\ g.type \in {"SETUP", "RESUME", "RESUME_OK", "KEEPALIVE", "METADATA_PUSH"} => g.stream = 0
  BY <1>3, FrameFacts
<1>5. /\ f.type = "SKIPPED" => f.stream = 3
      /\ f.follows => f.type = "REQUEST_FNF" /\ f.stream = 5
      /\ f.type = "REQUEST_FNF" /\ ~f.follows => f.stream = 3
      /\ f.type = "METADATA_PUSH" => f.stream = 0
  BY <1>3, <1>4
<1>6. 0 \notin Streams /\ 3 \notin Streams /\ 5 \notin Streams
  BY LanesAssumption
<1>7. ASSUME lane.kind = "interaction"
      PROVE  /\ lane \in InteractionLanes /\ lane \in DOMAIN laneStream[w]
             /\ laneStream[w][lane] = f.stream /\ f.stream \in Streams
             /\ IsInteractionFrame(f) /\ f.type # "SKIPPED"
  <2>1. lane \in InteractionLanes
    BY <1>7, LaneFacts
  <2>2. IsInteractionFrame(f) /\ lane \in DOMAIN laneStream[w] /\ laneStream[w][lane] = f.stream
    BY <1>2, <1>7 DEF Routed
  <2>3. laneStream[w] \in LaneMaps
    BY <1>1 DEF Types
  <2>4. laneStream[w][lane] \in Streams
    <3> DEFINE map == laneStream[w]
    <3>1. map \in LaneMaps /\ lane \in DOMAIN map
      BY <2>2, <2>3
    <3> HIDE DEF map
    <3>2. map \in [DOMAIN map -> Streams]
      BY <3>1, LaneMapFacts
    <3>3. map[lane] \in Streams
      BY <3>1, <3>2
    <3> QED BY <3>3 DEF map
  <2> QED BY <2>1, <2>2, <2>4 DEF IsInteractionFrame
<1>8. lane.kind # "interaction" => f.stream \notin Streams
  <2>1. lane.kind \in {"control", "reliable", "interaction", "datagram"}
    BY LaneFacts
  <2> HIDE DEF w, n, frames
  <2>2. CASE lane.kind = "datagram"
    BY <1>2, <1>5, <1>6, <2>2 DEF Routed
  <2>3. CASE lane.kind = "control"
    BY <1>2, <1>5, <1>6, <2>3 DEF Routed, IsControlFrame
  <2>4. CASE lane.kind = "reliable"
    <3>1. f.type = "METADATA_PUSH" \/ f.type = "REQUEST_FNF" \/ (f.type = "PAYLOAD" /\ f.stream = 5)
      BY <1>2, <2>4 DEF Routed
    <3>2. f.follows \in BOOLEAN
      BY <1>3 DEF AnyFrame
    <3> QED BY <1>5, <1>6, <3>1, <3>2
  <2> QED BY <2>1, <2>2, <2>3, <2>4
<1>9. FirstFragment(f) \/ LastFragment(f) => lane.kind = "reliable"
  <2> SUFFICES ASSUME FirstFragment(f) \/ LastFragment(f), lane.kind # "reliable"
               PROVE  FALSE
    OBVIOUS
  <2>1. lane.kind \in {"control", "reliable", "interaction", "datagram"}
    BY LaneFacts
  <2> HIDE DEF w, n, frames
  <2>2. CASE lane.kind = "datagram"
    BY <1>2, <2>2 DEF Routed, FirstFragment, LastFragment
  <2>3. CASE lane.kind = "control"
    BY <1>2, <2>3 DEF Routed, IsControlFrame, FirstFragment, LastFragment
  <2>4. CASE lane.kind = "interaction"
    BY <1>6, <1>7, <2>4 DEF IsInteractionFrame, FirstFragment, LastFragment
  <2> QED BY <2>1, <2>2, <2>3, <2>4
<1> QED BY <1>1, <1>2, <1>3, <1>5, <1>7, <1>8, <1>9 DEF g

\* The fragments of a request come in their order.
LEMMA FragmentsInOrder ==
  ASSUME IInv, NEW e \in Endpoints, NEW lane \in AllLanes, NEW f,
         Good(written[Peer(e)], laneStream[Peer(e)], unreliable, lane, nextIn[e], f)
  PROVE  /\ FirstFragment(f) => \A i \in 1..Len(delivered[e]) : ~LastFragment(delivered[e][i])
         /\ LastFragment(f) => FnfUnderWay(delivered[e])
<1> DEFINE frames == written[Peer(e)]
           n == Len(delivered[e])
           got == delivered[e]
<1>1. /\ WellFragmented(frames) /\ n \in Nat
      /\ f.type # "SKIPPED" => f = frames[n + 1] /\ n + 1 \in 1..Len(frames)
  <2>1. /\ f.type # "SKIPPED" => f = frames[n + 1] /\ n + 1 \in 1..Len(frames)
        /\ n \in Nat
    BY InOrder
  <2>2. WellFragmented(frames)
    BY PeerFacts DEF IInv, FragmentInv
  <2> QED BY <2>1, <2>2
<1>2. Types /\ ReaderInv
  BY DEF IInv
<1>3. \A i \in 1..n :
        /\ i \in 1..Len(frames)
        /\ got[i].type # "SKIPPED" => got[i] = frames[i]
        /\ got[i].type = "SKIPPED" => ~frames[i].follows
  BY <1>2, DeliveredFacts
<1>4. \A i \in 1..n : LastFragment(got[i]) => LastFragment(frames[i])
  BY <1>3 DEF LastFragment
<1>5. \A i \in 1..n : FirstFragment(frames[i]) => FirstFragment(got[i])
  BY <1>3 DEF FirstFragment
<1>6. SUFFICES ASSUME FirstFragment(f) \/ LastFragment(f)
               PROVE  /\ FirstFragment(f) => \A i \in 1..n : ~LastFragment(got[i])
                      /\ LastFragment(f) => FnfUnderWay(got)
  OBVIOUS
<1>7. f = frames[n + 1] /\ n + 1 \in 1..Len(frames) /\ WellFragmented(frames) /\ n \in Nat
  BY <1>1, <1>6 DEF FirstFragment, LastFragment
<1> HIDE DEF frames, n
<1>8. \A i \in 1..n : n + 1 > i
  BY <1>7
<1>9. \A i \in 1..n : ~LastFragment(got[i])
  <2> SUFFICES ASSUME NEW i \in 1..n, LastFragment(got[i])
               PROVE  FALSE
    OBVIOUS
  <2>1. LastFragment(frames[i]) /\ i \in 1..Len(frames) /\ n + 1 > i
    BY <1>3, <1>4, <1>8
  <2>2. ~FirstFragment(frames[n + 1]) /\ ~LastFragment(frames[n + 1])
    BY <1>7, <2>1 DEF WellFragmented
  <2> QED BY <1>6, <1>7, <2>2
<1>10. ASSUME LastFragment(f)
       PROVE  \E i \in 1..n : FirstFragment(got[i])
  <2>1. PICK j \in 1..((n + 1) - 1) : FirstFragment(frames[j])
    BY <1>7, <1>10 DEF WellFragmented
  <2>2. j \in 1..n
    BY <1>7
  <2> QED BY <1>5, <2>1, <2>2
<1> QED BY <1>9, <1>10 DEF FnfUnderWay, n

LEMMA OwnsInOrder ==
  ASSUME IInv, NEW e \in Endpoints, NEW lane \in AllLanes, NEW f, IsOpen(e),
         Good(written[Peer(e)], laneStream[Peer(e)], unreliable, lane, nextIn[e], f)
  PROVE  Owns(e, lane, f)
<1>1. /\ f \in AnyFrame /\ Routed(laneStream[Peer(e)], unreliable, lane, f)
      /\ f.follows => f.type = "REQUEST_FNF" /\ f.stream = 5
      /\ f.type = "REQUEST_FNF" /\ ~f.follows => f.stream = 3
      /\ f.type = "METADATA_PUSH" => f.stream = 0
      /\ lane.kind = "interaction" =>
           /\ lane \in DOMAIN laneStream[Peer(e)] /\ laneStream[Peer(e)][lane] = f.stream
           /\ IsInteractionFrame(f)
  BY InOrder
<1>2. lane.kind \in {"control", "reliable", "interaction", "datagram"}
  BY LaneFacts
<1>3. f.type = "REQUEST_FNF" => f.stream # 0
  BY <1>1
<1>4. CASE lane.kind = "datagram"
  BY <1>1, <1>3, <1>4 DEF Routed, Owns
<1>5. CASE lane.kind = "control"
  BY <1>1, <1>5 DEF Routed, Owns
<1>6. CASE lane.kind = "reliable"
  <2>1. f.type = "METADATA_PUSH" \/ f.type = "REQUEST_FNF" \/ (f.type = "PAYLOAD" /\ f.stream = 5)
    BY <1>1, <1>6 DEF Routed
  <2>2. f.type = "PAYLOAD" /\ f.stream = 5 => 5 \in inFnf[e]
    <3>1. FragmentInv /\ ~IsClosing(e)
      BY DEF IInv, IsOpen, IsClosing
    <3>2. LastFragment(f) => FnfUnderWay(delivered[e])
      BY FragmentsInOrder
    <3> QED BY <3>1, <3>2 DEF LastFragment, FragmentInv
  <2> QED BY <1>1, <1>3, <1>6, <2>1, <2>2 DEF Owns
<1>7. CASE lane.kind = "interaction"
  <2>1. lane \in DOMAIN laneStream[e] => laneStream[e][lane] = f.stream
    BY <1>1, <1>7 DEF IInv, LaneInv
  <2> QED BY <1>1, <1>7, <2>1 DEF Owns
<1> QED BY <1>2, <1>4, <1>5, <1>6, <1>7

\* e takes the next record in order; rest is what it holds from then on.
Takes(e, lane, f, rest) ==
  /\ IsOpen(e) /\ Good(written[Peer(e)], laneStream[Peer(e)], unreliable, lane, nextIn[e], f)
  /\ Emit(e, lane, f)
  /\ nextIn' = [nextIn EXCEPT ![e] = @ + 1]
  /\ pending' = [pending EXCEPT ![e] = rest]
  /\ MapExtends(rest, pending[e]) /\ nextIn[e] \notin DOMAIN rest
  /\ draining' = [draining EXCEPT ![e] = nextIn[e] + 1 \in DOMAIN rest]
  /\ wire' \in [Endpoints -> [Lanes -> Seq(Records)]] /\ air' \in [Endpoints -> SUBSET Records]
  /\ \A w \in Endpoints : /\ \A lane2 \in Lanes : From(wire'[w][lane2], wire[w][lane2])
                          /\ air'[w] \subseteq air[w]
  /\ UNCHANGED unread

LEMMA TakesFacts ==
  ASSUME IInv, NEW e \in Endpoints, NEW lane \in AllLanes, NEW f, NEW rest \in PendingMaps,
         Takes(e, lane, f, rest)
  PROVE  /\ resumed' = resumed /\ unreliable' = unreliable /\ subscribed' = subscribed
         /\ nextOut' = nextOut /\ opened' = opened /\ written' = written
         /\ phase' = phase /\ datagrams' = datagrams /\ outFnf' = outFnf /\ control' = control
         /\ delivered' \in [Endpoints -> Seq(AnyFrame)]
         /\ delivered'[e] = Append(delivered[e], f)
         /\ \A x \in Endpoints : x # e => delivered'[x] = delivered[x]
<1>1. Owns(e, lane, f)
  BY OwnsInOrder DEF Takes
<1>2. f \in AnyFrame
  BY InOrder DEF Takes
<1>3. /\ delivered' = [delivered EXCEPT ![e] = Append(@, f)]
      /\ UNCHANGED <<phase, datagrams, outFnf, control>>
  BY <1>1 DEF Takes, Emit
<1>4. delivered \in [Endpoints -> Seq(AnyFrame)]
  BY DEF IInv, Types
<1>5. /\ delivered' \in [Endpoints -> Seq(AnyFrame)]
      /\ delivered'[e] = Append(delivered[e], f)
      /\ \A x \in Endpoints : x # e => delivered'[x] = delivered[x]
  <2>1. Append(delivered[e], f) \in Seq(AnyFrame)
    BY <1>2, <1>4, AppendFacts
  <2> QED BY <1>3, <1>4, <2>1
<1>6. /\ resumed' = resumed /\ unreliable' = unreliable /\ subscribed' = subscribed
      /\ nextOut' = nextOut /\ opened' = opened /\ written' = written
  BY DEF Takes, unread, mode
<1> QED BY <1>3, <1>5, <1>6

LEMMA TakesLanes ==
  ASSUME IInv, NEW e \in Endpoints, NEW lane \in AllLanes, NEW f, NEW rest \in PendingMaps,
         Takes(e, lane, f, rest)
  PROVE  /\ inFnf' = [inFnf EXCEPT ![e] =
              IF lane.kind # "reliable" \/ f.stream = 0 THEN @
              ELSE IF f.follows THEN @ \cup {f.stream} ELSE @ \ {f.stream}]
         /\ lane.kind # "interaction" => UNCHANGED <<interactions, laneStream, finished>>
         /\ lane.kind = "interaction" =>
              LET s == f.stream
                  first == lane \notin DOMAIN laneStream[e]
                  before == IF first THEN Adopted(e, lane, f) ELSE interactions[e][s]
                  spare == IF first /\ before.lane # lane THEN {lane} ELSE {}
                  after == Tracked(before, f, FALSE)
              IN Maps(e, s, lane, after, spare \cup Released(before, after))
<1>1. Owns(e, lane, f)
  BY OwnsInOrder DEF Takes
<1>2. /\ inFnf' = [inFnf EXCEPT ![e] =
           IF lane.kind # "reliable" \/ f.stream = 0 THEN @
           ELSE IF f.follows THEN @ \cup {f.stream} ELSE @ \ {f.stream}]
      /\ lane.kind # "interaction" => UNCHANGED <<interactions, laneStream, finished>>
  BY <1>1 DEF Takes, Emit
<1>3. lane.kind = "interaction" =>
        LET s == f.stream
            first == lane \notin DOMAIN laneStream[e]
            before == IF first THEN Adopted(e, lane, f) ELSE interactions[e][s]
            spare == IF first /\ before.lane # lane THEN {lane} ELSE {}
            after == Tracked(before, f, FALSE)
        IN /\ laneStream' = [laneStream EXCEPT ![e] = MapSet(@, lane, s)]
           /\ interactions' = [interactions EXCEPT ![e][s] = after]
           /\ finished' = [finished EXCEPT ![e] = @ \cup spare \cup Released(before, after)]
  BY <1>1 DEF Takes, Emit
<1>4. finished \in [Endpoints -> SUBSET InteractionLanes]
  BY DEF IInv, Types
<1>5. \A a, b : finished' = [finished EXCEPT ![e] = @ \cup a \cup b]
                  => finished' = [finished EXCEPT ![e] = @ \cup (a \cup b)]
  <2>1. \A a, b : finished[e] \cup a \cup b = finished[e] \cup (a \cup b)
    OBVIOUS
  <2> QED BY <1>4, <2>1
<1>6. lane.kind = "interaction" =>
        LET s == f.stream
            first == lane \notin DOMAIN laneStream[e]
            before == IF first THEN Adopted(e, lane, f) ELSE interactions[e][s]
            spare == IF first /\ before.lane # lane THEN {lane} ELSE {}
            after == Tracked(before, f, FALSE)
        IN Maps(e, s, lane, after, spare \cup Released(before, after))
  BY <1>3, <1>5 DEF Maps
<1> QED BY <1>2, <1>6

LEMMA TakesOrder ==
  ASSUME IInv, NEW e \in Endpoints, NEW lane \in AllLanes, NEW f, NEW rest \in PendingMaps,
         Takes(e, lane, f, rest)
  PROVE  /\ WriterInv' /\ ReaderInv'
         /\ nextIn' \in [Endpoints -> Nat] /\ pending' \in [Endpoints -> PendingMaps]
         /\ draining' \in [Endpoints -> BOOLEAN]
<1>1. /\ Types /\ WriterInv /\ ReaderInv /\ IsOpen(e)
      /\ nextIn \in [Endpoints -> Nat] /\ pending \in [Endpoints -> PendingMaps]
      /\ draining \in [Endpoints -> BOOLEAN]
      /\ delivered[e] \in Seq(AnyFrame) /\ written[Peer(e)] \in Seq(Frames)
  BY PeerFacts DEF IInv, Types, Takes
<1>2. /\ resumed' = resumed /\ nextOut' = nextOut /\ opened' = opened /\ written' = written
      /\ phase' = phase /\ delivered'[e] = Append(delivered[e], f)
      /\ \A x \in Endpoints : x # e => delivered'[x] = delivered[x]
  BY TakesFacts
<1>3. /\ f \in AnyFrame /\ nextIn[e] = Len(delivered[e])
      /\ Stands(written[Peer(e)], Len(delivered[e]), f)
  BY InOrder DEF Takes
<1>4. /\ nextIn'[e] = nextIn[e] + 1 /\ pending'[e] = rest
      /\ (draining'[e] <=> nextIn[e] + 1 \in DOMAIN rest)
      /\ \A x \in Endpoints : x # e =>
           nextIn'[x] = nextIn[x] /\ pending'[x] = pending[x] /\ draining'[x] = draining[x]
      /\ nextIn' \in [Endpoints -> Nat] /\ pending' \in [Endpoints -> PendingMaps]
      /\ draining' \in [Endpoints -> BOOLEAN]
      /\ \A o \in DOMAIN rest : o \in DOMAIN pending[e] /\ o # nextIn[e]
  <2> DEFINE more == nextIn[e] + 1 \in DOMAIN rest
  <2>1. /\ nextIn' = [nextIn EXCEPT ![e] = @ + 1] /\ pending' = [pending EXCEPT ![e] = rest]
        /\ draining' = [draining EXCEPT ![e] = more]
        /\ \A o \in DOMAIN rest : o \in DOMAIN pending[e] /\ o # nextIn[e]
    BY DEF Takes, MapExtends
  <2>2. more \in BOOLEAN
    OBVIOUS
  <2> HIDE DEF more
  <2>3. /\ draining'[e] = more /\ draining' \in [Endpoints -> BOOLEAN]
        /\ \A x \in Endpoints : x # e => draining'[x] = draining[x]
    BY <1>1, <2>1, <2>2
  <2>4. /\ nextIn'[e] = nextIn[e] + 1 /\ nextIn' \in [Endpoints -> Nat]
        /\ \A x \in Endpoints : x # e => nextIn'[x] = nextIn[x]
    BY <1>1, <2>1
  <2>5. /\ pending'[e] = rest /\ pending' \in [Endpoints -> PendingMaps]
        /\ \A x \in Endpoints : x # e => pending'[x] = pending[x]
    BY <1>1, <2>1
  <2> QED BY <2>1, <2>3, <2>4, <2>5 DEF more
<1>5. WriterInv'
  BY <1>1, <1>2 DEF WriterInv, Bound
<1>6. /\ Len(delivered[e]) \in Nat /\ Len(delivered'[e]) = Len(delivered[e]) + 1
      /\ \A i \in 1..Len(delivered'[e]) :
           \/ i \in 1..Len(delivered[e]) /\ delivered'[e][i] = delivered[e][i]
           \/ i = Len(delivered[e]) + 1 /\ delivered'[e][i] = f
      /\ Len(written[Peer(e)]) \in Nat
  BY <1>1, <1>2, <1>3, AppendFacts, LenProperties
<1>7. Len(delivered'[e]) <= Len(written[Peer(e)])
  <2>1. Len(delivered[e]) < Len(written[Peer(e)])
    BY <1>3 DEF Stands
  <2>2. \A a, b \in Nat : a < b => a + 1 <= b
    OBVIOUS
  <2> QED BY <1>6, <2>1, <2>2
<1>8. \A i \in 1..Len(delivered'[e]) : Stands(written[Peer(e)], i - 1, delivered'[e][i])
  <2> SUFFICES ASSUME NEW i \in 1..Len(delivered'[e])
               PROVE  Stands(written[Peer(e)], i - 1, delivered'[e][i])
    OBVIOUS
  <2>1. CASE i \in 1..Len(delivered[e]) /\ delivered'[e][i] = delivered[e][i]
    BY <1>1, <2>1 DEF ReaderInv
  <2>2. CASE i = Len(delivered[e]) + 1 /\ delivered'[e][i] = f
    <3>1. i - 1 = Len(delivered[e])
      BY <1>6, <2>2
    <3> QED BY <1>3, <2>2, <3>1
  <2> QED BY <1>6, <2>1, <2>2
<1>9. \A o \in DOMAIN rest : o >= nextIn[e] + 1 /\ (o = nextIn[e] + 1 => draining'[e])
  <2>1. \A o \in DOMAIN rest : o \in Nat
    BY PendingMapFacts
  <2>2. \A o \in DOMAIN rest : o >= nextIn[e] /\ o # nextIn[e]
    BY <1>1, <1>4 DEF ReaderInv
  <2>3. \A a, b \in Nat : a >= b /\ a # b => a >= b + 1
    OBVIOUS
  <2> QED BY <1>1, <1>4, <2>1, <2>2, <2>3
<1>10. ReaderInv'
  <2>1. \A x \in Endpoints : x # e =>
          /\ nextIn'[x] = Len(delivered'[x])
          /\ Len(delivered'[x]) <= Len(written'[Peer(x)])
          /\ \A i \in 1..Len(delivered'[x]) : Stands(written'[Peer(x)], i - 1, delivered'[x][i])
          /\ draining'[x] => IsOpen(x)' /\ nextIn'[x] \in DOMAIN pending'[x]
          /\ \A o \in DOMAIN pending'[x] : o >= nextIn'[x] /\ (o = nextIn'[x] => draining'[x])
    BY <1>1, <1>2, <1>4 DEF ReaderInv, IsOpen
  <2>2. nextIn'[e] = Len(delivered'[e])
    BY <1>3, <1>4, <1>6
  <2>3. draining'[e] => IsOpen(e)' /\ nextIn'[e] \in DOMAIN pending'[e]
    BY <1>1, <1>2, <1>4 DEF IsOpen
  <2>4. \A o \in DOMAIN pending'[e] : o >= nextIn'[e] /\ (o = nextIn'[e] => draining'[e])
    BY <1>4, <1>9
  <2> QED BY <1>2, <1>7, <1>8, <2>1, <2>2, <2>3, <2>4 DEF ReaderInv
<1> QED BY <1>4, <1>5, <1>10

LEMMA TakesTransit ==
  ASSUME IInv, NEW e \in Endpoints, NEW lane \in AllLanes, NEW f, NEW rest \in PendingMaps,
         Takes(e, lane, f, rest),
         \A x \in Endpoints : MapExtends(laneStream[x], laneStream'[x])
  PROVE  TransitInv'
<1>1. Types /\ TransitInv
  BY DEF IInv
<1>2. /\ unreliable' = unreliable /\ datagrams' = datagrams /\ written' = written
  BY TakesFacts
<1>3. /\ pending'[e] = rest /\ MapExtends(rest, pending[e])
      /\ \A x \in Endpoints : x # e => pending'[x] = pending[x]
  BY <1>1 DEF Takes, Types
<1>4. \A w \in Endpoints : Extends(written[w], written'[w]) /\ MapExtends(laneStream[w], laneStream'[w])
  BY <1>1, <1>2, ExtendsRefl, LenProperties DEF Types
<1>5. written' \in [Endpoints -> Seq(Frames)]
  BY <1>1, <1>2 DEF Types
<1>6. \A w \in Endpoints : \A lane2 \in Lanes : \A i \in 1..Len(wire'[w][lane2]) :
        \E j \in 1..Len(wire[w][lane2]) : wire'[w][lane2][i] = wire[w][lane2][j]
  BY DEF From, Takes
<1>7. \A w \in Endpoints : \A i \in 1..Len(datagrams'[w]) :
        \E j \in 1..Len(datagrams[w]) : datagrams'[w][i] = datagrams[w][j]
  BY <1>2
<1>8. \A w \in Endpoints : air'[w] \subseteq air[w]
  BY DEF Takes
<1>9. \A w \in Endpoints : \A o \in DOMAIN pending'[Peer(w)] :
        o \in DOMAIN pending[Peer(w)] /\ pending'[Peer(w)][o] = pending[Peer(w)][o]
  BY <1>3, PeerFacts DEF MapExtends
<1> QED BY ONLY <1>1, <1>2, <1>4, <1>5, <1>6, <1>7, <1>8, <1>9, TransitStep

LEMMA TakesFragments ==
  ASSUME IInv, NEW e \in Endpoints, NEW lane \in AllLanes, NEW f, NEW rest \in PendingMaps,
         Takes(e, lane, f, rest)
  PROVE  FragmentInv' /\ inFnf' \in [Endpoints -> SUBSET {5}]
<1>1. /\ FragmentInv /\ inFnf \in [Endpoints -> SUBSET {5}] /\ delivered[e] \in Seq(AnyFrame)
      /\ ~IsClosing(e)
  BY DEF IInv, Types, Takes, IsOpen, IsClosing
<1>2. /\ written' = written /\ phase' = phase /\ outFnf' = outFnf
      /\ delivered'[e] = Append(delivered[e], f)
      /\ \A x \in Endpoints : x # e => delivered'[x] = delivered[x]
      /\ inFnf' = [inFnf EXCEPT ![e] =
           IF lane.kind # "reliable" \/ f.stream = 0 THEN @
           ELSE IF f.follows THEN @ \cup {f.stream} ELSE @ \ {f.stream}]
  <2>1. Takes(e, lane, f, rest)
    OBVIOUS
  <2>2. written' = written /\ phase' = phase /\ outFnf' = outFnf
    BY <2>1, TakesFacts
  <2>3. /\ delivered'[e] = Append(delivered[e], f)
        /\ \A x \in Endpoints : x # e => delivered'[x] = delivered[x]
    BY <2>1, TakesFacts
  <2>4. inFnf' = [inFnf EXCEPT ![e] =
           IF lane.kind # "reliable" \/ f.stream = 0 THEN @
           ELSE IF f.follows THEN @ \cup {f.stream} ELSE @ \ {f.stream}]
    BY <2>1, TakesLanes
  <2> QED BY <2>2, <2>3, <2>4
<1>3. /\ f \in AnyFrame
      /\ f.follows => f.type = "REQUEST_FNF" /\ f.stream = 5
      /\ FirstFragment(f) \/ LastFragment(f) => lane.kind = "reliable"
      /\ f.type = "REQUEST_FNF" /\ ~f.follows => f.stream = 3
      /\ f.type = "METADATA_PUSH" => f.stream = 0
      /\ Routed(laneStream[Peer(e)], unreliable, lane, f)
  <2>1. Good(written[Peer(e)], laneStream[Peer(e)], unreliable, lane, nextIn[e], f)
    BY DEF Takes
  <2>2. FirstFragment(f) \/ LastFragment(f) => lane.kind = "reliable"
    BY <2>1, InOrder
  <2>3. f \in AnyFrame /\ Routed(laneStream[Peer(e)], unreliable, lane, f)
    BY <2>1, InOrder
  <2>4. /\ f.follows => f.type = "REQUEST_FNF" /\ f.stream = 5
        /\ f.type = "REQUEST_FNF" /\ ~f.follows => f.stream = 3
        /\ f.type = "METADATA_PUSH" => f.stream = 0
    BY <2>1, InOrder
  <2> QED BY <2>2, <2>3, <2>4
<1>4. /\ FirstFragment(f) => \A i \in 1..Len(delivered[e]) : ~LastFragment(delivered[e][i])
      /\ LastFragment(f) => FnfUnderWay(delivered[e])
  BY FragmentsInOrder DEF Takes
<1>5. /\ inFnf'[e] = IF lane.kind # "reliable" \/ f.stream = 0 THEN inFnf[e]
                     ELSE IF f.follows THEN inFnf[e] \cup {f.stream} ELSE inFnf[e] \ {f.stream}
      /\ \A x \in Endpoints : x # e => inFnf'[x] = inFnf[x]
      /\ inFnf' \in [Endpoints -> SUBSET {5}]
  BY <1>1, <1>2, <1>3
<1>6. FnfUnderWay(delivered'[e]) <=>
        /\ ~LastFragment(f)
        /\ \/ FnfUnderWay(delivered[e])
           \/ FirstFragment(f) /\ \A i \in 1..Len(delivered[e]) : ~LastFragment(delivered[e][i])
  BY <1>1, <1>2, <1>3, FragmentAppend
<1>7. 5 \in inFnf[e] <=> FnfUnderWay(delivered[e])
  BY <1>1 DEF FragmentInv
<1>8. 5 \in inFnf'[e] <=> FnfUnderWay(delivered'[e])
  <2>1. CASE FirstFragment(f)
    <3>1. ~LastFragment(f) /\ lane.kind = "reliable" /\ f.follows /\ f.stream = 5
      BY <1>3, <2>1 DEF FirstFragment, LastFragment
    <3>2. 5 \in inFnf'[e]
      BY <1>5, <3>1
    <3> QED BY <1>4, <1>6, <2>1, <3>1, <3>2
  <2>2. CASE LastFragment(f)
    <3>1. lane.kind = "reliable" /\ ~f.follows /\ f.stream = 5
      BY <1>3, <2>2 DEF LastFragment
    <3>2. 5 \notin inFnf'[e]
      BY <1>5, <3>1
    <3> QED BY <1>6, <2>2, <3>2
  <2>3. CASE ~FirstFragment(f) /\ ~LastFragment(f)
    <3>1. 5 \in inFnf'[e] <=> 5 \in inFnf[e]
      <4>1. CASE lane.kind # "reliable" \/ f.stream = 0
        BY <1>5, <4>1
      <4>2. CASE ~(lane.kind # "reliable" \/ f.stream = 0)
        <5>1. f.type \in {"METADATA_PUSH", "REQUEST_FNF"}
          BY <1>3, <2>3, <4>2 DEF Routed, LastFragment
        <5>2. ~f.follows
          BY <1>3, <2>3 DEF FirstFragment
        <5>3. f.stream = 3
          BY <1>3, <4>2, <5>1, <5>2
        <5> QED BY <1>5, <4>2, <5>2, <5>3
      <4> QED BY <4>1, <4>2
    <3> QED BY <1>6, <1>7, <2>3, <3>1
  <2> QED BY <2>1, <2>2, <2>3
<1>9. FragmentInv'
  BY <1>1, <1>2, <1>5, <1>8 DEF FragmentInv, IsClosing
<1> QED BY <1>5, <1>9

\* Requests are only written; that more has been delivered disturbs nothing.
LEMMA TakesRequests ==
  ASSUME IInv, RequestInv, NEW e \in Endpoints, NEW lane \in AllLanes, NEW f, NEW rest \in PendingMaps,
         Takes(e, lane, f, rest)
  PROVE  RequestInv'
<1>1. /\ written' = written /\ delivered'[e] = Append(delivered[e], f)
      /\ \A x \in Endpoints : x # e => delivered'[x] = delivered[x]
  BY TakesFacts
<1>2. f \in AnyFrame /\ delivered[e] \in Seq(AnyFrame) /\ "responder" \in Endpoints
  <2>1. f \in AnyFrame
    BY InOrder DEF Takes
  <2> QED BY <2>1 DEF IInv, Types, Endpoints
<1>3. \A t \in Streams : SeqHas(delivered["responder"], t, {"REQUEST_CHANNEL"})
        => SeqHas(delivered'["responder"], t, {"REQUEST_CHANNEL"})
  <2>1. \A t \in Streams : SeqHas(delivered[e], t, {"REQUEST_CHANNEL"})
          => SeqHas(Append(delivered[e], f), t, {"REQUEST_CHANNEL"})
    BY <1>2, HasAppend
  <2> QED BY <1>1, <1>2, <2>1
<1> QED BY <1>1, <1>3 DEF RequestInv

LEMMA TakesAside ==
  ASSUME IInv, NEW e \in Endpoints, NEW lane \in AllLanes, NEW f, NEW rest \in PendingMaps,
         Takes(e, lane, f, rest), lane.kind # "interaction"
  PROVE  /\ LaneInv' /\ LifeInv'
         /\ laneStream' \in [Endpoints -> LaneMaps]
         /\ interactions' \in [Endpoints -> [Streams -> Entries]]
         /\ finished' \in [Endpoints -> SUBSET InteractionLanes]
         /\ \A x \in Endpoints : MapExtends(laneStream[x], laneStream'[x])
<1>1. Types /\ LaneInv /\ LifeInv
  BY DEF IInv
<1>2. /\ resumed' = resumed /\ opened' = opened /\ written' = written /\ phase' = phase
      /\ delivered'[e] = Append(delivered[e], f)
      /\ \A x \in Endpoints : x # e => delivered'[x] = delivered[x]
  BY TakesFacts
<1>3. interactions' = interactions /\ laneStream' = laneStream /\ finished' = finished
  BY TakesLanes
<1>4. f \in AnyFrame /\ f.stream \notin Streams
  <2>1. Good(written[Peer(e)], laneStream[Peer(e)], unreliable, lane, nextIn[e], f)
    BY DEF Takes
  <2> QED BY <2>1, InOrder
<1>5. LaneInv'
  BY <1>1, <1>2, <1>3 DEF LaneInv
<1>6. ASSUME ~resumed
      PROVE  RequestInv' /\ KeptInv' /\ OneLaneInv'
  <2>1. RequestInv /\ KeptInv /\ OneLaneInv
    BY <1>1, <1>6 DEF LifeInv
  <2>2. \A x \in Endpoints : written[x] \in Seq(AnyFrame) /\ delivered[x] \in Seq(AnyFrame)
    BY <1>1, FramesAreFrames DEF Types
  <2>3. ASSUME NEW t \in Streams, NEW y
        PROVE  /\ Began(written[e], Append(delivered[e], f), t) <=> Began(written[e], delivered[e], t)
               /\ Kept(y, written[e], delivered[e], t) => Kept(y, written[e], Append(delivered[e], f), t)
    <3> DEFINE out == written[e]
               in == delivered[e]
    <3>1. out \in Seq(AnyFrame) /\ in \in Seq(AnyFrame) /\ f.stream # t
      BY <1>4, <2>2
    <3> HIDE DEF out, in
    <3>2. /\ Began(out, Append(in, f), t) <=> Began(out, in, t)
          /\ Kept(y, out, in, t) => Kept(y, out, Append(in, f), t)
      BY <1>4, <3>1, KeptOfOthers
    <3> QED BY <3>2 DEF out, in
  <2>4. \A x \in Endpoints, t \in Streams :
          Began(written'[x], delivered'[x], t) <=> Began(written[x], delivered[x], t)
    BY <1>2, <2>3
  <2>5. KeptInv'
    <3>1. \A x \in Endpoints, t \in Streams :
            Kept(interactions[x][t], written[x], delivered[x], t)
              => Kept(interactions'[x][t], written'[x], delivered'[x], t)
      BY <1>2, <1>3, <2>3
    <3> QED BY <1>2, <2>1, <3>1 DEF KeptInv, IsClosing
  <2>6. OneLaneInv'
    BY <1>2, <1>3, <2>1, <2>4 DEF OneLaneInv, IsClosing
  <2>7. RequestInv'
    BY <2>1, TakesRequests
  <2> QED BY <2>5, <2>6, <2>7
<1>7. LifeInv'
  BY <1>2, <1>6 DEF LifeInv
<1>8. \A x \in Endpoints : MapExtends(laneStream[x], laneStream'[x])
  BY <1>3, ExtendsRefl
<1>9. /\ laneStream' \in [Endpoints -> LaneMaps]
      /\ interactions' \in [Endpoints -> [Streams -> Entries]]
      /\ finished' \in [Endpoints -> SUBSET InteractionLanes]
  BY <1>1, <1>3 DEF Types
<1> QED BY <1>5, <1>7, <1>8, <1>9

\* The first record of a lane is the request that begins the interaction: no
\* end has said anything of it before.
LEMMA FirstIsTheRequest ==
  ASSUME IInv, ~resumed, NEW e \in Endpoints, NEW lane \in AllLanes, NEW f,
         Good(written[Peer(e)], laneStream[Peer(e)], unreliable, lane, nextIn[e], f),
         lane.kind = "interaction"
  PROVE  /\ \A x \in Endpoints : \A l \in DOMAIN laneStream[x] : laneStream[x][l] = f.stream => l = lane
         /\ lane \in DOMAIN laneStream[e] <=> Began(written[e], delivered[e], f.stream)
         /\ lane \notin DOMAIN laneStream[e] =>
              f.type = "REQUEST_CHANNEL" /\ Silent(written[e], delivered[e], f.stream)
<1> DEFINE s == f.stream
           frames == written[Peer(e)]
           n == Len(delivered[e])
<1>1. /\ Types /\ ReaderInv /\ RequestInv /\ OneLaneInv /\ LaneInv
      /\ Peer(e) \in Endpoints
  BY PeerFacts DEF IInv, LifeInv
<1>2. /\ lane \in DOMAIN laneStream[Peer(e)] /\ laneStream[Peer(e)][lane] = s /\ s \in Streams
      /\ f.type # "SKIPPED"
  BY InOrder
<1>3. f = frames[n + 1] /\ n + 1 \in 1..Len(frames) /\ n \in Nat
  <2>1. n \in Nat
    BY <1>1, LenProperties DEF Types
  <2> QED BY <1>2, <2>1, InOrder
<1>4. \A x \in Endpoints : \A l \in DOMAIN laneStream[x] : laneStream[x][l] = s => l = lane
  BY <1>1, <1>2 DEF OneLaneInv
<1>5. lane \in DOMAIN laneStream[e] => laneStream[e][lane] = s
  BY <1>1, <1>2 DEF LaneInv
<1>6. lane \in DOMAIN laneStream[e] <=> Began(written[e], delivered[e], s)
  <2>1. Began(written[e], delivered[e], s) <=> \E l \in DOMAIN laneStream[e] : laneStream[e][l] = s
    BY <1>1, <1>2 DEF OneLaneInv
  <2> QED BY <1>4, <1>5, <2>1
<1>7. ASSUME lane \notin DOMAIN laneStream[e]
      PROVE  f.type = "REQUEST_CHANNEL" /\ Silent(written[e], delivered[e], s)
  <2>1. ~Began(written[e], delivered[e], s)
    BY <1>6, <1>7
  <2>2. Silent(written[e], delivered[e], s)
    BY <1>1, <1>2, <2>1, NothingBeforeTheStart
  <2>3. /\ "requester" \in Endpoints /\ "responder" \in Endpoints /\ e \in {"requester", "responder"}
        /\ Peer("requester") = "responder" /\ Peer("responder") = "requester"
    BY DEF Endpoints, Peer
  <2>4. CASE e = "requester"
    <3>1. written["responder"][n + 1].stream = s /\ n + 1 \in 1..Len(written["responder"])
      BY <1>3, <2>3, <2>4
    <3>2. SeqHas(delivered["responder"], s, {"REQUEST_CHANNEL"})
      BY <1>1, <1>2, <3>1 DEF RequestInv
    <3>3. SeqHas(written["requester"], s, {"REQUEST_CHANNEL"})
      BY <1>1, <1>2, <3>2, StartIsWritten
    <3> QED BY <2>1, <2>4, <3>3 DEF Began
  <2>5. CASE e = "responder"
    <3>1. /\ f = written["requester"][n + 1] /\ n + 1 \in 1..Len(written["requester"])
          /\ n = Len(delivered["responder"])
      BY <1>3, <2>3, <2>5
    <3> HIDE DEF frames, n, s
    <3>2. PICK j \in 1..(n + 1) : Starts(written["requester"][j], s)
      <4>1. written["requester"][n + 1].stream = s
        BY <3>1 DEF s
      <4> QED BY <1>1, <1>2, <3>1, <4>1 DEF RequestInv
    <3>3. CASE j = n + 1
      BY <2>2, <3>1, <3>2, <3>3 DEF Starts, s
    <3>4. CASE j # n + 1
      <4>1. j \in 1..n
        BY <1>3, <3>2, <3>4
      <4>2. delivered["responder"][j].stream = written["requester"][j].stream
        BY <1>1, <2>3, <3>1, <4>1, DeliveredFacts
      <4>3. delivered["responder"][j].stream = s
        BY <3>2, <4>2 DEF Starts
      <4> QED BY <2>2, <2>5, <3>1, <4>1, <4>3 DEF Silent
    <3> QED BY <3>3, <3>4
  <2> QED BY <2>3, <2>4, <2>5
<1> QED BY <1>4, <1>6, <1>7

LEMMA TakesInteraction ==
  ASSUME IInv, NEW e \in Endpoints, NEW lane \in AllLanes, NEW f, NEW rest \in PendingMaps,
         Takes(e, lane, f, rest), lane.kind = "interaction"
  PROVE  /\ LaneInv' /\ LifeInv'
         /\ laneStream' \in [Endpoints -> LaneMaps]
         /\ interactions' \in [Endpoints -> [Streams -> Entries]]
         /\ finished' \in [Endpoints -> SUBSET InteractionLanes]
         /\ \A x \in Endpoints : MapExtends(laneStream[x], laneStream'[x])
<1> DEFINE s == f.stream
           first == lane \notin DOMAIN laneStream[e]
           own == interactions[e][s]
           before == IF first THEN Adopted(e, lane, f) ELSE own
           spare == IF first /\ before.lane # lane THEN {lane} ELSE {}
           after == Tracked(before, f, FALSE)
           gone == spare \cup Released(before, after)
<1>1. /\ Types /\ LaneInv /\ LifeInv /\ Peer(e) \in Endpoints
  BY PeerFacts DEF IInv
<1>2. Good(written[Peer(e)], laneStream[Peer(e)], unreliable, lane, nextIn[e], f)
  BY DEF Takes
<1>3. /\ f \in AnyFrame /\ f.type # "SKIPPED"
      /\ lane \in InteractionLanes /\ lane \in DOMAIN laneStream[Peer(e)]
      /\ laneStream[Peer(e)][lane] = s /\ s \in Streams
  BY <1>2, InOrder
<1>4. Maps(e, s, lane, after, gone)
  BY TakesLanes
<1>5. /\ resumed' = resumed /\ opened' = opened /\ written' = written /\ phase' = phase
      /\ delivered'[e] = Append(delivered[e], f)
      /\ \A x \in Endpoints : x # e => delivered'[x] = delivered[x]
  BY TakesFacts
<1>6. \A x \in Endpoints : lane \in DOMAIN laneStream[x] => laneStream[x][lane] = s
  <2>1. lane \in DOMAIN laneStream[e] => laneStream[e][lane] = s
    BY <1>1, <1>3 DEF LaneInv
  <2> QED BY <1>3, <2>1, PeerFacts
<1>7. /\ own \in Entries
      /\ own # NoInteraction =>
           /\ own.lane \in DOMAIN laneStream[e] \ finished[e]
           /\ laneStream[e][own.lane] = s /\ own.lane \in InteractionLanes
  <2>1. own \in Entries
    BY <1>1, <1>3 DEF Types
  <2>2. own # NoInteraction =>
          own.lane \in DOMAIN laneStream[e] \ finished[e] /\ laneStream[e][own.lane] = s
    BY <1>1, <1>3 DEF LaneInv
  <2>3. DOMAIN laneStream[e] \subseteq InteractionLanes
    BY <1>1, LaneMapFacts DEF Types
  <2> QED BY <2>1, <2>2, <2>3
<1>8. /\ Interaction(lane, f) \in Entries /\ Interaction(lane, f).lane = lane
      /\ Interaction(lane, f) # NoInteraction
  <2>1. InitialInteractionType(f) \in {"unknown", "REQUEST_STREAM", "REQUEST_CHANNEL"}
    BY DEF InitialInteractionType
  <2> QED BY <1>3, <2>1, EntryFacts
<1>9. before = own \/ (first /\ own = NoInteraction /\ before = Interaction(lane, f))
  BY DEF Adopted
<1>10. /\ ~first => before = own
       /\ first /\ own = NoInteraction => before = Interaction(lane, f)
  BY DEF Adopted
<1>11. spare = IF first /\ before.lane # lane THEN {lane} ELSE {}
  OBVIOUS
<1> HIDE DEF own, before, spare
<1>12. /\ before \in Entries
       /\ before # NoInteraction =>
            /\ before.lane \in InteractionLanes /\ before.lane \notin finished[e]
            /\ before.lane = lane \/ (before.lane \in DOMAIN laneStream[e] /\ laneStream[e][before.lane] = s)
  <2>1. finished[e] \subseteq DOMAIN laneStream[e]
    BY <1>1 DEF LaneInv
  <2> QED BY <1>3, <1>7, <1>8, <1>9, <2>1 DEF first
<1> HIDE DEF first, s
<1>13. after \in Entries /\ (after # NoInteraction => before # NoInteraction /\ after.lane = before.lane)
  BY <1>3, <1>12, TrackedFacts
<1> HIDE DEF after
<1>14. /\ gone \in SUBSET InteractionLanes
       /\ \A l \in gone : l = lane \/ (l \in DOMAIN laneStream[e] /\ laneStream[e][l] = s)
       /\ after # NoInteraction => after.lane \notin gone
       /\ before # NoInteraction /\ after = NoInteraction => before.lane \in gone
  <2>1. Released(before, after) = IF before # NoInteraction /\ after = NoInteraction THEN {before.lane} ELSE {}
    BY DEF Released
  <2>2. spare \subseteq {lane} /\ before.lane \notin spare
    BY <1>11
  <2> QED BY <1>3, <1>12, <1>13, <2>1, <2>2
<1> HIDE DEF gone
<1>15. /\ laneStream' \in [Endpoints -> LaneMaps]
       /\ interactions' \in [Endpoints -> [Streams -> Entries]]
       /\ finished' \in [Endpoints -> SUBSET InteractionLanes]
       /\ \A x \in Endpoints : MapExtends(laneStream[x], laneStream'[x])
       /\ interactions'[e][s] = after
       /\ \A t \in Streams : t # s => interactions'[e][t] = interactions[e][t]
       /\ \A x \in Endpoints : x # e => interactions'[x] = interactions[x]
  <2>1. lane \in DOMAIN laneStream[e] => laneStream[e][lane] = s
    BY <1>6
  <2> QED BY <1>1, <1>3, <1>4, <1>13, <1>14, <2>1, MapsFacts
<1>16. LaneInv'
  <2>1. opened' \in [Endpoints -> 0..MaxLanes] /\ \A x \in Endpoints : opened[x] <= opened'[x]
    <3>1. opened \in [Endpoints -> 0..MaxLanes] /\ opened' = opened
      BY <1>1, <1>5 DEF Types
    <3>2. \A x \in Endpoints : opened[x] \in 0..MaxLanes
      BY <3>1
    <3>3. \A n \in 0..MaxLanes : n <= n
      BY LanesAssumption
    <3> QED BY ONLY <3>1, <3>2, <3>3
  <2>2. lane.k <= opened'[lane.opener]
    BY <1>1, <1>3, <1>5 DEF LaneInv
  <2>3. after # NoInteraction =>
          /\ after.lane \notin finished[e] \cup gone
          /\ after.lane = lane \/ (after.lane \in DOMAIN laneStream[e] /\ laneStream[e][after.lane] = s)
    BY <1>12, <1>13, <1>14
  <2> QED BY <1>1, <1>3, <1>4, <1>6, <1>13, <1>14, <2>1, <2>2, <2>3, MapsLanes
<1>17. ASSUME ~resumed
       PROVE  RequestInv' /\ KeptInv' /\ OneLaneInv'
  <2>1. /\ RequestInv /\ KeptInv /\ OneLaneInv /\ ~IsClosing(e)
    BY <1>1, <1>17 DEF LifeInv, Takes, IsOpen, IsClosing
  <2>2. \A x \in Endpoints : written[x] \in Seq(AnyFrame) /\ delivered[x] \in Seq(AnyFrame)
    BY <1>1, FramesAreFrames DEF Types
  <2>3. Kept(own, written[e], delivered[e], s)
    BY <1>3, <2>1 DEF KeptInv, own
  <2>4. /\ \A x \in Endpoints : \A l \in DOMAIN laneStream[x] : laneStream[x][l] = s => l = lane
        /\ ~first <=> Began(written[e], delivered[e], s)
        /\ first => f.type = "REQUEST_CHANNEL" /\ Silent(written[e], delivered[e], s)
    <3>1. /\ \A x \in Endpoints : \A l \in DOMAIN laneStream[x] : laneStream[x][l] = f.stream => l = lane
          /\ lane \in DOMAIN laneStream[e] <=> Began(written[e], delivered[e], f.stream)
          /\ lane \notin DOMAIN laneStream[e] =>
               f.type = "REQUEST_CHANNEL" /\ Silent(written[e], delivered[e], f.stream)
      BY <1>2, <1>17, FirstIsTheRequest
    <3> QED BY <3>1 DEF s, first
  <2>5. first => before = Interaction(lane, f)
    <3>1. first => own = NoInteraction
      BY <2>3, <2>4 DEF Kept
    <3> QED BY <1>10, <3>1
  <2>6. Kept(after, written[e], Append(delivered[e], f), s)
    <3> DEFINE out == written[e]
               in == delivered[e]
    <3>1. out \in Seq(AnyFrame) /\ in \in Seq(AnyFrame)
      BY <2>2
    <3>2. CASE first
      <4>1. Silent(out, in, f.stream) /\ f.type = "REQUEST_CHANNEL" /\ before = Interaction(lane, f)
        BY <2>4, <2>5, <3>2 DEF s
      <4> HIDE DEF out, in
      <4>2. Kept(Tracked(before, f, FALSE), out, Append(in, f), f.stream)
        BY <1>3, <3>1, <4>1, KeptByStarting
      <4> QED BY <4>2 DEF after, s, out, in
    <3>3. CASE ~first
      <4>1. Began(out, in, f.stream) /\ Kept(before, out, in, f.stream)
        BY <1>10, <2>3, <2>4, <3>3 DEF s
      <4> HIDE DEF out, in
      <4>2. Kept(Tracked(before, f, FALSE), out, Append(in, f), f.stream)
        BY <1>3, <1>12, <3>1, <4>1, KeptByReading
      <4> QED BY <4>2 DEF after, s, out, in
    <3> QED BY <3>2, <3>3
  <2>7. \A t \in Streams : t # s =>
          /\ Began(written[e], Append(delivered[e], f), t) <=> Began(written[e], delivered[e], t)
          /\ Kept(interactions[e][t], written[e], delivered[e], t)
               => Kept(interactions[e][t], written[e], Append(delivered[e], f), t)
    <3> SUFFICES ASSUME NEW t \in Streams, t # s
                 PROVE  /\ Began(written[e], Append(delivered[e], f), t) <=> Began(written[e], delivered[e], t)
                        /\ Kept(interactions[e][t], written[e], delivered[e], t)
                             => Kept(interactions[e][t], written[e], Append(delivered[e], f), t)
      OBVIOUS
    <3> DEFINE y == interactions[e][t]
               out == written[e]
               in == delivered[e]
    <3>1. out \in Seq(AnyFrame) /\ in \in Seq(AnyFrame) /\ f.stream # t
      BY <2>2 DEF s
    <3> HIDE DEF y, out, in
    <3>2. /\ Began(out, Append(in, f), t) <=> Began(out, in, t)
          /\ Kept(y, out, in, t) => Kept(y, out, Append(in, f), t)
      BY <1>3, <3>1, KeptOfOthers
    <3> QED BY <3>2 DEF y, out, in
  <2>8. KeptInv'
    <3>1. \A t \in Streams : Kept(interactions'[e][t], written'[e], delivered'[e], t)
      BY <1>5, <1>15, <2>1, <2>6, <2>7 DEF KeptInv
    <3>2. \A x \in Endpoints, t \in Streams : x # e /\ ~IsClosing(x) =>
            Kept(interactions'[x][t], written'[x], delivered'[x], t)
      BY <1>5, <1>15, <2>1 DEF KeptInv
    <3>3. \A x \in Endpoints : IsClosing(x)' = IsClosing(x)
      BY <1>5 DEF IsClosing
    <3> QED BY <3>1, <3>2, <3>3 DEF KeptInv
  <2>9. \A x \in Endpoints, t \in Streams : ~(x = e /\ t = s) =>
          (Began(written'[x], delivered'[x], t) <=> Began(written[x], delivered[x], t))
    BY <1>5, <2>7
  <2>10. Began(written'[e], delivered'[e], s)
    <3>1. SeqHas(delivered[e], s, {"REQUEST_CHANNEL"}) \/ f.type = "REQUEST_CHANNEL"
            => SeqHas(Append(delivered[e], f), s, {"REQUEST_CHANNEL"})
      BY <1>3, <2>2, HasAppend DEF s
    <3>2. Began(written[e], delivered[e], s) \/ f.type = "REQUEST_CHANNEL"
      BY <2>4
    <3> QED BY <1>5, <3>1, <3>2 DEF Began
  <2>11. after = NoInteraction => lane \in finished[e] \cup gone
    <3> SUFFICES ASSUME after = NoInteraction
                 PROVE  lane \in finished[e] \cup gone
      OBVIOUS
    <3>1. CASE before # NoInteraction
      <4>1. before.lane \in gone
        BY <1>14, <3>1
      <4>2. before.lane = lane
        BY <1>12, <2>4, <3>1
      <4> QED BY <4>1, <4>2
    <3>2. CASE before = NoInteraction
      <4>1. ~first /\ own = NoInteraction
        BY <1>8, <1>10, <2>5, <3>2
      <4>2. lane \in DOMAIN laneStream[e] /\ laneStream[e][lane] = s
        BY <1>6, <4>1 DEF first
      <4> QED BY <2>1, <4>1, <4>2 DEF OneLaneInv, own
    <3> QED BY <3>1, <3>2
  <2>12. OneLaneInv'
    <3>1. lane \in DOMAIN laneStream[e] => laneStream[e][lane] = s
      BY <1>6
    <3>2. \A x \in Endpoints : \A l \in DOMAIN laneStream[x] : laneStream[x][l] = s => l = lane
      BY <2>4
    <3>3. /\ Types /\ OneLaneInv /\ s \in Streams /\ lane \in InteractionLanes /\ after \in Entries
          /\ gone \in SUBSET InteractionLanes /\ phase' = phase
      BY <1>1, <1>3, <1>5, <1>13, <1>14, <2>1
    <3> QED BY <1>4, <2>9, <2>10, <2>11, <3>1, <3>2, <3>3, MapsOneLane
  <2>13. RequestInv'
    BY <2>1, TakesRequests
  <2> QED BY <2>8, <2>12, <2>13
<1>18. LifeInv'
  BY <1>5, <1>17 DEF LifeInv
<1> QED BY <1>15, <1>16, <1>18

LEMMA TakeStep ==
  ASSUME IInv, NEW e \in Endpoints, NEW lane \in AllLanes, NEW f, NEW rest \in PendingMaps,
         Takes(e, lane, f, rest)
  PROVE  IInv'
<1>1. /\ LaneInv' /\ LifeInv'
      /\ laneStream' \in [Endpoints -> LaneMaps]
      /\ interactions' \in [Endpoints -> [Streams -> Entries]]
      /\ finished' \in [Endpoints -> SUBSET InteractionLanes]
      /\ \A x \in Endpoints : MapExtends(laneStream[x], laneStream'[x])
  <2>1. CASE lane.kind = "interaction"
    BY <2>1, TakesInteraction
  <2>2. CASE lane.kind # "interaction"
    BY <2>2, TakesAside
  <2> QED BY <2>1, <2>2
<1>2. /\ WriterInv' /\ ReaderInv'
      /\ nextIn' \in [Endpoints -> Nat] /\ pending' \in [Endpoints -> PendingMaps]
      /\ draining' \in [Endpoints -> BOOLEAN]
  BY TakesOrder
<1>3. TransitInv'
  BY <1>1, TakesTransit
<1>4. FragmentInv' /\ inFnf' \in [Endpoints -> SUBSET {5}]
  BY TakesFragments
<1>5. /\ resumed' = resumed /\ unreliable' = unreliable /\ subscribed' = subscribed
      /\ nextOut' = nextOut /\ opened' = opened /\ written' = written
      /\ phase' = phase /\ datagrams' = datagrams /\ outFnf' = outFnf /\ control' = control
      /\ delivered' \in [Endpoints -> Seq(AnyFrame)]
  BY TakesFacts
<1>6. wire' \in [Endpoints -> [Lanes -> Seq(Records)]] /\ air' \in [Endpoints -> SUBSET Records]
  BY DEF Takes
<1>7. Types
  BY DEF IInv
<1>8. Types'
  BY <1>1, <1>2, <1>4, <1>5, <1>6, <1>7 DEF Types
<1> QED BY <1>1, <1>2, <1>3, <1>4, <1>8 DEF IInv

\* A record that comes too early is held, one that is known is ignored.
LEMMA HoldStep ==
  ASSUME IInv, NEW e \in Endpoints, NEW more \in PendingMaps, ~draining[e],
         \A o \in DOMAIN more :
           \/ o \in DOMAIN pending[e] /\ more[o] = pending[e][o]
           \/ /\ o > nextIn[e]
              /\ Good(written[Peer(e)], laneStream[Peer(e)], unreliable, more[o].lane, o, more[o].frame),
         pending' = [pending EXCEPT ![e] = more],
         UNCHANGED <<phase, control, mapping, datagrams, outFnf, inFnf, nextIn, draining, delivered>>,
         UNCHANGED unread,
         wire' \in [Endpoints -> [Lanes -> Seq(Records)]], air' \in [Endpoints -> SUBSET Records],
         \A w \in Endpoints : /\ \A lane \in Lanes : From(wire'[w][lane], wire[w][lane])
                              /\ air'[w] \subseteq air[w]
  PROVE  IInv'
<1>1. Types /\ WriterInv /\ ReaderInv /\ TransitInv /\ FragmentInv /\ LaneInv /\ LifeInv
  BY DEF IInv
<1>2. /\ resumed' = resumed /\ unreliable' = unreliable /\ subscribed' = subscribed
      /\ nextOut' = nextOut /\ opened' = opened /\ written' = written
      /\ phase' = phase /\ control' = control
      /\ interactions' = interactions /\ laneStream' = laneStream /\ finished' = finished
      /\ datagrams' = datagrams /\ outFnf' = outFnf /\ inFnf' = inFnf
      /\ nextIn' = nextIn /\ draining' = draining /\ delivered' = delivered
  BY DEF unread, mode, mapping
<1>3. /\ pending'[e] = more /\ pending' \in [Endpoints -> PendingMaps]
      /\ \A x \in Endpoints : x # e => pending'[x] = pending[x]
  BY <1>1 DEF Types
<1>4. Types'
  BY <1>1, <1>2, <1>3 DEF Types
<1>5. WriterInv'
  BY <1>1, <1>2 DEF WriterInv, Bound
<1>6. ReaderInv'
  <2>1. \A o \in DOMAIN more : o >= nextIn[e] /\ o # nextIn[e]
    <3> SUFFICES ASSUME NEW o \in DOMAIN more
                 PROVE  o >= nextIn[e] /\ o # nextIn[e]
      OBVIOUS
    <3>1. o \in Nat /\ nextIn[e] \in Nat
      BY <1>1, PendingMapFacts DEF Types
    <3>2. CASE o \in DOMAIN pending[e]
      BY <1>1, <3>1, <3>2 DEF ReaderInv
    <3>3. CASE o > nextIn[e]
      BY <3>1, <3>3
    <3> QED BY <3>2, <3>3
  <2>2. \A x \in Endpoints : x # e =>
          /\ nextIn'[x] = Len(delivered'[x])
          /\ Len(delivered'[x]) <= Len(written'[Peer(x)])
          /\ \A i \in 1..Len(delivered'[x]) : Stands(written'[Peer(x)], i - 1, delivered'[x][i])
          /\ draining'[x] => IsOpen(x)' /\ nextIn'[x] \in DOMAIN pending'[x]
          /\ \A o \in DOMAIN pending'[x] : o >= nextIn'[x] /\ (o = nextIn'[x] => draining'[x])
    BY <1>1, <1>2, <1>3 DEF ReaderInv, IsOpen
  <2>3. /\ nextIn'[e] = Len(delivered'[e])
        /\ Len(delivered'[e]) <= Len(written'[Peer(e)])
        /\ \A i \in 1..Len(delivered'[e]) : Stands(written'[Peer(e)], i - 1, delivered'[e][i])
    BY <1>1, <1>2 DEF ReaderInv
  <2>4. /\ ~draining'[e]
        /\ \A o \in DOMAIN pending'[e] : o >= nextIn'[e] /\ o # nextIn'[e]
    BY <1>2, <1>3, <2>1
  <2> QED BY <2>2, <2>3, <2>4 DEF ReaderInv
<1>7. TransitInv'
  <2>1. \A w \in Endpoints : Extends(written[w], written'[w]) /\ MapExtends(laneStream[w], laneStream'[w])
    BY <1>1, <1>2, ExtendsRefl, LenProperties DEF Types
  <2>2. written' \in [Endpoints -> Seq(Frames)]
    BY <1>1, <1>2 DEF Types
  <2>3. \A w \in Endpoints : \A lane \in Lanes : \A i \in 1..Len(wire'[w][lane]) :
          \E j \in 1..Len(wire[w][lane]) : wire'[w][lane][i] = wire[w][lane][j]
    BY DEF From
  <2>4. \A w \in Endpoints : \A i \in 1..Len(datagrams'[w]) :
          \E j \in 1..Len(datagrams[w]) : datagrams'[w][i] = datagrams[w][j]
    BY <1>2
  <2>5. \A w \in Endpoints : air'[w] \subseteq air[w]
    OBVIOUS
  <2>6. \A w \in Endpoints : \A o \in DOMAIN pending'[Peer(w)] :
          \/ o \in DOMAIN pending[Peer(w)] /\ pending'[Peer(w)][o] = pending[Peer(w)][o]
          \/ Good(written'[w], laneStream'[w], unreliable, pending'[Peer(w)][o].lane, o,
                  pending'[Peer(w)][o].frame)
    <3> SUFFICES ASSUME NEW w \in Endpoints, NEW o \in DOMAIN pending'[Peer(w)]
                 PROVE  \/ o \in DOMAIN pending[Peer(w)] /\ pending'[Peer(w)][o] = pending[Peer(w)][o]
                        \/ Good(written'[w], laneStream'[w], unreliable, pending'[Peer(w)][o].lane, o,
                                pending'[Peer(w)][o].frame)
      OBVIOUS
    <3>1. CASE Peer(w) = e
      <4>1. w = Peer(e) /\ pending'[Peer(w)] = more
        BY <1>3, <3>1, PeerFacts
      <4> QED BY <1>2, <3>1, <4>1
    <3>2. CASE Peer(w) # e
      BY <1>3, <3>2, PeerFacts
    <3> QED BY <3>1, <3>2
  <2> QED BY ONLY <1>1, <1>2, <2>1, <2>2, <2>3, <2>4, <2>5, <2>6, TransitStep
<1>8. FragmentInv'
  BY <1>1, <1>2 DEF FragmentInv, IsClosing
<1>9. LaneInv'
  BY <1>1, <1>2 DEF LaneInv
<1>10. LifeInv'
  <2>1. RequestInv => RequestInv'
    BY <1>2 DEF RequestInv
  <2>2. KeptInv => KeptInv'
    BY <1>2 DEF KeptInv, IsClosing
  <2>3. OneLaneInv => OneLaneInv'
    BY <1>2 DEF OneLaneInv, IsClosing
  <2> QED BY <1>1, <1>2, <2>1, <2>2, <2>3 DEF LifeInv
<1> QED BY <1>4, <1>5, <1>6, <1>7, <1>8, <1>9, <1>10 DEF IInv

LEMMA AcceptStep ==
  ASSUME IInv, NEW e \in Endpoints, NEW lane \in AllLanes, NEW r \in Records,
         Receiving(e), ~draining[e],
         Good(written[Peer(e)], laneStream[Peer(e)], unreliable, lane, r.ordinal, r.frame),
         Accept(e, lane, r), UNCHANGED unread,
         wire' \in [Endpoints -> [Lanes -> Seq(Records)]], air' \in [Endpoints -> SUBSET Records],
         \A w \in Endpoints : /\ \A lane2 \in Lanes : From(wire'[w][lane2], wire[w][lane2])
                              /\ air'[w] \subseteq air[w]
  PROVE  IInv'
<1> DEFINE o == r.ordinal
           held == pending[e]
<1>1. /\ o \in Nat /\ r.frame \in AnyFrame /\ nextIn[e] \in Nat /\ IsOpen(e)
      /\ pending \in [Endpoints -> PendingMaps] /\ held \in PendingMaps
      /\ draining \in [Endpoints -> BOOLEAN]
  BY DEF Records, IInv, Types, Receiving
<1>2. pending = [pending EXCEPT ![e] = held]
  BY <1>1
<1>3. opened' = opened
  BY DEF unread
<1> HIDE DEF held
<1>4. CASE o < nextIn[e] \/ o \in DOMAIN pending[e]
  <2>1. /\ UNCHANGED <<phase, control, interactions, laneStream, finished, datagrams,
                       outFnf, inFnf, nextIn, pending, draining, delivered>>
    BY <1>4 DEF Accept, ordering
  <2>2. pending' = [pending EXCEPT ![e] = held]
    BY <1>2, <2>1
  <2>3. \A k \in DOMAIN held :
          \/ k \in DOMAIN pending[e] /\ held[k] = pending[e][k]
          \/ /\ k > nextIn[e]
             /\ Good(written[Peer(e)], laneStream[Peer(e)], unreliable, held[k].lane, k, held[k].frame)
    BY DEF held
  <2>4. UNCHANGED <<phase, control, mapping, datagrams, outFnf, inFnf, nextIn, draining, delivered>>
    BY <1>3, <2>1 DEF mapping
  <2> QED BY <1>1, <2>2, <2>3, <2>4, HoldStep
<1>5. CASE ~(o < nextIn[e] \/ o \in DOMAIN pending[e]) /\ o = nextIn[e]
  <2>1. /\ nextIn' = [nextIn EXCEPT ![e] = @ + 1]
        /\ Emit(e, lane, r.frame)
        /\ Owns(e, lane, r.frame) =>
             /\ draining' = [draining EXCEPT ![e] = o + 1 \in DOMAIN pending[e]]
             /\ UNCHANGED pending
    BY <1>5 DEF Accept
  <2>2. Good(written[Peer(e)], laneStream[Peer(e)], unreliable, lane, nextIn[e], r.frame)
    BY <1>5
  <2>3. Owns(e, lane, r.frame)
    BY <1>1, <2>2, OwnsInOrder
  <2>4. /\ pending' = [pending EXCEPT ![e] = held]
        /\ draining' = [draining EXCEPT ![e] = nextIn[e] + 1 \in DOMAIN held]
        /\ MapExtends(held, pending[e]) /\ nextIn[e] \notin DOMAIN held
    BY <1>2, <1>5, <2>1, <2>3, ExtendsRefl DEF held
  <2>5. Takes(e, lane, r.frame, held)
    BY <1>1, <2>1, <2>2, <2>4 DEF Takes
  <2> QED BY <1>1, <2>5, TakeStep
<1>6. CASE ~(o < nextIn[e] \/ o \in DOMAIN pending[e]) /\ o # nextIn[e]
  <2>1. CASE Cardinality(DOMAIN pending[e]) = ReorderLimit
    <3>1. Release(e, "failed") /\ UNCHANGED <<nextIn, laneStream, finished, delivered>>
      BY <1>6, <2>1 DEF Accept
    <3>2. UNCHANGED <<mode, subscribed, nextOut, opened, laneStream, finished, nextIn, written, delivered>>
      BY <3>1 DEF unread
    <3> QED BY <3>1, <3>2, ReleaseStep
  <2>2. CASE Cardinality(DOMAIN pending[e]) # ReorderLimit
    <3> DEFINE x == [lane |-> lane, frame |-> r.frame]
               more == MapSet(held, o, x)
    <3>1. /\ pending' = [pending EXCEPT ![e] = more]
          /\ UNCHANGED <<phase, control, interactions, laneStream, finished, datagrams,
                         outFnf, inFnf, nextIn, draining, delivered>>
      BY <1>6, <2>2 DEF Accept, held
    <3>2. x \in HeldRecords
      BY <1>1 DEF HeldRecords
    <3>3. x.lane = lane /\ x.frame = r.frame
      OBVIOUS
    <3> HIDE DEF x
    <3>4. more \in PendingMaps
      BY <1>1, <3>2, PendingMapFacts
    <3>5. \A k \in DOMAIN more : (k \in DOMAIN held /\ more[k] = held[k]) \/ (k = o /\ more[k] = x)
      BY DEF MapSet
    <3>6. o > nextIn[e]
      BY <1>1, <1>6
    <3> HIDE DEF more
    <3>7. \A k \in DOMAIN more :
            \/ k \in DOMAIN pending[e] /\ more[k] = pending[e][k]
            \/ /\ k > nextIn[e]
               /\ Good(written[Peer(e)], laneStream[Peer(e)], unreliable, more[k].lane, k, more[k].frame)
      BY <3>3, <3>5, <3>6 DEF held
    <3>8. UNCHANGED <<phase, control, mapping, datagrams, outFnf, inFnf, nextIn, draining, delivered>>
      BY <1>3, <3>1 DEF mapping
    <3> QED BY <3>1, <3>4, <3>7, <3>8, HoldStep
  <2> QED BY <2>1, <2>2
<1> QED BY <1>4, <1>5, <1>6

LEMMA ReadLaneStep ==
  ASSUME IInv, NEW e \in Endpoints, NEW lane \in Lanes, ReadLane(e, lane)
  PROVE  IInv'
<1> DEFINE w == Peer(e)
           h == Head(wire[w][lane])
           t == Tail(wire[w][lane])
<1>1. /\ Types /\ TransitInv /\ w \in Endpoints /\ wire[w][lane] # <<>>
      /\ wire \in [Endpoints -> [Lanes -> Seq(Records)]] /\ wire[w][lane] \in Seq(Records)
  <2>1. w \in Endpoints
    BY PeerFacts
  <2>2. wire[w][lane] # <<>>
    BY DEF ReadLane
  <2>3. Types /\ TransitInv /\ wire \in [Endpoints -> [Lanes -> Seq(Records)]]
    BY DEF IInv, Types
  <2> HIDE DEF w
  <2> QED BY <2>1, <2>2, <2>3
<1>2. /\ t \in Seq(Records) /\ h \in Records /\ From(t, wire[w][lane])
      /\ h = wire[w][lane][1] /\ 1 \in 1..Len(wire[w][lane])
  BY <1>1, TailFacts
<1>3. Good(written[w], laneStream[w], unreliable, lane, h.ordinal, h.frame)
  BY <1>1, <1>2 DEF TransitInv
<1>4. /\ wire' = [wire EXCEPT ![w][lane] = t] /\ air' = air /\ UNCHANGED unread
      /\ Accept(e, lane, h) /\ Receiving(e) /\ ~draining[e]
  BY DEF ReadLane
<1> HIDE DEF w, h, t
<1>5. wire' \in [Endpoints -> [Lanes -> Seq(Records)]]
  BY <1>1, <1>2, <1>4
<1>6. \A x \in Endpoints : \A l \in Lanes : From(wire'[x][l], wire[x][l])
  <2> SUFFICES ASSUME NEW x \in Endpoints, NEW l \in Lanes
               PROVE  From(wire'[x][l], wire[x][l])
    OBVIOUS
  <2>1. CASE x = w /\ l = lane
    BY <1>1, <1>2, <1>4, <2>1
  <2>2. CASE ~(x = w /\ l = lane)
    <3>1. wire'[x][l] = wire[x][l]
      BY <1>1, <1>4, <2>2
    <3> QED BY <3>1 DEF From
  <2> QED BY <2>1, <2>2
<1>7. air' \in [Endpoints -> SUBSET Records] /\ \A x \in Endpoints : air'[x] \subseteq air[x]
  BY <1>1, <1>4 DEF Types
<1>8. lane \in AllLanes
  BY LaneFacts
<1> QED BY <1>2, <1>3, <1>4, <1>5, <1>6, <1>7, <1>8, AcceptStep DEF w

LEMMA ReadDatagramStep ==
  ASSUME IInv, NEW e \in Endpoints, ReadDatagram(e)
  PROVE  IInv'
<1> DEFINE w == Peer(e)
<1>1. /\ Types /\ TransitInv /\ w \in Endpoints /\ air \in [Endpoints -> SUBSET Records]
      /\ wire \in [Endpoints -> [Lanes -> Seq(Records)]]
  BY PeerFacts DEF IInv, Types
<1>2. PICK p \in air[w] :
        /\ air' = [air EXCEPT ![w] = @ \ {p}]
        /\ Accept(e, Datagram(w), p)
  BY DEF ReadDatagram
<1>3. p \in Records /\ Good(written[w], laneStream[w], unreliable, Datagram(w), p.ordinal, p.frame)
  BY <1>1, <1>2 DEF TransitInv
<1>4. wire' = wire /\ UNCHANGED unread /\ Receiving(e) /\ ~draining[e]
  BY DEF ReadDatagram
<1>5. Datagram(w) \in AllLanes
  BY <1>1, LaneFacts
<1>6. air' \in [Endpoints -> SUBSET Records] /\ \A x \in Endpoints : air'[x] \subseteq air[x]
  <2> HIDE DEF w
  <2> QED BY <1>1, <1>2
<1>7. /\ wire' \in [Endpoints -> [Lanes -> Seq(Records)]]
      /\ \A x \in Endpoints : \A l \in Lanes : From(wire'[x][l], wire[x][l])
  BY <1>1, <1>4 DEF From
<1> HIDE DEF w
<1> QED BY <1>2, <1>3, <1>4, <1>5, <1>6, <1>7, AcceptStep DEF w

LEMMA DrainStep ==
  ASSUME IInv, NEW e \in Endpoints, Drain(e)
  PROVE  IInv'
<1> DEFINE r == pending[e][nextIn[e]]
           held == pending[e]
           rest == [o \in DOMAIN held \ {nextIn[e]} |-> held[o]]
<1>1. /\ Types /\ ReaderInv /\ TransitInv /\ draining[e]
      /\ pending \in [Endpoints -> PendingMaps] /\ held \in PendingMaps
      /\ wire \in [Endpoints -> [Lanes -> Seq(Records)]] /\ air \in [Endpoints -> SUBSET Records]
  BY DEF IInv, Types, Drain
<1>2. IsOpen(e) /\ nextIn[e] \in DOMAIN held
  BY <1>1 DEF ReaderInv
<1>3. rest \in PendingMaps /\ r \in HeldRecords
  <2>1. held \in [DOMAIN held -> HeldRecords] /\ nextIn[e] \in Nat
    BY <1>1, PendingMapFacts DEF Types
  <2>2. r \in HeldRecords
    BY <1>2, <2>1
  <2> HIDE DEF held
  <2>3. rest \in PendingMaps
    BY <1>1, <2>1, PendingMapFacts
  <2> QED BY <2>2, <2>3
<1>4. r.lane \in AllLanes
  BY <1>3 DEF HeldRecords
<1>5. Good(written[Peer(e)], laneStream[Peer(e)], unreliable, r.lane, nextIn[e], r.frame)
  <2>1. Peer(e) \in Endpoints /\ Peer(Peer(e)) = e
    BY PeerFacts
  <2>2. \A o \in DOMAIN pending[Peer(Peer(e))] :
          Good(written[Peer(e)], laneStream[Peer(e)], unreliable,
               pending[Peer(Peer(e))][o].lane, o, pending[Peer(Peer(e))][o].frame)
    BY <1>1, <2>1 DEF TransitInv
  <2> QED BY <1>2, <2>1, <2>2
<1>6. Owns(e, r.lane, r.frame)
  <2> HIDE DEF r
  <2> QED BY <1>2, <1>4, <1>5, OwnsInOrder
<1>7. /\ nextIn' = [nextIn EXCEPT ![e] = @ + 1]
      /\ Emit(e, r.lane, r.frame)
      /\ pending' = [pending EXCEPT ![e] = rest]
      /\ draining' = [draining EXCEPT ![e] = nextIn[e] + 1 \in DOMAIN rest]
      /\ UNCHANGED unread /\ wire' = wire /\ air' = air
  BY <1>6 DEF Drain
<1>8. MapExtends(rest, pending[e]) /\ nextIn[e] \notin DOMAIN rest
  BY DEF MapExtends
<1>9. \A w \in Endpoints : /\ \A l \in Lanes : From(wire'[w][l], wire[w][l])
                           /\ air'[w] \subseteq air[w]
  BY <1>7 DEF From
<1>10. wire' \in [Endpoints -> [Lanes -> Seq(Records)]] /\ air' \in [Endpoints -> SUBSET Records]
  BY <1>1, <1>7
<1> HIDE DEF r, rest, held
<1>11. Takes(e, r.lane, r.frame, rest)
  BY <1>2, <1>5, <1>7, <1>8, <1>9, <1>10 DEF Takes
<1> QED BY <1>3, <1>4, <1>11, TakeStep

LEMMA InitInvariant ==
  Init => IInv
<1> SUFFICES ASSUME Init PROVE IInv
  OBVIOUS
<1> USE DEF Init
<1>1. /\ \A S : <<>> \in Seq(S) /\ Len(<<>>) = 0
      /\ <<>> \in PendingMaps /\ <<>> \in LaneMaps /\ DOMAIN <<>> = {}
      /\ \A i : i \notin 1..0
  BY EmptyMaps
<1>2. NoInteraction \in Entries
  BY DEF NoInteraction, Entries
<1>3. Types
  <2>1. /\ interactions \in [Endpoints -> [Streams -> Entries]]
        /\ laneStream \in [Endpoints -> LaneMaps] /\ pending \in [Endpoints -> PendingMaps]
    BY <1>1, <1>2
  <2>2. /\ datagrams \in [Endpoints -> Seq(Records)]
        /\ wire \in [Endpoints -> [Lanes -> Seq(Records)]]
        /\ written \in [Endpoints -> Seq(Frames)] /\ delivered \in [Endpoints -> Seq(AnyFrame)]
    BY <1>1
  <2>3. nextOut \in [Endpoints -> Nat] /\ opened \in [Endpoints -> 0..MaxLanes] /\ nextIn \in [Endpoints -> Nat]
    BY LanesAssumption
  <2>4. /\ finished \in [Endpoints -> SUBSET InteractionLanes]
        /\ outFnf \in [Endpoints -> SUBSET {5}] /\ inFnf \in [Endpoints -> SUBSET {5}]
        /\ air \in [Endpoints -> SUBSET Records] /\ draining \in [Endpoints -> BOOLEAN]
    OBVIOUS
  <2> QED BY <2>1, <2>2, <2>3, <2>4 DEF Types
<1>4. \A e \in Endpoints :
        /\ Peer(e) \in Endpoints /\ written[e] = <<>> /\ delivered[e] = <<>> /\ laneStream[e] = <<>>
        /\ pending[e] = <<>> /\ datagrams[e] = <<>> /\ air[e] = {} /\ finished[e] = {}
        /\ \A lane \in Lanes : wire[e][lane] = <<>>
        /\ \A s \in Streams : interactions[e][s] = NoInteraction
        /\ nextOut[e] = 0 /\ opened[e] = 0 /\ nextIn[e] = 0 /\ ~draining[e]
        /\ outFnf[e] = {} /\ inFnf[e] = {}
  BY PeerFacts
<1> USE <1>1, <1>4
<1>5. WriterInv
  <2>1. \A e \in Endpoints : Bound(e) \in Nat
    BY LanesAssumption DEF Bound
  <2> QED BY <2>1 DEF WriterInv
<1>6. ReaderInv
  BY DEF ReaderInv
<1>7. TransitInv
  BY DEF TransitInv
<1>8. FragmentInv
  BY DEF FragmentInv, WellFragmented, FnfUnderWay
<1>9. LaneInv
  BY DEF LaneInv
<1>10. LifeInv
  <2>1. RequestInv
    BY DEF RequestInv, Endpoints
  <2>2. \A s, T : ~SeqHas(<<>>, s, T) /\ ~Ended(<<>>, s)
    BY DEF SeqHas, Ended
  <2>3. KeptInv
    BY <2>2 DEF KeptInv, Kept, Began
  <2>4. OneLaneInv
    BY <2>2 DEF OneLaneInv, Began
  <2> QED BY <2>1, <2>3, <2>4 DEF LifeInv
<1> QED BY <1>3, <1>5, <1>6, <1>7, <1>8, <1>9, <1>10 DEF IInv

LEMMA NextInvariant ==
  IInv /\ [Next]_vars => IInv'
<1>1. ASSUME IInv, Next PROVE IInv'
  <2>1. PICK e \in Endpoints : Progress(e) \/ Close(e) \/ WriteFrame(e) \/ ReadDatagram(e)
    BY <1>1 DEF Next
  <2>2. CASE Progress(e)
    <3>1. CASE SessionReady(e) \/ Subscribe(e) \/ ControlStreamCreated \/ AcceptControl
      BY <1>1, <3>1, SessionSteps
    <3>2. CASE SubmitDatagram(e) \/ DatagramLaneFails(e)
      BY <1>1, <3>2, DatagramLaneSteps
    <3>3. CASE \E lane \in Lanes : ReadLane(e, lane)
      BY <1>1, <3>3, ReadLaneStep
    <3>4. CASE Drain(e)
      BY <1>1, <3>4, DrainStep
    <3> QED BY <2>2, <3>1, <3>2, <3>3, <3>4 DEF Progress
  <2>3. CASE Close(e)
    BY <1>1, <2>3, CloseStep
  <2>4. CASE WriteFrame(e)
    BY <1>1, <2>4, WriteFrameStep
  <2>5. CASE ReadDatagram(e)
    BY <1>1, <2>5, ReadDatagramStep
  <2> QED BY <2>1, <2>2, <2>3, <2>4, <2>5
<1>2. ASSUME IInv, UNCHANGED vars PROVE IInv'
  BY <1>2, PhaseStep DEF vars, lifecycle, mode, traffic, IInv, Types
<1> QED BY <1>1, <1>2

\* The invariant of both ends and of everything between them, whatever they
\* write and however streams and datagrams deliver it.
THEOREM Invariant == Spec => []IInv
<1>1. Init => IInv
  BY InitInvariant
<1>2. IInv /\ [Next]_vars => IInv'
  BY NextInvariant
<1> QED BY <1>1, <1>2, PTL DEF Spec

(***************************************************************************)
(* What the invariant implies.                                             *)
(***************************************************************************)
LEMMA InvariantTypes ==
  IInv => TypeOK
<1> SUFFICES ASSUME IInv PROVE TypeOK
  OBVIOUS
<1>1. Types /\ WriterInv /\ ReaderInv /\ TransitInv /\ LaneInv
  BY DEF IInv
<1> SUFFICES ASSUME NEW e \in Endpoints
             PROVE  /\ nextOut[e] \in 0..Bound(e) /\ nextIn[e] \in 0..Bound(Peer(e))
                    /\ opened[e] \in 0..Bound(e)
                    /\ DOMAIN pending[e] \subseteq
                         nextIn[e] + (IF draining[e] THEN 0 ELSE 1)..Bound(Peer(e))
                    /\ finished[e] \subseteq DOMAIN laneStream[e]
                    /\ \A lane \in DOMAIN laneStream[e] : laneStream[e][lane] \in Streams
                    /\ (draining[e] => nextIn[e] \in DOMAIN pending[e])
  BY <1>1 DEF TypeOK, Types
<1>2. /\ Peer(e) \in Endpoints /\ Peer(Peer(e)) = e
      /\ Bound(e) \in Nat /\ Bound(Peer(e)) \in Nat
  BY PeerFacts, LanesAssumption DEF Bound
<1>3. /\ Len(written[e]) \in Nat /\ Len(written[Peer(e)]) \in Nat /\ Len(delivered[e]) \in Nat
      /\ nextOut[e] \in Nat /\ nextIn[e] \in Nat /\ opened[e] \in 0..MaxLanes
      /\ draining[e] \in BOOLEAN /\ pending[e] \in PendingMaps /\ laneStream[e] \in LaneMaps
  BY <1>1, <1>2, LenProperties DEF Types
<1>4. /\ nextOut[e] = Len(written[e]) /\ Len(written[e]) <= Bound(e) /\ opened[e] <= Len(written[e])
      /\ nextIn[e] = Len(delivered[e]) /\ Len(delivered[e]) <= Len(written[Peer(e)])
      /\ Len(written[Peer(e)]) <= Bound(Peer(e))
  BY <1>1, <1>2 DEF WriterInv, ReaderInv
<1>5. /\ nextOut[e] \in 0..Bound(e) /\ nextIn[e] \in 0..Bound(Peer(e)) /\ opened[e] \in 0..Bound(e)
  BY <1>2, <1>3, <1>4, LanesAssumption
<1>6. ASSUME NEW o \in DOMAIN pending[e]
      PROVE  o \in nextIn[e] + (IF draining[e] THEN 0 ELSE 1)..Bound(Peer(e))
  <2>1. o \in Nat
    BY <1>3, PendingMapFacts
  <2>2. o >= nextIn[e] /\ (o = nextIn[e] => draining[e])
    BY <1>1 DEF ReaderInv
  <2>3. o < Len(written[Peer(e)])
    <3>1. \A k \in DOMAIN pending[Peer(Peer(e))] :
            Good(written[Peer(e)], laneStream[Peer(e)], unreliable,
                 pending[Peer(Peer(e))][k].lane, k, pending[Peer(Peer(e))][k].frame)
      BY <1>1, <1>2 DEF TransitInv
    <3> QED BY <1>2, <3>1 DEF Good, Stands
  <2>4. CASE draining[e]
    BY <1>2, <1>3, <1>4, <2>1, <2>2, <2>3, <2>4
  <2>5. CASE ~draining[e]
    BY <1>2, <1>3, <1>4, <2>1, <2>2, <2>3, <2>5
  <2> QED BY <2>4, <2>5
<1>7. /\ finished[e] \subseteq DOMAIN laneStream[e]
      /\ \A lane \in DOMAIN laneStream[e] : laneStream[e][lane] \in Streams
      /\ draining[e] => nextIn[e] \in DOMAIN pending[e]
  BY <1>1, <1>3, LaneMapFacts DEF LaneInv, ReaderInv
<1> QED BY <1>5, <1>6, <1>7

\* Ordinals stay within the number of frames written, only later ones wait
\* behind a gap, and a lane that was finished is one this end knows.
THEOREM TypeCorrect == Spec => []TypeOK
<1> QED BY Invariant, InvariantTypes, PTL

LEMMA InvariantAccepts ==
  IInv => FramesArriveOnTheirLane
<1> SUFFICES ASSUME IInv, NEW e \in Endpoints, IsOpen(e)
             PROVE  /\ nextIn[e] \in DOMAIN pending[e] =>
                         Owns(e, pending[e][nextIn[e]].lane, pending[e][nextIn[e]].frame)
                    /\ \A r \in air[Peer(e)] : r.ordinal = nextIn[e] => Owns(e, Datagram(Peer(e)), r.frame)
                    /\ \A lane \in Lanes : \A i \in DOMAIN wire[Peer(e)][lane] :
                         wire[Peer(e)][lane][i].ordinal = nextIn[e] =>
                           Owns(e, lane, wire[Peer(e)][lane][i].frame)
  BY DEF FramesArriveOnTheirLane
<1>1. /\ Types /\ TransitInv /\ Peer(e) \in Endpoints /\ Peer(Peer(e)) = e
      /\ Datagram(Peer(e)) \in AllLanes /\ Lanes \subseteq AllLanes
  BY PeerFacts, LaneFacts DEF IInv
<1>2. ASSUME nextIn[e] \in DOMAIN pending[e]
      PROVE  Owns(e, pending[e][nextIn[e]].lane, pending[e][nextIn[e]].frame)
  <2> DEFINE r == pending[e][nextIn[e]]
  <2>1. pending[e] \in PendingMaps
    BY <1>1 DEF Types
  <2>2. r.lane \in AllLanes
    BY <1>2, <2>1, PendingMapFacts DEF HeldRecords
  <2>3. \A o \in DOMAIN pending[Peer(Peer(e))] :
          Good(written[Peer(e)], laneStream[Peer(e)], unreliable,
               pending[Peer(Peer(e))][o].lane, o, pending[Peer(Peer(e))][o].frame)
    BY <1>1 DEF TransitInv
  <2>4. Good(written[Peer(e)], laneStream[Peer(e)], unreliable, r.lane, nextIn[e], r.frame)
    BY <1>1, <1>2, <2>3
  <2> HIDE DEF r
  <2>5. Owns(e, r.lane, r.frame)
    BY <2>2, <2>4, OwnsInOrder
  <2> QED BY <2>5 DEF r
<1>3. ASSUME NEW r \in air[Peer(e)], r.ordinal = nextIn[e]
      PROVE  Owns(e, Datagram(Peer(e)), r.frame)
  <2>1. Good(written[Peer(e)], laneStream[Peer(e)], unreliable, Datagram(Peer(e)), r.ordinal, r.frame)
    BY <1>1 DEF TransitInv
  <2>2. Good(written[Peer(e)], laneStream[Peer(e)], unreliable, Datagram(Peer(e)), nextIn[e], r.frame)
    BY <1>3, <2>1
  <2> QED BY <1>1, <2>2, OwnsInOrder
<1>4. ASSUME NEW lane \in Lanes, NEW i \in DOMAIN wire[Peer(e)][lane],
             wire[Peer(e)][lane][i].ordinal = nextIn[e]
      PROVE  Owns(e, lane, wire[Peer(e)][lane][i].frame)
  <2> DEFINE r == wire[Peer(e)][lane][i]
  <2>1. wire[Peer(e)][lane] \in Seq(Records)
    BY <1>1 DEF Types
  <2>2. i \in 1..Len(wire[Peer(e)][lane])
    BY <2>1
  <2>3. Good(written[Peer(e)], laneStream[Peer(e)], unreliable, lane, r.ordinal, r.frame)
    BY <1>1, <2>2 DEF TransitInv
  <2>4. r.ordinal = nextIn[e]
    BY <1>4
  <2> HIDE DEF r
  <2>5. Good(written[Peer(e)], laneStream[Peer(e)], unreliable, lane, nextIn[e], r.frame)
    BY <2>3, <2>4
  <2>6. Owns(e, lane, r.frame)
    BY <1>1, <2>5, OwnsInOrder
  <2> QED BY <2>6 DEF r
<1> QED BY <1>2, <1>3, <1>4

\* A peer that follows the protocol is never taken for a faulty one: the lane a
\* frame was routed to is one validateInboundLane lets it arrive on.
THEOREM CorrectPeersAreAccepted == Spec => []FramesArriveOnTheirLane
<1> QED BY Invariant, InvariantAccepts, PTL

LEMMA InvariantMapsWritable ==
  IInv => MappedLaneIsWritable
BY DEF IInv, LaneInv, MappedLaneIsWritable

\* releaseInteraction never leaves behind an entry whose writer it has told to
\* finish: what is written next finds a lane that can take it.
THEOREM MappedLanesTakeFrames == Spec => []MappedLaneIsWritable
<1> QED BY Invariant, InvariantMapsWritable, PTL

LEMMA InvariantReleases ==
  IInv => LanesAreReleased
<1> SUFFICES ASSUME IInv, ~resumed, NEW s \in Streams, NEW e \in Endpoints, IsOpen(e), Over(e, s)
             PROVE  /\ interactions[e][s] = NoInteraction
                    /\ \A lane \in DOMAIN laneStream[e] : laneStream[e][lane] = s => lane \in finished[e]
  BY DEF LanesAreReleased, Releases
<1>1. Types /\ KeptInv /\ OneLaneInv /\ ~IsClosing(e)
  BY DEF IInv, LifeInv, IsOpen, IsClosing
<1>2. Finished(written[e], delivered[e], s)
  BY <1>1, BegunAndOver
<1>3. interactions[e][s] = NoInteraction
  BY <1>1, <1>2 DEF KeptInv, Kept
<1> QED BY <1>1, <1>3 DEF OneLaneInv

\* trackInteractionLifecycle on one transport: an interaction that is over leaves
\* no entry behind and no stream half open, however its last frames cross.
THEOREM FinishedLanesAreReleased == Spec => []LanesAreReleased
<1> QED BY Invariant, InvariantReleases, PTL

(***************************************************************************)
(* The order of the frames: a session implements LossyFifo, both ways.     *)
(***************************************************************************)
\* A step writes one frame, hands over one frame, or does neither.
LEMMA EmitsOne ==
  ASSUME NEW e \in Endpoints, NEW lane, NEW f, Emit(e, lane, f)
  PROVE  delivered' = delivered \/ delivered' = [delivered EXCEPT ![e] = Append(@, f)]
BY DEF Emit

LEMMA AcceptsOne ==
  ASSUME NEW e \in Endpoints, NEW lane, NEW r, Accept(e, lane, r)
  PROVE  delivered' = delivered \/ delivered' = [delivered EXCEPT ![e] = Append(@, r.frame)]
<1>1. \/ UNCHANGED delivered \/ Emit(e, lane, r.frame)
  BY DEF Accept
<1> QED BY <1>1, EmitsOne

LEMMA HistoriesGrow ==
  ASSUME Next
  PROVE  \/ /\ written' = written
            /\ \/ delivered' = delivered
               \/ \E e \in Endpoints : \E f : delivered' = [delivered EXCEPT ![e] = Append(@, f)]
         \/ /\ delivered' = delivered
            /\ \E e \in Endpoints, f \in Frames : written' = [written EXCEPT ![e] = Append(@, f)]
<1>1. PICK e \in Endpoints : Progress(e) \/ Close(e) \/ WriteFrame(e) \/ ReadDatagram(e)
  BY DEF Next
<1>2. CASE WriteFrame(e)
  <2>1. delivered' = delivered /\ \E f \in Frames : written' = [written EXCEPT ![e] = Append(@, f)]
    BY <1>2 DEF WriteFrame
  <2> QED BY <2>1
<1>3. CASE \E lane \in Lanes : ReadLane(e, lane)
  <2>1. PICK lane \in Lanes : ReadLane(e, lane)
    BY <1>3
  <2>2. Accept(e, lane, Head(wire[Peer(e)][lane])) /\ written' = written
    BY <2>1 DEF ReadLane, unread
  <2> QED BY <2>2, AcceptsOne
<1>4. CASE ReadDatagram(e)
  <2>1. PICK p \in air[Peer(e)] : Accept(e, Datagram(Peer(e)), p)
    BY <1>4 DEF ReadDatagram
  <2>2. written' = written
    BY <1>4 DEF ReadDatagram, unread
  <2> QED BY <2>1, <2>2, AcceptsOne
<1>5. CASE Drain(e)
  <2>1. /\ Emit(e, pending[e][nextIn[e]].lane, pending[e][nextIn[e]].frame)
        /\ written' = written
    BY <1>5 DEF Drain, unread
  <2> QED BY <2>1, EmitsOne
<1>6. CASE SessionReady(e) \/ Subscribe(e) \/ ControlStreamCreated \/ AcceptControl
  BY <1>6 DEF SessionReady, Subscribe, ControlStreamCreated, AcceptControl, traffic
<1>7. CASE SubmitDatagram(e) \/ DatagramLaneFails(e)
  BY <1>7 DEF SubmitDatagram, DatagramLaneFails, aside
<1>8. CASE Close(e)
  BY <1>8 DEF Close
<1> QED BY <1>1, <1>2, <1>3, <1>4, <1>5, <1>6, <1>7, <1>8 DEF Progress

\* One direction of it: w writes, its peer is given the frames.
LEMMA OneDirection ==
  ASSUME IInv, IInv', Next, NEW w \in Endpoints
  PROVE  \/ written'[w] = written[w] /\ delivered'[Peer(w)] = delivered[Peer(w)]
         \/ /\ Len(written'[w]) = Len(written[w]) + 1
            /\ SubSeq(written'[w], 1, Len(written[w])) = written[w]
            /\ delivered'[Peer(w)] = delivered[Peer(w)]
         \/ /\ Len(delivered[Peer(w)]) < Len(written[w])
            /\ LET f == written[w][Len(delivered[Peer(w)]) + 1]
               IN delivered'[Peer(w)] \in {Append(delivered[Peer(w)], f), Append(delivered[Peer(w)], Skip(f))}
            /\ written'[w] = written[w]
<1> DEFINE r == Peer(w)
<1>1. /\ r \in Endpoints /\ Peer(r) = w
      /\ written \in [Endpoints -> Seq(Frames)] /\ delivered \in [Endpoints -> Seq(AnyFrame)]
      /\ delivered' \in [Endpoints -> Seq(AnyFrame)]
  BY PeerFacts DEF IInv, Types
<1>2. \A i \in 1..Len(delivered'[r]) : Stands(written'[w], i - 1, delivered'[r][i])
  <2>1. \A i \in 1..Len(delivered'[r]) : Stands(written'[Peer(r)], i - 1, delivered'[r][i])
    BY <1>1 DEF IInv, ReaderInv
  <2> QED BY <1>1, <2>1
<1> HIDE DEF r
<1>3. CASE delivered' = delivered /\ \E e \in Endpoints, f \in Frames : written' = [written EXCEPT ![e] = Append(@, f)]
  <2>1. PICK e \in Endpoints, f \in Frames : written' = [written EXCEPT ![e] = Append(@, f)]
    BY <1>3
  <2>2. CASE e = w
    <3>1. written'[w] = Append(written[w], f) /\ written[w] \in Seq(Frames)
      BY <1>1, <2>1, <2>2
    <3>2. /\ Len(Append(written[w], f)) = Len(written[w]) + 1
          /\ SubSeq(Append(written[w], f), 1, Len(written[w])) = written[w]
      BY <3>1, AppendProperties
    <3> QED BY <1>3, <3>1, <3>2 DEF r
  <2>3. CASE e # w
    BY <1>1, <1>3, <2>1, <2>3 DEF r
  <2> QED BY <2>2, <2>3
<1>4. CASE written' = written /\ delivered' = delivered
  BY <1>4
<1>5. CASE written' = written /\ \E e \in Endpoints : \E f : delivered' = [delivered EXCEPT ![e] = Append(@, f)]
  <2>1. PICK e \in Endpoints : \E f : delivered' = [delivered EXCEPT ![e] = Append(@, f)]
    BY <1>5
  <2>2. PICK f : delivered' = [delivered EXCEPT ![e] = Append(@, f)]
    BY <2>1
  <2>3. CASE e = r
    <3> DEFINE n == Len(delivered[r])
               new == Append(delivered[r], f)
    <3>1. delivered'[r] = new /\ delivered[r] \in Seq(AnyFrame) /\ n \in Nat
      BY <1>1, <2>2, <2>3, LenProperties
    <3>2. Len(new) = n + 1 /\ new[n + 1] = f
      BY <3>1
    <3> HIDE DEF new, n
    <3>3. n + 1 \in 1..Len(delivered'[r]) /\ (n + 1) - 1 = n
      BY <3>1, <3>2
    <3>4. Stands(written'[w], n, f)
      BY <1>2, <3>1, <3>2, <3>3
    <3>5. n < Len(written[w]) /\ f \in {written[w][n + 1], Skip(written[w][n + 1])}
      BY <1>5, <3>4 DEF Stands
    <3> QED BY <1>5, <3>1, <3>5 DEF new, n, r
  <2>4. CASE e # r
    BY <1>1, <1>5, <2>2, <2>4 DEF r
  <2> QED BY <2>3, <2>4
<1> QED BY <1>3, <1>4, <1>5, HistoriesGrow

\* Streams and datagrams deliver in any order and datagrams may be lost, yet the
\* subscriber of either end is given every frame once, in the order of the writes:
\* what the ordered receiver is for.
THEOREM OrderIsRestored == Spec => GlobalOrder
<1>1. Init => Forward!Init /\ Backward!Init
  BY DEF Init, Endpoints, Forward!Init, Backward!Init
<1>2. IInv /\ IInv' /\ [Next]_vars =>
        /\ [Forward!Next]_<<written["requester"], delivered["responder"]>>
        /\ [Backward!Next]_<<written["responder"], delivered["requester"]>>
  <2>1. ASSUME IInv, IInv', Next
        PROVE  /\ Forward!Next \/ UNCHANGED <<written["requester"], delivered["responder"]>>
               /\ Backward!Next \/ UNCHANGED <<written["responder"], delivered["requester"]>>
    <3>1. /\ "requester" \in Endpoints /\ Peer("requester") = "responder"
          /\ "responder" \in Endpoints /\ Peer("responder") = "requester"
      BY DEF Endpoints, Peer
    <3>2. Forward!Next \/ UNCHANGED <<written["requester"], delivered["responder"]>>
      BY <2>1, <3>1, OneDirection DEF Forward!Next, Forward!Write, Forward!Deliver
    <3>3. Backward!Next \/ UNCHANGED <<written["responder"], delivered["requester"]>>
      BY <2>1, <3>1, OneDirection DEF Backward!Next, Backward!Write, Backward!Deliver
    <3> QED BY <3>2, <3>3
  <2>2. UNCHANGED vars => /\ UNCHANGED <<written["requester"], delivered["responder"]>>
                          /\ UNCHANGED <<written["responder"], delivered["requester"]>>
    BY DEF vars
  <2> QED BY <2>1, <2>2
<1> QED BY <1>1, <1>2, Invariant, PTL DEF Spec, GlobalOrder, Forward!Spec, Backward!Spec
===============================================================================
