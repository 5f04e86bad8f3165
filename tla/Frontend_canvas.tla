--------------------------- MODULE Frontend_canvas ---------------------------
(***************************************************************************)
(* The proof that the canvas agrees: when every change has succeeded and   *)
(* the answer is there, the canvas draws what the API holds.               *)
(*                                                                         *)
(* The property speaks of a canvas at rest.  What holds at every moment,   *)
(* unless something has failed, is that each edge that differs from the    *)
(* answer it is drawn over is accounted for by one request of the canvas:  *)
(* the last one about its pair, which is still on its way, or was carried  *)
(* out and has made the answer stale, so that the next one will differ.    *)
(* A card out of place is accounted for by the last move of it.            *)
(***************************************************************************)
EXTENDS Frontend_truth

Window(b) == <<"viewport", b>>

Drawn(e) == IF e.data = NoData THEN {} ELSE e.data

\* Something has gone wrong with q, or may have overtaken something.
Stuck(q) == q.gap \/ q.step \in {"linked", "refused", "lost", "failed"}

Hopeless(rs) == \E r \in DOMAIN rs : Stuck(rs[r])

\* q of the canvas links or unlinks the pair l.
Joins(q, l) == /\ q.by = "canvas" /\ q.op \in {"link", "unlink"}
               /\ {q.node, q.other} = l

Moves(q, i) == q.op = "move" /\ q.node = i

Deletes(q, i) == q.op = "delete" /\ q.node = i /\ q.step = "ok"

\* InPanel of the requests rs.
Behind(rs, l) ==
    \E r \in DOMAIN rs : /\ rs[r].op \in {"link", "unlink"} /\ rs[r].by # "canvas"
                         /\ {rs[r].node, rs[r].other} = l

\* The next answer is another one.
Outrun(e) == e.stale /\ (e.wire \in {Idle, Asked} \/ e.wire # e.data)

\* R and L are the nodes and links, E the edges: l is linked if and only if it
\* is drawn, or an end of it is gone.
Decided(l, R, L, E) == (\A i \in l : Exists(R, i)) => (l \in L <=> l \in E)

JoinedBy(r, l, rs, e, R, L, E) ==
    /\ Joins(rs[r], l)
    /\ rs[r].op = "link" <=> l \in E
    /\ \A o \in DOMAIN rs \ {r} : Joins(rs[o], l) => rs[o].step = "done"
    /\ rs[r].step \in {"sent", "ok", "done"}
    /\ rs[r].step # "sent" => Decided(l, R, L, E)
    /\ rs[r].step = "done" => Outrun(e)

EdgesAgree(rs, e, R, L, E) ==
    \A l \in Pairs :
        l \subseteq Ids(Drawn(e)) /\ ~Behind(rs, l)
            => \/ l \in E <=> l \in Edges(Drawn(e))
               \/ \E r \in DOMAIN rs : JoinedBy(r, l, rs, e, R, L, E)

MovedBy(r, i, rs, R, place) ==
    /\ Moves(rs[r], i)
    /\ rs[r].value.place = place
    /\ \A o \in DOMAIN rs \ {r} : Moves(rs[o], i) => rs[o].step = "done"
    /\ rs[r].step \in {"sent", "ok", "done"}
    /\ rs[r].step # "sent" /\ Exists(R, i) => R[i].place = place

\* C are the cards that are not under the mouse.
CardsAgree(rs, e, R, C) ==
    \A i \in DOMAIN C \cap Ids(Drawn(e)) :
        \/ C[i] = Incoming(Drawn(e))[i]
        \/ \E r \in DOMAIN rs : MovedBy(r, i, rs, R, C[i])

\* The nodes are there, or are known to go.
There(S, rs, R) == \A i \in Ids(S) : Exists(R, i) \/ \E r \in DOMAIN rs : Deletes(rs[r], i)

EntryThere(e, rs, R) ==
    /\ ~e.stale => There(Drawn(e), rs, R)
    /\ Coming(e) => There(e.wire, rs, R)

NodesThere(rs, c, R) == \A b \in DOMAIN Area : EntryThere(c[Window(b)], rs, R)

Resting == [i \in DOMAIN cards \ dragging |-> cards[i]]

Agrees == /\ EdgesAgree(requests, cache[Window(bounds)], rows, links, edges)
          /\ CardsAgree(requests, cache[Window(bounds)], rows, Resting)
          /\ NodesThere(requests, cache, rows)

\* One card is dragged at a time, and the canvas is there to be answered.
CanvasAlone == Window(bounds) \in observed /\ \A i, j \in dragging : i = j

AgreeInv == page = "workspace" => CanvasAlone /\ (Hopeless(requests) \/ Agrees)

-----------------------------------------------------------------------------
(* What becomes of the answers                                             *)

\* The data are the same; the entry grows stale, or its fetch is aborted or
\* started anew.
Lag(e, f) == f.data = e.data /\ (e.stale => f.stale) /\ f.wire \in {e.wire, Idle, Asked}

Lags(c, d) == \A b \in DOMAIN Area : Lag(c[Window(b)], d[Window(b)])

\* The answer is there, or was and is fetched anew.
Arrived(e, f) == Coming(e) /\ f.data = e.wire /\ f.wire \in {Idle, Asked}

Turn(e, f) == Lag(e, f) \/ Arrived(e, f)

Turns(c, d) == \A b \in DOMAIN Area : Turn(c[Window(b)], d[Window(b)])

\* What was fetched before is stale, and fetched anew or not at all.
Told(f) == (f.data = NoData \/ f.stale) /\ f.wire \in {Idle, Asked}

LEMMA LagOn ==
    ASSUME NEW e, NEW f, NEW g, Lag(f, g)
    PROVE  /\ Lag(e, f) => Lag(e, g)
           /\ Arrived(e, f) => Arrived(e, g)
           /\ Told(f) => Told(g)
  BY DEF Lag, Arrived, Told

LEMMA LagsOn ==
    ASSUME NEW c, NEW d, NEW e, Lags(d, e)
    PROVE  /\ Lags(c, d) => Lags(c, e)
           /\ Turns(c, d) => Turns(c, e)
  BY LagOn DEF Lags, Turns, Turn

LEMMA LagsSelf == \A c : Lags(c, c) /\ Turns(c, c)
  BY DEF Lags, Lag, Turns, Turn

LEMMA LagsTurn ==
    ASSUME NEW c, NEW d, Lags(c, d)
    PROVE  Turns(c, d)
  BY DEF Lags, Turns, Turn

LEMMA WindowKey ==
    /\ \A b \in DOMAIN Area : Window(b) \in Keys /\ Window(b)[1] = "viewport"
    /\ \A b \in DOMAIN Area : \A i : Window(b) # <<"node", i>> /\ Window(b) # <<"content", i>>
<1>1. \A b \in DOMAIN Area : Window(b) \in Keys /\ Window(b)[1] = "viewport"
  BY KeyIn DEF Window
<1>2. ASSUME NEW b \in DOMAIN Area, NEW i
      PROVE  Window(b) # <<"node", i>> /\ Window(b) # <<"content", i>>
  <2>1. Window(b)[1] = "viewport" /\ <<"node", i>>[1] = "node" /\ <<"content", i>>[1] = "content"
    BY DEF Window
  <2> QED
    BY <2>1
<1> QED
  BY <1>1, <1>2

LEMMA EntryLags ==
    ASSUME NEW k, NEW B, NEW e \in Entry(k, B)
    PROVE  /\ Lag(e, e)
           /\ Lag(e, [e EXCEPT !.wire = Idle])
           /\ Lag(e, Fetch(e))
           /\ Lag(e, [Fetch(e) EXCEPT !.stale = TRUE])
           /\ Lag(e, [e EXCEPT !.stale = TRUE])
           /\ Lag(e, [e EXCEPT !.error = "failed", !.stale = TRUE, !.wire = Idle])
           /\ Lag(e, [e EXCEPT !.error = "missing", !.stale = TRUE, !.wire = Idle])
<1> USE DEF Lag, Entry
<1>1. Lag(e, e) /\ Lag(e, [e EXCEPT !.wire = Idle])
  OBVIOUS
<1>2. Lag(e, Fetch(e))
  BY DEF Fetch
<1>3. Lag(e, [Fetch(e) EXCEPT !.stale = TRUE])
  BY DEF Fetch
<1>4. Lag(e, [e EXCEPT !.stale = TRUE])
  OBVIOUS
<1>5. Lag(e, [e EXCEPT !.error = "failed", !.stale = TRUE, !.wire = Idle])
  OBVIOUS
<1>6. Lag(e, [e EXCEPT !.error = "missing", !.stale = TRUE, !.wire = Idle])
  OBVIOUS
<1> QED
  BY <1>1, <1>2, <1>3, <1>4, <1>5, <1>6

\* Whatever happens to the cache but an answer, the windows lag behind.
LEMMA CacheLags ==
    ASSUME NEW B, NEW c, IsCache(c, B), NEW keys, NEW obs, NEW old, NEW new, NEW j
    PROVE  /\ Lags(c, Sync(old, new, c))
           /\ Lags(c, Invalidate(c, keys, obs))
           /\ Lags(c, Unanswered(c, j))
           /\ Lags(c, Aged(c, keys))
           /\ Lags(c, Refocused(c))
           /\ \A i : Lags(c, Removed(c, {<<"node", i>>, <<"content", i>>}))
<1>1. SUFFICES ASSUME NEW k \in Keys, \A i : k # <<"node", i>> /\ k # <<"content", i>>
               PROVE  /\ Lag(c[k], Sync(old, new, c)[k])
                      /\ Lag(c[k], Invalidate(c, keys, obs)[k])
                      /\ Lag(c[k], Unanswered(c, j)[k])
                      /\ Lag(c[k], Aged(c, keys)[k])
                      /\ Lag(c[k], Refocused(c)[k])
                      /\ \A i : Lag(c[k], Removed(c, {<<"node", i>>, <<"content", i>>})[k])
  BY WindowKey DEF Lags
<1>2. /\ Lag(c[k], c[k])
      /\ Lag(c[k], [c[k] EXCEPT !.wire = Idle])
      /\ Lag(c[k], Fetch(c[k]))
      /\ Lag(c[k], [Fetch(c[k]) EXCEPT !.stale = TRUE])
      /\ Lag(c[k], [c[k] EXCEPT !.stale = TRUE])
      /\ Lag(c[k], [c[k] EXCEPT !.error = "failed", !.stale = TRUE, !.wire = Idle])
  BY EntryLags DEF IsCache
<1>3. Lag(c[k], Sync(old, new, c)[k])
  <2>1. Sync(old, new, c)[k] =
          IF k \in new \ old /\ ~Fetching(c, k) /\ (c[k].data = NoData \/ c[k].stale)
          THEN Fetch(c[k])
          ELSE IF k \in old \ new THEN [c[k] EXCEPT !.wire = Idle]
          ELSE c[k]
    BY DEF Sync
  <2> QED
    BY <1>2, <2>1
<1>4. Lag(c[k], Invalidate(c, keys, obs)[k])
  <2>1. Invalidate(c, keys, obs)[k] \in
          {c[k], [Fetch(c[k]) EXCEPT !.stale = TRUE], [c[k] EXCEPT !.stale = TRUE]}
    BY DEF Invalidate
  <2> QED
    BY <1>2, <2>1
<1>5. Lag(c[k], Unanswered(c, j)[k])
  <2>1. c = [i \in Keys |-> c[i]]
    BY DEF IsCache
  <2>2. Unanswered(c, j)[k] =
          IF k = j THEN [c[k] EXCEPT !.error = "failed", !.stale = TRUE, !.wire = Idle] ELSE c[k]
    BY <2>1 DEF Unanswered
  <2> QED
    BY <1>2, <2>2
<1>6. Lag(c[k], Aged(c, keys)[k])
  BY <1>2 DEF Aged
<1>7. Lag(c[k], Refocused(c)[k])
  <2>1. Refocused(c)[k] =
          IF k \in observed /\ ~Fetching(c, k) /\ (c[k].stale \/ c[k].data = NoData)
          THEN Fetch(c[k]) ELSE c[k]
    BY DEF Refocused
  <2> QED
    BY <1>2, <2>1
<1>8. ASSUME NEW i PROVE Lag(c[k], Removed(c, {<<"node", i>>, <<"content", i>>})[k])
  <2>1. Removed(c, {<<"node", i>>, <<"content", i>>})[k] = c[k]
    BY <1>1 DEF Removed
  <2> QED
    BY <1>2, <2>1
<1> QED
  BY <1>3, <1>4, <1>5, <1>6, <1>7, <1>8

\* An answer that arrives.
LEMMA ReceivedTurns ==
    ASSUME NEW B, NEW c, IsCache(c, B), NEW k \in Keys, c[k].wire \notin {Idle, Asked}
    PROVE  Turns(c, Received(c, k))
<1> DEFINE d == Received(c, k)
<1>1. c = [j \in Keys |-> c[j]] /\ c[k] \in Entry(k, B)
  BY DEF IsCache
<1>2. \A j \in Keys \ {k} : d[j] = c[j]
  BY <1>1 DEF Received
<1>3. d[k] = IF c[k].wire = Missing
             THEN [c[k] EXCEPT !.error = "missing", !.stale = TRUE, !.wire = Idle]
             ELSE [data |-> c[k].wire, error |-> "no", stale |-> FALSE, wire |-> Idle]
  BY <1>1 DEF Received
<1> HIDE DEF d
<1>4. Turn(c[k], d[k])
  <2>1. CASE c[k].wire = Missing
    <3>1. d[k] = [c[k] EXCEPT !.error = "missing", !.stale = TRUE, !.wire = Idle]
      BY <1>3, <2>1
    <3>2. Lag(c[k], [c[k] EXCEPT !.error = "missing", !.stale = TRUE, !.wire = Idle])
      BY <1>1, EntryLags
    <3>3. Lag(c[k], d[k])
      BY <3>1, <3>2
    <3> QED
      BY <3>3 DEF Turn
  <2>2. CASE c[k].wire # Missing
    BY <1>3, <2>2 DEF Turn, Arrived, Coming
  <2> QED
    BY <2>1, <2>2
<1>5. \A j \in Keys : Turn(c[j], d[j])
  BY <1>2, <1>4 DEF Turn, Lag
<1> QED
  BY <1>5, WindowKey DEF Turns, d

-----------------------------------------------------------------------------
(* What becomes of the requests                                            *)

\* q draws: the canvas shows what it asks for already.
Draws(q) == q.op = "move" \/ (q.by = "canvas" /\ q.op \in {"link", "unlink"})

\* Those that were sent get no further, and none that draws is sent.
Onward(rs, ts) ==
    /\ DOMAIN rs \subseteq DOMAIN ts
    /\ \A r \in DOMAIN rs : Kin(rs[r], ts[r]) /\ ts[r].step = rs[r].step /\ ts[r].gap = rs[r].gap
    /\ \A r \in DOMAIN ts \ DOMAIN rs : ~Draws(ts[r])

\* q gets no further, or its success is told in cache d.
Advance(q, p, d) ==
    /\ Kin(q, p)
    /\ \/ p.step = q.step
       \/ /\ q.step = "ok" /\ p.step = "done"
          /\ q.op \in {"link", "unlink", "delete"} => \A b \in DOMAIN Area : Told(d[Window(b)])

Advances(rs, ts, d) == DOMAIN rs \subseteq DOMAIN ts
                       /\ \A r \in DOMAIN rs : Advance(rs[r], ts[r], d)

NoneDraws(rs, ts) == \A r \in DOMAIN ts \ DOMAIN rs : ~Draws(ts[r])

LEMMA OnwardSelf == \A rs : Onward(rs, rs)
  BY DEF Onward, Kin

LEMMA OnwardOn ==
    ASSUME NEW rs, NEW ts, NEW us, Onward(rs, ts), Onward(ts, us)
    PROVE  Onward(rs, us)
<1>1. ASSUME NEW r \in DOMAIN us \ DOMAIN rs PROVE ~Draws(us[r])
  <2>1. CASE r \in DOMAIN ts
    BY <2>1 DEF Onward, Kin, Draws
  <2>2. CASE r \notin DOMAIN ts
    BY <2>2 DEF Onward
  <2> QED
    BY <2>1, <2>2
<1> QED
  BY <1>1 DEF Onward, Kin

LEMMA OnwardHopeless ==
    ASSUME NEW rs, NEW ts, Onward(rs, ts), Hopeless(rs)
    PROVE  Hopeless(ts)
  BY DEF Onward, Hopeless, Stuck

LEMMA OnwardAdvances ==
    ASSUME NEW rs, NEW ts, Onward(rs, ts), NEW d
    PROVE  Advances(rs, ts, d) /\ NoneDraws(rs, ts)
  BY DEF Onward, Advances, Advance, NoneDraws

LEMMA AdvancesOn ==
    ASSUME NEW rs, NEW ts, NEW us, NEW d, Advances(rs, ts, d), NoneDraws(rs, ts), Onward(ts, us)
    PROVE  Advances(rs, us, d) /\ NoneDraws(rs, us)
<1>1. ASSUME NEW r \in DOMAIN rs PROVE Advance(rs[r], us[r], d)
  <2>1. /\ Advance(rs[r], ts[r], d) /\ r \in DOMAIN ts
        /\ Kin(ts[r], us[r]) /\ us[r].step = ts[r].step
    BY DEF Advances, Onward
  <2> QED
    BY <2>1 DEF Advance, Kin
<1>2. ASSUME NEW r \in DOMAIN us \ DOMAIN rs PROVE ~Draws(us[r])
  <2>1. CASE r \in DOMAIN ts
    BY <2>1 DEF Onward, Kin, Draws, NoneDraws
  <2>2. CASE r \notin DOMAIN ts
    BY <2>2 DEF Onward
  <2> QED
    BY <2>1, <2>2
<1> QED
  BY <1>1, <1>2 DEF Advances, Onward, NoneDraws

LEMMA FollowsOnward ==
    ASSUME NEW rs, NEW ts, Follows(rs, ts), DOMAIN ts = DOMAIN rs,
           \A r \in DOMAIN rs : ts[r].step = rs[r].step /\ ts[r].gap = rs[r].gap
    PROVE  Onward(rs, ts)
  BY DEF Follows, Onward

LEMMA ForgetOnward ==
    ASSUME NEW rs \in Seq(RequestSet), NEW dialog
    PROVE  Onward(rs, Forget(rs, dialog)) /\ Forget(rs, dialog) \in Seq(RequestSet)
<1>1. PICK ts : ts = Forget(rs, dialog)
  OBVIOUS
<1>2. /\ Follows(rs, ts) /\ DOMAIN ts = DOMAIN rs
      /\ \A r \in DOMAIN rs : ts[r].step = rs[r].step /\ ts[r].gap = rs[r].gap
  BY <1>1, ForgetType
<1>3. Onward(rs, ts)
  BY <1>2, FollowsOnward
<1> QED
  BY <1>1, <1>2, <1>3 DEF Follows

LEMMA ReboundOnward ==
    ASSUME NEW rs \in Seq(RequestSet), NEW s \in 0..MaxId, NEW c, NEW p
    PROVE  Onward(rs, Rebound(rs, s, c, p))
<1>1. PICK ts : ts = Rebound(rs, s, c, p)
  OBVIOUS
<1>2. /\ Follows(rs, ts) /\ DOMAIN ts = DOMAIN rs
      /\ \A r \in DOMAIN rs : ts[r].step = rs[r].step /\ ts[r].gap = rs[r].gap
  BY <1>1, ReboundType
<1>3. Onward(rs, ts)
  BY <1>2, FollowsOnward
<1> QED
  BY <1>1, <1>3

LEMMA AppendOnward ==
    ASSUME NEW rs \in Seq(RequestSet), NEW q, ~Draws(q)
    PROVE  Onward(rs, Append(rs, q))
<1>1. /\ DOMAIN Append(rs, q) = DOMAIN rs \cup {Len(rs) + 1}
      /\ \A r \in DOMAIN rs : Append(rs, q)[r] = rs[r]
      /\ Append(rs, q)[Len(rs) + 1] = q
  BY SentInSeq
<1> QED
  BY <1>1 DEF Onward, Kin

LEMMA SendOnward ==
    ASSUME FrontendInv, NEW q, Send(q), ~Draws(q)
    PROVE  Onward(requests, requests')
<1>1. PICK rs : rs = requests
  OBVIOUS
<1>2. rs \in Seq(RequestSet) /\ requests' = Append(rs, q)
  BY <1>1, PanelKeeps DEF AllSound, Send
<1>3. Onward(rs, Append(rs, q))
  BY <1>2, AppendOnward
<1> QED
  BY <1>1, <1>2, <1>3

-----------------------------------------------------------------------------
(* What is accounted for stays so                                          *)

\* The account of edge l while the answer that is drawn is the same.
LEMMA JoinedOn ==
    ASSUME NEW rs, NEW ts, NEW d, Advances(rs, ts, d), NEW l,
           \A o \in DOMAIN ts \ DOMAIN rs : ~Joins(ts[o], l),
           NEW b \in DOMAIN Area, NEW e, NEW f, f = d[Window(b)], Turn(e, f),
           f.data = e.data, e.data # NoData,
           NEW R, NEW L, NEW E, NEW F, l \in F <=> l \in E,
           NEW r \in DOMAIN rs, JoinedBy(r, l, rs, e, R, L, E)
    PROVE  r \in DOMAIN ts /\ JoinedBy(r, l, ts, f, R, L, F)
<1>1. r \in DOMAIN ts /\ Advance(rs[r], ts[r], d)
  BY DEF Advances
<1>2. Joins(rs[r], l) /\ Joins(ts[r], l) /\ ts[r].op = rs[r].op
  BY <1>1 DEF Advance, Kin, Joins, JoinedBy
<1>3. ASSUME NEW o \in DOMAIN ts \ {r}, Joins(ts[o], l) PROVE ts[o].step = "done"
  <2>1. o \in DOMAIN rs
    BY <1>3
  <2>2. Advance(rs[o], ts[o], d)
    BY <2>1 DEF Advances
  <2>3. Joins(rs[o], l)
    BY <1>3, <2>2 DEF Advance, Kin, Joins
  <2>4. rs[o].step = "done"
    BY <1>3, <2>1, <2>3 DEF JoinedBy
  <2> QED
    BY <2>2, <2>4 DEF Advance
<1>4. ts[r].step \in {"sent", "ok", "done"} /\ (ts[r].step # "sent" => rs[r].step # "sent")
  BY <1>1 DEF Advance, JoinedBy
<1>5. ts[r].step # "sent" => Decided(l, R, L, F)
  BY <1>4 DEF JoinedBy, Decided
<1>6. ASSUME ts[r].step = "done" PROVE Outrun(f)
  <2>1. CASE rs[r].step = "done"
    <3>1. Outrun(e)
      BY <2>1 DEF JoinedBy
    <3> QED
      BY <3>1 DEF Outrun, Turn, Lag, Arrived, Coming
  <2>2. CASE rs[r].step # "done"
    <3>1. Told(f)
      BY <1>1, <1>2, <1>6, <2>2 DEF Advance, Joins
    <3> QED
      BY <3>1 DEF Told, Outrun
  <2> QED
    BY <2>1, <2>2
<1>7. ts[r].op = "link" <=> l \in F
  BY <1>2 DEF JoinedBy
<1> QED
  BY <1>1, <1>2, <1>3, <1>4, <1>5, <1>6, <1>7 DEF JoinedBy

\* The account of the place of card i.
LEMMA MovedOn ==
    ASSUME NEW rs, NEW ts, NEW d, Advances(rs, ts, d), NEW i,
           \A o \in DOMAIN ts \ DOMAIN rs : ~Moves(ts[o], i),
           NEW R, NEW place, NEW r \in DOMAIN rs, MovedBy(r, i, rs, R, place)
    PROVE  r \in DOMAIN ts /\ MovedBy(r, i, ts, R, place)
<1>1. r \in DOMAIN ts /\ Advance(rs[r], ts[r], d)
  BY DEF Advances
<1>2. Moves(ts[r], i) /\ ts[r].value.place = place
  BY <1>1 DEF Advance, Kin, Moves, MovedBy
<1>3. ASSUME NEW o \in DOMAIN ts \ {r}, Moves(ts[o], i) PROVE ts[o].step = "done"
  <2>1. o \in DOMAIN rs
    BY <1>3
  <2>2. Advance(rs[o], ts[o], d)
    BY <2>1 DEF Advances
  <2>3. Moves(rs[o], i)
    BY <1>3, <2>2 DEF Advance, Kin, Moves
  <2>4. rs[o].step = "done"
    BY <1>3, <2>1, <2>3 DEF MovedBy
  <2> QED
    BY <2>2, <2>4 DEF Advance
<1>4. ts[r].step \in {"sent", "ok", "done"} /\ (ts[r].step # "sent" => rs[r].step # "sent")
  BY <1>1 DEF Advance, MovedBy
<1> QED
  BY <1>1, <1>2, <1>3, <1>4 DEF MovedBy

LEMMA BehindOn ==
    ASSUME NEW rs, NEW ts, NEW d, Advances(rs, ts, d), NEW l, Behind(rs, l)
    PROVE  Behind(ts, l)
<1>1. PICK r \in DOMAIN rs : /\ rs[r].op \in {"link", "unlink"} /\ rs[r].by # "canvas"
                             /\ {rs[r].node, rs[r].other} = l
  BY DEF Behind
<1>2. r \in DOMAIN ts /\ Kin(rs[r], ts[r])
  BY DEF Advances, Advance
<1> QED
  BY <1>1, <1>2 DEF Behind, Kin

\* The answers grow no worse.
LEMMA ThereOn ==
    ASSUME NEW rs, NEW ts, NEW c, NEW d, Advances(rs, ts, d), Turns(c, d), NEW R, NodesThere(rs, c, R)
    PROVE  NodesThere(ts, d, R)
<1> SUFFICES ASSUME NEW b \in DOMAIN Area PROVE EntryThere(d[Window(b)], ts, R)
  BY DEF NodesThere
<1>1. PICK e, f : e = c[Window(b)] /\ f = d[Window(b)]
  OBVIOUS
<1>2. EntryThere(e, rs, R) /\ Turn(e, f)
  BY <1>1 DEF NodesThere, Turns
<1>3. CASE Told(f)
  BY <1>1, <1>3 DEF Told, EntryThere, Coming, Drawn, There, Ids
<1>4. CASE ~Told(f)
  <2>1. ASSUME NEW S, There(S, rs, R) PROVE There(S, ts, R)
    <3> SUFFICES ASSUME NEW i \in Ids(S), ~Exists(R, i) PROVE \E r \in DOMAIN ts : Deletes(ts[r], i)
      BY DEF There
    <3>1. PICK r \in DOMAIN rs : Deletes(rs[r], i)
      BY <2>1 DEF There
    <3>2. r \in DOMAIN ts /\ Advance(rs[r], ts[r], d)
      BY DEF Advances
    <3>3. ts[r].step = rs[r].step
      BY <1>1, <1>4, <3>1, <3>2 DEF Advance, Deletes
    <3> QED
      BY <3>1, <3>2, <3>3 DEF Deletes, Advance, Kin
  <2>2. ~f.stale => There(Drawn(f), rs, R)
    BY <1>2 DEF EntryThere, Turn, Lag, Arrived, Drawn, There, Ids
  <2>3. Coming(f) => There(f.wire, rs, R)
    BY <1>2 DEF EntryThere, Turn, Lag, Arrived, Coming
  <2> QED
    BY <1>1, <2>1, <2>2, <2>3 DEF EntryThere
<1> QED
  BY <1>3, <1>4

\* The edges stay as they are while the answer is the same, or are drawn anew.
LEMMA EdgesOn ==
    ASSUME NEW rs, NEW ts, NEW d, Advances(rs, ts, d), NoneDraws(rs, ts),
           NEW b \in DOMAIN Area, NEW e, NEW f, f = d[Window(b)], NEW R, NEW L, NEW E, NEW F,
           \/ Turn(e, f) /\ f.data = e.data /\ F = E /\ EdgesAgree(rs, e, R, L, E)
           \/ F = Edges(Drawn(f))
    PROVE  EdgesAgree(ts, f, R, L, F)
<1>1. CASE F = Edges(Drawn(f))
  BY <1>1 DEF EdgesAgree
<1>2. ASSUME Turn(e, f), f.data = e.data, F = E, EdgesAgree(rs, e, R, L, E)
      PROVE  EdgesAgree(ts, f, R, L, F)
  <2> SUFFICES ASSUME NEW l \in Pairs, l \subseteq Ids(Drawn(f)), ~Behind(ts, l),
                      ~(l \in F <=> l \in Edges(Drawn(f)))
               PROVE  \E r \in DOMAIN ts : JoinedBy(r, l, ts, f, R, L, F)
    BY DEF EdgesAgree
  <2>1. Drawn(f) = Drawn(e) /\ ~Behind(rs, l)
    BY <1>2, BehindOn DEF Drawn
  <2>2. PICK r \in DOMAIN rs : JoinedBy(r, l, rs, e, R, L, E)
    BY <1>2, <2>1 DEF EdgesAgree
  <2>3. e.data # NoData
    <3>1. l # {}
      BY DEF Pairs
    <3> QED
      BY <2>1, <3>1 DEF Drawn, Ids
  <2>4. \A o \in DOMAIN ts \ DOMAIN rs : ~Joins(ts[o], l)
    BY DEF NoneDraws, Draws, Joins
  <2> QED
    BY <1>2, <2>2, <2>3, <2>4, JoinedOn
<1> QED
  BY <1>1, <1>2

\* So do the cards, some of which may go under the mouse.
LEMMA CardsOn ==
    ASSUME NEW rs, NEW ts, NEW d, Advances(rs, ts, d), NoneDraws(rs, ts),
           NEW e, NEW f, NEW R, NEW C, NEW D,
           \/ /\ f.data = e.data /\ CardsAgree(rs, e, R, C)
              /\ \A i \in DOMAIN D : i \in DOMAIN C /\ D[i] = C[i]
           \/ \A i \in DOMAIN D : D[i] = Incoming(Drawn(f))[i]
    PROVE  CardsAgree(ts, f, R, D)
<1>1. CASE \A i \in DOMAIN D : D[i] = Incoming(Drawn(f))[i]
  BY <1>1 DEF CardsAgree
<1>2. ASSUME f.data = e.data, CardsAgree(rs, e, R, C),
             \A i \in DOMAIN D : i \in DOMAIN C /\ D[i] = C[i]
      PROVE  CardsAgree(ts, f, R, D)
  <2> SUFFICES ASSUME NEW i \in DOMAIN D \cap Ids(Drawn(f)), D[i] # Incoming(Drawn(f))[i]
               PROVE  \E r \in DOMAIN ts : MovedBy(r, i, ts, R, D[i])
    BY DEF CardsAgree
  <2>1. Drawn(f) = Drawn(e) /\ i \in DOMAIN C /\ D[i] = C[i]
    BY <1>2 DEF Drawn
  <2>2. PICK r \in DOMAIN rs : MovedBy(r, i, rs, R, D[i])
    BY <1>2, <2>1 DEF CardsAgree
  <2>3. \A o \in DOMAIN ts \ DOMAIN rs : ~Moves(ts[o], i)
    BY DEF NoneDraws, Draws, Moves
  <2> QED
    BY <2>2, <2>3, MovedOn
<1> QED
  BY <1>1, <1>2

-----------------------------------------------------------------------------
(* A canvas that is drawn                                                  *)

\* The edges and the cards that are not under the mouse stay what they are.
Kept == /\ bounds' = bounds /\ edges' = edges
        /\ \A i \in DOMAIN cards' \ dragging' : i \in DOMAIN cards \ dragging /\ cards'[i] = cards[i]

\* They are drawn from the answer e.
Anew(e) == /\ edges' = Edges(Drawn(e))
           /\ \A i \in DOMAIN cards' \ dragging' : cards'[i] = Incoming(Drawn(e))[i]

LEMMA RestingCards ==
    /\ DOMAIN Resting = DOMAIN cards \ dragging
    /\ \A i \in DOMAIN Resting : Resting[i] = cards[i]
  BY DEF Resting

LEMMA DrawsKeptOrAnew ==
    ASSUME NEW c, NEW b, CanvasDraws(c, b), bounds' = b, dragging' = dragging
    PROVE  \/ Kept /\ c[Window(b)].data = cache[Window(b)].data
           \/ Anew(c[Window(b)])
<1> DEFINE nodes == Listed(c, b)
           same == b = bounds /\ c[Window(b)].data = cache[Window(b)].data
                   /\ c[Window(b)].data # NoData
<1>1. nodes = Drawn(c[Window(b)])
  BY DEF Listed, Drawn, Window
<1>2. /\ cards' = IF same THEN cards ELSE reconcileNodes(nodes)
      /\ edges' = IF same THEN edges ELSE Edges(nodes)
  BY DEF CanvasDraws, Window
<1> HIDE DEF nodes
<1>3. CASE same
  BY <1>2, <1>3 DEF Kept
<1>4. CASE ~same
  <2>1. cards' = reconcileNodes(nodes) /\ edges' = Edges(nodes)
    BY <1>2, <1>4
  <2>2. \A i \in DOMAIN reconcileNodes(nodes) \ dragging : reconcileNodes(nodes)[i] = Incoming(nodes)[i]
    BY DEF reconcileNodes
  <2> QED
    BY <1>1, <2>1, <2>2 DEF Anew
<1> QED
  BY <1>3, <1>4

\* What holds of the canvas, while the API is as it was.
LEMMA CanvasOn ==
    ASSUME FrontendInv, AgreeInv, page = "workspace", UNCHANGED <<scenario, api>>,
           NEW d, d = cache', Turns(cache, d), NEW ts, ts = requests',
           \/ Hopeless(ts)
           \/ ~Hopeless(requests) /\ Advances(requests, ts, d) /\ NoneDraws(requests, ts),
           NEW b \in DOMAIN Area, b = bounds', Window(b) \in observed',
           \A i, j \in dragging' : i = j,
           \/ Kept /\ d[Window(b)].data = cache[Window(b)].data
           \/ Anew(d[Window(b)])
    PROVE  AgreeInv'
<1>1. CanvasAlone'
  BY DEF CanvasAlone
<1>2. CASE Hopeless(ts)
  BY <1>1, <1>2 DEF AgreeInv
<1>3. ASSUME ~Hopeless(requests), Advances(requests, ts, d), NoneDraws(requests, ts)
      PROVE  Agrees'
  <2>1. PICK rs, c, R, L, E, C, D, F, e, f :
           /\ rs = requests /\ c = cache /\ R = rows /\ L = links /\ E = edges /\ C = Resting
           /\ D = Resting' /\ F = edges' /\ e = c[Window(bounds)] /\ f = d[Window(b)]
    OBVIOUS
  <2>2. /\ EdgesAgree(rs, e, R, L, E) /\ CardsAgree(rs, e, R, C) /\ NodesThere(rs, c, R)
        /\ Advances(rs, ts, d) /\ NoneDraws(rs, ts) /\ Turns(c, d)
    BY <1>3, <2>1 DEF AgreeInv, Agrees
  <2>3. NodesThere(ts, d, R)
    BY <2>2, ThereOn
  <2>4. \/ Kept /\ f.data = c[Window(b)].data
        \/ Anew(f)
    BY <2>1
  <2>5. /\ DOMAIN C = DOMAIN cards \ dragging /\ \A i \in DOMAIN C : C[i] = cards[i]
        /\ DOMAIN D = DOMAIN cards' \ dragging' /\ \A i \in DOMAIN D : D[i] = cards'[i]
    BY <2>1, RestingCards DEF Resting
  <2>6. \/ Turn(e, f) /\ f.data = e.data /\ F = E /\ EdgesAgree(rs, e, R, L, E)
        \/ F = Edges(Drawn(f))
    BY <2>1, <2>2, <2>4 DEF Kept, Anew, Turns
  <2>7. \/ /\ f.data = e.data /\ CardsAgree(rs, e, R, C)
           /\ \A i \in DOMAIN D : i \in DOMAIN C /\ D[i] = C[i]
        \/ \A i \in DOMAIN D : D[i] = Incoming(Drawn(f))[i]
    BY <2>1, <2>2, <2>4, <2>5 DEF Kept, Anew
  <2>8. EdgesAgree(ts, f, R, L, F)
    BY <2>1, <2>2, <2>6, EdgesOn
  <2>9. CardsAgree(ts, f, R, D)
    BY <2>2, <2>7, CardsOn
  <2>10. rows' = R /\ links' = L
    BY <2>1 DEF api
  <2> QED
    BY <2>1, <2>3, <2>8, <2>9, <2>10 DEF Agrees
<1> QED
  BY <1>1, <1>2, <1>3 DEF AgreeInv

-----------------------------------------------------------------------------
(* What the API does                                                       *)

\* A request that is carried out stays what it was, but for the id of a new node.
LEMMA ExecutedKin ==
    ASSUME FrontendInv, NEW r \in DOMAIN requests, Execute(r), requests[r].op # "create"
    PROVE  Kin(requests[r], requests'[r])
<1>1. /\ requests = [o \in DOMAIN requests |-> requests[o]] /\ requests[r] \in RequestSet
  BY PanelKeeps, RequestSeq DEF AllSound
<1>2. PICK step : requests' = [requests EXCEPT ![r].step = step]
  BY DEF Execute
<1>3. requests'[r] = [requests[r] EXCEPT !.step = step]
  BY <1>1, <1>2
<1> QED
  BY <1>1, <1>3 DEF RequestSet, Kin

\* The pair q links or unlinks.
Ties(q, l) == q.op \in {"link", "unlink"} /\ {q.node, q.other} = l

\* What q does to node i and to the link l, if it succeeds; S and M are the
\* nodes and links then.
RowDone(q, i, R, S) ==
    /\ Exists(S, i) => /\ Exists(R, i)
                       /\ S[i].place = IF Moves(q, i) THEN q.value.place ELSE R[i].place
    /\ Exists(R, i) => Exists(S, i) \/ (q.op = "delete" /\ q.node = i)

LinkDone(q, l, S, L, M) ==
    (\A i \in l : Exists(S, i)) => /\ Ties(q, l) => (l \in M <=> q.op = "link")
                                   /\ ~Ties(q, l) => (l \in M <=> l \in L)

LEMMA ExecuteChanges ==
    ASSUME FrontendInv, NEW r \in DOMAIN requests, Execute(r), requests'[r].step = "ok",
           NEW R, NEW S, NEW L, NEW M, R = rows, S = rows', L = links, M = links',
           NEW q, q = requests[r]
    PROVE  /\ \A i \in Born : RowDone(q, i, R, S)
           /\ \A l \in SUBSET Born : LinkDone(q, l, S, L, M)
<1>1. /\ TablesInv /\ MaxId \in Nat /\ Gone \notin Row
      /\ requests = [o \in DOMAIN requests |-> requests[o]]
      /\ q \in RequestSet /\ Sound(q, page, Born) /\ R \in [NodeIds -> Row \cup {Gone}]
  BY PanelKeeps, RequestSeq, FrontendAssumption DEF AllSound, TablesInv
<1>2. \A step : requests' = [requests EXCEPT ![r].step = step] => step = "ok"
  <2> SUFFICES ASSUME NEW step, requests' = [requests EXCEPT ![r].step = step] PROVE step = "ok"
    OBVIOUS
  <2>1. requests'[r] = [q EXCEPT !.step = step]
    BY <1>1
  <2> QED
    BY <1>1, <2>1 DEF RequestSet
<1>3. CASE /\ q.op = "create" /\ issued < MaxId
           /\ rows' = [rows EXCEPT ![issued + 1] = q.value]
           /\ UNCHANGED links
  <2>1. \A i \in Born : S[i] = R[i]
    BY <1>1, <1>3 DEF TablesInv, Born
  <2>2. ~Moves(q, 0) /\ \A l : ~Ties(q, l)
    BY <1>3 DEF Moves, Ties
  <2>3. \A i \in Born : RowDone(q, i, R, S)
    BY <1>3, <2>1 DEF RowDone, Exists, Moves
  <2> QED
    BY <1>3, <2>2, <2>3 DEF LinkDone
<1>4. CASE /\ q.op \in {"patch", "move", "upload", "raw"} /\ Exists(rows, q.node)
           /\ rows' = [rows EXCEPT ![q.node] = Changed(@, q.value)]
           /\ UNCHANGED links
  <2>1. PICK i, v : i = q.node /\ v = q.value
    OBVIOUS
  <2>2. i \in NodeIds /\ R[i] \in Row /\ v \in Partials
    BY <1>1, <1>4, <2>1 DEF Exists, RequestSet
  <2>3. S[i] = Changed(R[i], v) /\ \A j \in NodeIds \ {i} : S[j] = R[j]
    BY <1>1, <1>4, <2>1, <2>2
  <2>4. S[i] \in Row /\ \A f \in RowFields \ DOMAIN v : S[i][f] = R[i][f]
    BY <2>2, <2>3, RowChanges
  <2>5. \A j : Exists(S, j) <=> Exists(R, j)
    BY <1>1, <2>2, <2>3, <2>4 DEF Exists
  <2>6. CASE q.op = "move"
    <3>1. "place" \in DOMAIN v
      BY <1>1, <2>1, <2>6 DEF Sound
    <3>2. DOMAIN R[i] = RowFields
      BY <2>2 DEF Row, RowFields
    <3>3. S[i].place = v.place
      BY <2>3, <3>1, <3>2 DEF Changed, RowFields
    <3>4. \A j \in Born : RowDone(q, j, R, S)
      BY <2>1, <2>3, <2>5, <2>6, <3>3 DEF RowDone, Moves, Exists
    <3> QED
      BY <1>4, <2>6, <3>4 DEF LinkDone, Ties
  <2>7. CASE q.op # "move"
    <3>1. "place" \notin DOMAIN v
      BY <1>1, <1>4, <2>1, <2>7 DEF Sound, Fields
    <3>2. S[i].place = R[i].place
      BY <2>4, <3>1 DEF RowFields
    <3>3. \A j \in Born : RowDone(q, j, R, S)
      BY <2>1, <2>3, <2>5, <2>7, <3>2 DEF RowDone, Moves, Exists
    <3> QED
      BY <1>4, <3>3 DEF LinkDone, Ties
  <2> QED
    BY <2>6, <2>7
<1>5. CASE /\ q.op = "delete" /\ Exists(rows, q.node)
           /\ rows' = [rows EXCEPT ![q.node] = Gone]
           /\ links' = {l \in links : q.node \notin l}
  <2>1. PICK i : i = q.node
    OBVIOUS
  <2>2. i \in NodeIds /\ S[i] = Gone /\ \A j \in NodeIds \ {i} : S[j] = R[j]
    BY <1>1, <1>5, <2>1 DEF Exists
  <2>3. \A j \in Born : RowDone(q, j, R, S)
    BY <1>5, <2>1, <2>2 DEF RowDone, Moves, Exists
  <2>4. \A l : (\A j \in l : Exists(S, j)) => (l \in M <=> l \in L)
    BY <1>5, <2>1, <2>2 DEF Exists
  <2> QED
    BY <1>5, <2>3, <2>4 DEF LinkDone, Ties
<1>6. CASE /\ q.op = "link"
           /\ links' = links \cup {{q.node, q.other}}
           /\ UNCHANGED rows
  <2>1. \A j \in Born : RowDone(q, j, R, S)
    BY <1>6 DEF RowDone, Moves
  <2> QED
    BY <1>6, <2>1 DEF LinkDone, Ties
<1>7. CASE /\ q.op = "unlink"
           /\ links' = links \ {{q.node, q.other}}
           /\ UNCHANGED rows
  <2>1. \A j \in Born : RowDone(q, j, R, S)
    BY <1>7 DEF RowDone, Moves
  <2> QED
    BY <1>7, <2>1 DEF LinkDone, Ties
<1>8. requests' # [requests EXCEPT ![r].step = "refused"]
  BY <1>2
<1> QED
  BY <1>3, <1>4, <1>5, <1>6, <1>7, <1>8 DEF Execute

LEMMA ExecuteEdges ==
    ASSUME NEW rs, NEW ts, NEW r \in DOMAIN rs, DOMAIN ts = DOMAIN rs,
           \A o \in DOMAIN rs \ {r} : ts[o] = rs[o],
           rs[r].step = "sent", ts[r].step = "ok", ts[r].op = rs[r].op,
           rs[r].op # "create" => Kin(rs[r], ts[r]),
           NEW R, NEW S, NEW L, NEW M, NEW E, NEW e,
           \A i \in Ids(Drawn(e)) : RowDone(rs[r], i, R, S),
           \A l \in SUBSET Ids(Drawn(e)) : LinkDone(rs[r], l, S, L, M),
           EdgesAgree(rs, e, R, L, E)
    PROVE  EdgesAgree(ts, e, S, M, E)
<1> SUFFICES ASSUME NEW l \in Pairs, l \subseteq Ids(Drawn(e)), ~Behind(ts, l),
                    ~(l \in E <=> l \in Edges(Drawn(e)))
             PROVE  \E o \in DOMAIN ts : JoinedBy(o, l, ts, e, S, M, E)
  BY DEF EdgesAgree
<1>1. ~Behind(rs, l)
  <2> SUFFICES ASSUME Behind(rs, l) PROVE FALSE
    OBVIOUS
  <2>1. PICK o \in DOMAIN rs : /\ rs[o].op \in {"link", "unlink"} /\ rs[o].by # "canvas"
                               /\ {rs[o].node, rs[o].other} = l
    BY DEF Behind
  <2>2. ts[o].op = rs[o].op /\ ts[o].by = rs[o].by /\ ts[o].node = rs[o].node
        /\ ts[o].other = rs[o].other
    BY <2>1 DEF Kin
  <2> QED
    BY <2>1, <2>2 DEF Behind
<1>2. PICK o \in DOMAIN rs : JoinedBy(o, l, rs, e, R, L, E)
  BY <1>1 DEF EdgesAgree
<1>3. Joins(ts[r], l) => Joins(rs[r], l)
  BY DEF Joins, Kin
<1>4. LinkDone(rs[r], l, S, L, M) /\ \A i \in l : RowDone(rs[r], i, R, S)
  OBVIOUS
<1>5. CASE o = r
  <2>1. Joins(ts[r], l) /\ Ties(rs[r], l)
    BY <1>2, <1>5 DEF JoinedBy, Joins, Kin, Ties
  <2>2. Decided(l, S, M, E)
    BY <1>2, <1>4, <1>5, <2>1 DEF Decided, LinkDone, JoinedBy
  <2> QED
    BY <1>2, <1>5, <2>1, <2>2 DEF JoinedBy
<1>6. CASE o # r
  <2>1. ~Joins(rs[r], l)
    BY <1>2, <1>6 DEF JoinedBy
  <2>2. ~Ties(rs[r], l)
    BY <1>1, <2>1 DEF Ties, Joins, Behind
  <2>3. Decided(l, R, L, E) => Decided(l, S, M, E)
    BY <1>4, <2>2 DEF Decided, LinkDone, RowDone
  <2>4. \A x \in DOMAIN ts \ {o} : Joins(ts[x], l) => ts[x].step = "done"
    BY <1>2, <1>3, <2>1 DEF JoinedBy
  <2> QED
    BY <1>2, <1>6, <2>3, <2>4 DEF JoinedBy
<1> QED
  BY <1>5, <1>6

LEMMA ExecuteCards ==
    ASSUME NEW rs, NEW ts, NEW r \in DOMAIN rs, DOMAIN ts = DOMAIN rs,
           \A o \in DOMAIN rs \ {r} : ts[o] = rs[o],
           rs[r].step = "sent", ts[r].step = "ok", ts[r].op = rs[r].op,
           rs[r].op # "create" => Kin(rs[r], ts[r]),
           NEW R, NEW S, NEW C, NEW e,
           \A i \in Ids(Drawn(e)) : RowDone(rs[r], i, R, S), CardsAgree(rs, e, R, C)
    PROVE  CardsAgree(ts, e, S, C)
<1> SUFFICES ASSUME NEW i \in DOMAIN C \cap Ids(Drawn(e)), C[i] # Incoming(Drawn(e))[i]
             PROVE  \E o \in DOMAIN ts : MovedBy(o, i, ts, S, C[i])
  BY DEF CardsAgree
<1>1. PICK o \in DOMAIN rs : MovedBy(o, i, rs, R, C[i])
  BY DEF CardsAgree
<1>2. (Moves(ts[r], i) <=> Moves(rs[r], i)) /\ RowDone(rs[r], i, R, S)
  BY DEF Moves, Kin
<1>3. CASE o = r
  <2>1. Moves(ts[r], i) /\ ts[r].value = rs[r].value
    BY <1>1, <1>2, <1>3 DEF MovedBy, Moves, Kin
  <2>2. Exists(S, i) => S[i].place = C[i]
    BY <1>1, <1>2, <1>3 DEF RowDone, MovedBy
  <2> QED
    BY <1>1, <1>3, <2>1, <2>2 DEF MovedBy
<1>4. CASE o # r
  <2>1. ~Moves(rs[r], i)
    BY <1>1, <1>4 DEF MovedBy
  <2>2. Exists(S, i) => Exists(R, i) /\ S[i].place = R[i].place
    BY <1>2, <2>1 DEF RowDone
  <2>3. \A x \in DOMAIN ts \ {o} : Moves(ts[x], i) => ts[x].step = "done"
    BY <1>1, <1>2, <2>1 DEF MovedBy
  <2> QED
    BY <1>1, <1>4, <2>2, <2>3 DEF MovedBy
<1> QED
  BY <1>3, <1>4

LEMMA ExecuteThere ==
    ASSUME NEW rs, NEW ts, NEW r \in DOMAIN rs, DOMAIN ts = DOMAIN rs,
           \A o \in DOMAIN rs \ {r} : ts[o] = rs[o],
           rs[r].step = "sent", ts[r].step = "ok", ts[r].op = rs[r].op,
           rs[r].op # "create" => Kin(rs[r], ts[r]),
           NEW R, NEW S, NEW c, \A i : Exists(R, i) => RowDone(rs[r], i, R, S), NodesThere(rs, c, R)
    PROVE  NodesThere(ts, c, S)
<1>1. ASSUME NEW X, There(X, rs, R) PROVE There(X, ts, S)
  <2> SUFFICES ASSUME NEW i \in Ids(X) PROVE Exists(S, i) \/ \E o \in DOMAIN ts : Deletes(ts[o], i)
    BY DEF There
  <2>1. CASE Exists(R, i)
    <3>1. Exists(S, i) \/ (rs[r].op = "delete" /\ rs[r].node = i)
      BY <2>1 DEF RowDone
    <3>2. rs[r].op = "delete" /\ rs[r].node = i => Deletes(ts[r], i)
      BY DEF Deletes, Kin
    <3> QED
      BY <3>1, <3>2
  <2>2. ASSUME NEW o \in DOMAIN rs, Deletes(rs[o], i) PROVE o \in DOMAIN ts /\ Deletes(ts[o], i)
    BY <2>2 DEF Deletes
  <2> QED
    BY <1>1, <2>1, <2>2 DEF There
<1> QED
  BY <1>1 DEF NodesThere, EntryThere

LEMMA ExecuteAgrees ==
    ASSUME FrontendInv, AgreeInv, page = "workspace", NEW r \in DOMAIN requests, Execute(r), Others
    PROVE  AgreeInv'
<1>1. /\ TablesInv /\ requests \in Seq(RequestSet) /\ UNCHANGED <<scenario, queries, canvas>>
      /\ IsCache(cache, Born) /\ bounds \in DOMAIN Area /\ requests[r].step = "sent"
  BY PanelKeeps DEF Execute, Others, AllSound, CanvasInv
<1>2. PICK rs, ts, c, R, S, L, M, E, C, e, B :
         /\ rs = requests /\ ts = requests' /\ c = cache /\ R = rows /\ S = rows' /\ L = links
         /\ M = links' /\ E = edges /\ C = Resting /\ e = c[Window(bounds)] /\ B = Born
  OBVIOUS
<1>3. /\ DOMAIN ts = DOMAIN rs /\ r \in DOMAIN rs /\ \A o \in DOMAIN rs \ {r} : ts[o] = rs[o]
      /\ ts[r].op = rs[r].op /\ ts[r].gap = rs[r].gap
      /\ ts[r].step \in {"ok", "linked", "refused"} /\ rs[r].step = "sent"
  BY <1>1, <1>2, AnsweredAs
<1>4. CanvasAlone'
  BY <1>1 DEF AgreeInv, CanvasAlone, queries, canvas
<1>5. CASE Hopeless(ts)
  BY <1>2, <1>4, <1>5 DEF AgreeInv
<1>6. ASSUME ~Hopeless(ts) PROVE Agrees'
  <2>1. ts[r].step = "ok"
    BY <1>3, <1>6 DEF Hopeless, Stuck
  <2>2. ~Hopeless(rs)
    BY <1>3, <1>6 DEF Hopeless, Stuck
  <2>3. EdgesAgree(rs, e, R, L, E) /\ CardsAgree(rs, e, R, C) /\ NodesThere(rs, c, R)
    BY <1>2, <2>2 DEF AgreeInv, Agrees
  <2>4. requests'[r].step = "ok"
    BY <1>2, <2>1
  <2>5. /\ \A i \in B : RowDone(rs[r], i, R, S)
        /\ \A l \in SUBSET B : LinkDone(rs[r], l, S, L, M)
    BY <1>2, <2>4, ExecuteChanges
  <2>6. Ids(Drawn(e)) \subseteq B
    <3>1. Listed(c, bounds) = Drawn(e)
      BY <1>2 DEF Listed, Drawn, Window
    <3> QED
      BY <1>1, <1>2, <3>1, ListedType
  <2>7. \A i : Exists(R, i) => i \in B
    BY <1>1, <1>2 DEF TablesInv, Exists
  <2>8. rs[r].op # "create" => Kin(rs[r], ts[r])
    BY <1>2, ExecutedKin
  <2>9. /\ \A i \in Ids(Drawn(e)) : RowDone(rs[r], i, R, S)
        /\ \A l \in SUBSET Ids(Drawn(e)) : LinkDone(rs[r], l, S, L, M)
        /\ \A i : Exists(R, i) => RowDone(rs[r], i, R, S)
    BY <2>5, <2>6, <2>7
  <2>10. EdgesAgree(ts, e, S, M, E)
    BY <1>3, <2>1, <2>3, <2>8, <2>9, ExecuteEdges
  <2>11. CardsAgree(ts, e, S, C)
    BY <1>3, <2>1, <2>3, <2>8, <2>9, ExecuteCards
  <2>12. NodesThere(ts, c, S)
    BY <1>3, <2>1, <2>3, <2>8, <2>9, ExecuteThere
  <2> QED
    BY <1>1, <1>2, <2>10, <2>11, <2>12 DEF Agrees, Resting, queries, canvas
<1> QED
  BY <1>4, <1>5, <1>6, <1>2 DEF AgreeInv

\* An answer that was read from the API shows the links there are.
LEMMA EdgesAnswered ==
    ASSUME NEW R, NEW L, L \subseteq Pairs, NEW b, NEW nodes, nodes = useNodesInViewport(R, L, b),
           NEW l \in Pairs, l \subseteq Ids(nodes)
    PROVE  /\ \A i \in l : Exists(R, i)
           /\ l \in Edges(nodes) <=> l \in L
<1>1. \A n \in nodes : Exists(R, n.id) /\ n.links = Neighbors(R, L, n.id)
  BY DEF useNodesInViewport
<1>2. \A i \in Ids(nodes) : Exists(R, i)
  BY <1>1 DEF Ids
<1>3. PICK i, j : l = {i, j} /\ i \in NodeIds /\ j \in NodeIds
  BY DEF Pairs
<1>4. ASSUME l \in L PROVE l \in Edges(nodes)
  <2>1. PICK n \in nodes : n.id = i
    BY <1>3 DEF Ids
  <2>2. j \in n.links /\ j \in Ids(nodes) /\ l = {n.id, j}
    BY <1>1, <1>2, <1>3, <1>4, <2>1 DEF Neighbors
  <2> QED
    BY <2>1, <2>2 DEF Edges
<1>5. ASSUME l \in Edges(nodes) PROVE l \in L
  <2>1. PICK n \in nodes : \E x \in n.links : l = {n.id, x}
    BY <1>5 DEF Edges
  <2> QED
    BY <1>1, <2>1 DEF Neighbors
<1> QED
  BY <1>2, <1>4, <1>5

LEMMA ServeEdges ==
    ASSUME NEW rs, NEW e, NEW f, NEW R, NEW L, L \subseteq Pairs, NEW E, NEW b,
           e.wire = Asked, f.data = e.data, f.stale = e.stale, f.wire = useNodesInViewport(R, L, b),
           EdgesAgree(rs, e, R, L, E)
    PROVE  EdgesAgree(rs, f, R, L, E)
<1> SUFFICES ASSUME NEW l \in Pairs, l \subseteq Ids(Drawn(f)), ~Behind(rs, l),
                    ~(l \in E <=> l \in Edges(Drawn(f)))
             PROVE  \E r \in DOMAIN rs : JoinedBy(r, l, rs, f, R, L, E)
  BY DEF EdgesAgree
<1>1. Drawn(f) = Drawn(e)
  BY DEF Drawn
<1>2. PICK r \in DOMAIN rs : JoinedBy(r, l, rs, e, R, L, E)
  BY <1>1 DEF EdgesAgree
<1>3. ASSUME rs[r].step = "done" PROVE Outrun(f)
  <2>1. e.stale /\ Decided(l, R, L, E)
    BY <1>2, <1>3 DEF JoinedBy, Outrun
  <2>2. ASSUME f.wire = f.data PROVE FALSE
    <3>1. Drawn(f) = useNodesInViewport(R, L, b)
      <4>1. l # {}
        BY DEF Pairs
      <4>2. f.data # NoData
        BY <4>1 DEF Drawn, Ids
      <4> QED
        BY <2>2, <4>2 DEF Drawn
    <3>2. (\A i \in l : Exists(R, i)) /\ (l \in Edges(Drawn(f)) <=> l \in L)
      BY <3>1, EdgesAnswered
    <3> QED
      BY <2>1, <3>2 DEF Decided
  <2> QED
    BY <2>1, <2>2 DEF Outrun
<1> QED
  BY <1>2, <1>3 DEF JoinedBy

LEMMA ServeAgrees ==
    ASSUME FrontendInv, AgreeInv, page = "workspace", NEW k \in observed, Serve(k), Others
    PROVE  AgreeInv'
<1>1. /\ UNCHANGED <<scenario, api, observed, requests, canvas>> /\ k \in Keys
      /\ IsCache(cache, Born) /\ links \subseteq Pairs /\ bounds \in DOMAIN Area
      /\ cache[k].wire = Asked /\ cache' = [cache EXCEPT ![k].wire = Answer(k, rows, links)]
  BY PanelKeeps DEF Serve, Others, TablesInv, CanvasInv
<1>2. PICK rs, c, d, R, L, E, C, b, answer :
         /\ rs = requests /\ c = cache /\ d = cache' /\ R = rows /\ L = links
         /\ E = edges /\ C = Resting /\ b = bounds /\ answer = Answer(k, R, L)
  OBVIOUS
<1>3. c = [j \in Keys |-> c[j]] /\ c[k] \in Entry(k, Born)
  BY <1>1, <1>2 DEF IsCache
<1>4. d = [c EXCEPT ![k].wire = answer]
  BY <1>1, <1>2
<1>5. (\A j \in Keys \ {k} : d[j] = c[j]) /\ d[k] = [c[k] EXCEPT !.wire = answer]
  BY <1>1, <1>3, <1>4
<1>6. d[k].wire = answer /\ d[k].data = c[k].data /\ d[k].stale = c[k].stale
  BY <1>3, <1>5 DEF Entry
<1>7. \A x \in DOMAIN Area : Window(x) \in Keys
                             /\ Answer(Window(x), R, L) = useNodesInViewport(R, L, x)
  BY WindowKey DEF Window, Answer
<1>8. CanvasAlone'
  BY <1>1 DEF AgreeInv, CanvasAlone, canvas
<1>9. ASSUME ~Hopeless(rs) PROVE Agrees'
  <2>1. EdgesAgree(rs, c[Window(b)], R, L, E) /\ CardsAgree(rs, c[Window(b)], R, C)
        /\ NodesThere(rs, c, R)
    BY <1>2, <1>9 DEF AgreeInv, Agrees
  <2>2. d[Window(b)].data = c[Window(b)].data
    BY <1>1, <1>2, <1>5, <1>6, <1>7
  <2>3. CardsAgree(rs, d[Window(b)], R, C)
    <3>1. Drawn(d[Window(b)]) = Drawn(c[Window(b)])
      BY <2>2 DEF Drawn
    <3> QED
      BY <2>1, <3>1 DEF CardsAgree
  <2>4. EdgesAgree(rs, d[Window(b)], R, L, E)
    <3>1. CASE k = Window(b)
      <4>1. d[Window(b)].wire = useNodesInViewport(R, L, b) /\ L \subseteq Pairs
            /\ c[Window(b)].wire = Asked /\ d[Window(b)].stale = c[Window(b)].stale
        BY <1>1, <1>2, <1>6, <1>7, <3>1
      <4> QED
        BY <2>1, <2>2, <4>1, ServeEdges
    <3>2. CASE k # Window(b)
      <4>1. d[Window(b)] = c[Window(b)]
        BY <1>1, <1>2, <1>5, <1>7, <3>2
      <4> QED
        BY <2>1, <4>1
    <3> QED
      BY <3>1, <3>2
  <2>5. NodesThere(rs, d, R)
    <3> SUFFICES ASSUME NEW x \in DOMAIN Area PROVE EntryThere(d[Window(x)], rs, R)
      BY DEF NodesThere
    <3>1. EntryThere(c[Window(x)], rs, R)
      BY <2>1 DEF NodesThere
    <3>2. CASE k = Window(x)
      <4>1. d[Window(x)].wire = useNodesInViewport(R, L, x)
        BY <1>2, <1>6, <1>7, <3>2
      <4>2. There(d[Window(x)].wire, rs, R)
        BY <4>1 DEF There, Ids, useNodesInViewport
      <4> QED
        BY <1>6, <3>1, <3>2, <4>2 DEF EntryThere, Drawn
    <3>3. CASE k # Window(x)
      BY <1>5, <1>7, <3>1, <3>3
    <3> QED
      BY <3>2, <3>3
  <2> QED
    BY <1>1, <1>2, <2>3, <2>4, <2>5 DEF Agrees, Resting, canvas, api
<1> QED
  BY <1>1, <1>2, <1>8, <1>9 DEF AgreeInv

\* What is lost, and what others do, the canvas does not know of.
LEMMA LoseAgrees ==
    ASSUME FrontendInv, AgreeInv, page = "workspace", NEW r \in DOMAIN requests, Lose(r), Others
    PROVE  AgreeInv'
<1>1. requests \in Seq(RequestSet) /\ UNCHANGED <<scenario, api, queries, canvas>>
  BY PanelKeeps DEF Lose, Others, AllSound
<1>2. DOMAIN requests' = DOMAIN requests /\ requests'[r].step = "lost"
  BY <1>1, AnsweredAs
<1>3. PICK ts : ts = requests'
  OBVIOUS
<1>4. Hopeless(ts)
  BY <1>2, <1>3 DEF Hopeless, Stuck
<1>5. CanvasAlone'
  BY <1>1 DEF AgreeInv, CanvasAlone, queries, canvas
<1> QED
  BY <1>3, <1>4, <1>5 DEF AgreeInv

LEMMA OtherUsersAgrees ==
    ASSUME FrontendInv, AgreeInv, page = "workspace", OtherUsers
    PROVE  AgreeInv'
<1>1. requests \in Seq(RequestSet) /\ UNCHANGED <<scenario, queries, canvas>>
  BY PanelKeeps DEF OtherUsers, OtherUser, Others, AllSound
<1>2. PICK i, value, q :
         /\ q = [Request("patch", i, i, value, "other") EXCEPT !.step = "done", !.gap = TRUE]
         /\ Send(q)
  BY DEF OtherUsers, OtherUser
<1>3. q.gap = TRUE
  BY <1>2 DEF Request
<1>4. PICK rs, ts : rs = requests /\ ts = requests'
  OBVIOUS
<1>5. rs \in Seq(RequestSet) /\ ts = Append(rs, q)
  BY <1>1, <1>2, <1>4 DEF Send
<1>6. Len(rs) + 1 \in DOMAIN ts /\ ts[Len(rs) + 1] = q
  BY <1>5, SentInSeq
<1>7. Hopeless(ts)
  BY <1>3, <1>6 DEF Hopeless, Stuck
<1>8. CanvasAlone'
  BY <1>1 DEF AgreeInv, CanvasAlone, queries, canvas
<1> QED
  BY <1>4, <1>7, <1>8 DEF AgreeInv

-----------------------------------------------------------------------------
(* A canvas whose panel is drawn                                           *)

\* From the requests there are to rs something goes wrong, or nothing does.
Stands(rs, d) == \/ Hopeless(rs)
                 \/ ~Hopeless(requests) /\ Advances(requests, rs, d) /\ NoneDraws(requests, rs)

LEMMA StandsOn ==
    ASSUME NEW rs, NEW ts, Onward(rs, ts), NEW c, NEW d, Lags(c, d), Stands(rs, c)
    PROVE  Stands(ts, d)
<1>1. CASE Hopeless(rs)
  BY <1>1, OnwardHopeless DEF Stands
<1>2. ASSUME ~Hopeless(requests), Advances(requests, rs, c), NoneDraws(requests, rs)
      PROVE  Stands(ts, d)
  <2>1. PICK qs : qs = requests
    OBVIOUS
  <2>2. Advances(qs, rs, c) /\ NoneDraws(qs, rs)
    BY <1>2, <2>1
  <2>3. Advances(qs, ts, c) /\ NoneDraws(qs, ts)
    BY <2>2, AdvancesOn
  <2>4. \A b \in DOMAIN Area : Told(c[Window(b)]) => Told(d[Window(b)])
    BY LagOn DEF Lags
  <2>5. Advances(qs, ts, d)
    BY <2>3, <2>4 DEF Advances, Advance
  <2> QED
    BY <1>2, <2>1, <2>3, <2>5 DEF Stands
<1> QED
  BY <1>1, <1>2 DEF Stands

LEMMA OnwardStands ==
    ASSUME NEW rs, rs = requests, NEW ts, Onward(rs, ts), NEW d
    PROVE  Stands(ts, d)
  BY OnwardHopeless, OnwardAdvances DEF Stands

LEMMA DrawLags ==
    ASSUME NEW B, NEW c, IsCache(c, B), NEW s \in 0..MaxId, NEW p, NEW rs \in Seq(RequestSet),
           NEW obs, Draw(s, c, p, rs, obs)
    PROVE  /\ Lags(c, cache') /\ Onward(rs, requests')
           /\ \A b \in DOMAIN Area : Window(b) \in obs => Window(b) \in observed'
<1>1. PICK route, c1, new, c2, view :
         /\ route = obs \cup ({<<"node", s>>} \cap Keys)
         /\ c1 = Sync(obs, route, c)
         /\ new = {k \in obs : k[1] \in {"viewport", "path"}} \cup ViewKeys(s, c1)
         /\ c2 = Sync(route, new, c1)
         /\ cache' = c2 /\ observed' = new /\ requests' = Rebound(rs, s, c2, view)
  BY DEF Draw
<1>2. Lags(c, c1) /\ IsCache(c1, B)
  BY <1>1, CacheLags, SyncType
<1>3. Lags(c1, c2)
  BY <1>1, <1>2, CacheLags
<1>4. Lags(c, c2)
  BY <1>2, <1>3, LagsOn
<1>5. PICK ts : ts = Rebound(rs, s, c2, view)
  OBVIOUS
<1>6. Onward(rs, ts)
  BY <1>5, ReboundOnward
<1>7. \A b \in DOMAIN Area : Window(b) \in obs => Window(b) \in new
  BY <1>1, WindowKey
<1> QED
  BY <1>1, <1>4, <1>5, <1>6, <1>7

\* Whatever the page is drawn from, if the canvas follows.
LEMMA DrawnAgrees ==
    ASSUME FrontendInv, AgreeInv, page = "workspace", UNCHANGED <<scenario, api, bounds, dragging>>,
           NEW c, IsCache(c, Born), Turns(cache, c), NEW s \in 0..MaxId, NEW p,
           NEW rs \in Seq(RequestSet), Stands(rs, c), NEW obs, Draw(s, c, p, rs, obs),
           Window(bounds) \in observed => Window(bounds) \in obs,
           \/ c = cache /\ UNCHANGED canvas
           \/ CanvasDraws(c, bounds)
           \/ CanvasDraws(cache', bounds)
    PROVE  AgreeInv'
<1>1. PICK d, ts, b, old : d = cache' /\ ts = requests' /\ b = bounds /\ old = cache
  OBVIOUS
<1>2. b \in DOMAIN Area /\ b = bounds'
  BY <1>1, PanelKeeps DEF CanvasInv
<1>3. Lags(c, d) /\ Onward(rs, ts) /\ (Window(b) \in obs => Window(b) \in observed')
  <2>1. /\ Lags(c, cache') /\ Onward(rs, requests')
        /\ \A x \in DOMAIN Area : Window(x) \in obs => Window(x) \in observed'
    BY DrawLags
  <2> QED
    BY <1>1, <1>2, <2>1
<1>4. Turns(old, d)
  <2>1. Turns(old, c)
    BY <1>1
  <2> QED
    BY <1>3, <2>1, LagsOn
<1>5. Stands(ts, d)
  BY <1>3, StandsOn
<1>6. Window(b) \in observed' /\ \A i, j \in dragging' : i = j
  <2>1. Window(b) \in observed /\ \A i, j \in dragging : i = j
    BY <1>1 DEF AgreeInv, CanvasAlone
  <2> QED
    BY <1>1, <1>3, <2>1
<1>7. d[Window(b)].data = c[Window(b)].data
  BY <1>2, <1>3 DEF Lags, Lag
<1>8. \/ Kept /\ d[Window(b)].data = cache[Window(b)].data
      \/ Anew(d[Window(b)])
  <2>1. CASE c = cache /\ UNCHANGED canvas
    BY <1>7, <2>1 DEF Kept, canvas
  <2>2. CASE CanvasDraws(c, bounds)
    <3>1. CanvasDraws(c, b)
      BY <1>1, <2>2
    <3>2. \/ Kept /\ c[Window(b)].data = cache[Window(b)].data
          \/ Anew(c[Window(b)])
      BY <1>2, <3>1, DrawsKeptOrAnew
    <3>3. Drawn(d[Window(b)]) = Drawn(c[Window(b)])
      BY <1>7 DEF Drawn
    <3> QED
      BY <1>7, <3>2, <3>3 DEF Anew
  <2>3. CASE CanvasDraws(cache', bounds)
    <3>1. CanvasDraws(d, b)
      BY <1>1, <2>3
    <3> QED
      BY <1>2, <3>1, DrawsKeptOrAnew
  <2> QED
    BY <2>1, <2>2, <2>3
<1>9. Turns(cache, d)
  BY <1>1, <1>4
<1> QED
  BY <1>1, <1>2, <1>5, <1>6, <1>8, <1>9, CanvasOn DEF Stands

LEMMA ReactsAgrees ==
    ASSUME FrontendInv, AgreeInv, page = "workspace", NEW c, IsCache(c, Born), Turns(cache, c),
           Reacts(c)
    PROVE  AgreeInv'
<1>1. /\ UNCHANGED <<scenario, api, bounds, dragging>> /\ ViewReacts(c) /\ CanvasDraws(c, bounds)
  BY DEF Reacts, CanvasReacts
<1>2. PICK s, p, rs, obs : s = shown /\ p = panel /\ rs = requests /\ obs = observed
  OBVIOUS
<1>3. Draw(s, c, p, rs, obs) /\ s \in 0..MaxId /\ rs \in Seq(RequestSet)
  BY <1>1, <1>2, PanelKeeps DEF ViewReacts, Draw, AllSound
<1>4. Stands(rs, c)
  <2>1. Onward(rs, rs)
    BY OnwardSelf
  <2> QED
    BY <1>2, <2>1, OnwardStands
<1>5. Window(bounds) \in observed => Window(bounds) \in obs
  BY <1>2
<1> QED
  BY <1>1, <1>3, <1>4, <1>5, DrawnAgrees

LEMMA CacheAgrees ==
    ASSUME FrontendInv, AgreeInv, page = "workspace", Cache
    PROVE  AgreeInv'
<1>1. IsCache(cache, Born) /\ observed \subseteq Keys
  BY PanelKeeps
<1>2. PICK old : old = cache
  OBVIOUS
<1>3. ASSUME NEW k \in observed, Arrives(k) PROVE AgreeInv'
  <2>1. PICK c : c = Received(old, k)
    OBVIOUS
  <2>2. k \in Keys /\ old[k].wire \notin {Idle, Asked} /\ IsCache(old, Born) /\ Reacts(c)
    BY <1>1, <1>2, <1>3, <2>1 DEF Arrives
  <2>3. IsCache(c, Born) /\ Turns(old, c)
    BY <2>1, <2>2, CacheStepType, ReceivedTurns
  <2>4. Turns(cache, c)
    BY <1>2, <2>3
  <2> QED
    BY <2>2, <2>3, <2>4, ReactsAgrees
<1>4. ASSUME NEW c, IsCache(c, Born), Lags(old, c), Reacts(c) PROVE AgreeInv'
  <2>1. Turns(old, c)
    BY <1>4, LagsTurn
  <2>2. Turns(cache, c)
    BY <1>2, <2>1
  <2> QED
    BY <1>4, <2>2, ReactsAgrees
<1>5. PICK j \in Keys : TRUE
  BY KeyIn, FrontendAssumption
<1>6. IsCache(old, Born)
  BY <1>1, <1>2
<1>7. \A k \in Keys : \A kinds :
         /\ IsCache(Unanswered(old, k), Born) /\ Lags(old, Unanswered(old, k))
         /\ IsCache(Aged(old, kinds), Born) /\ Lags(old, Aged(old, kinds))
         /\ IsCache(Refocused(old), Born) /\ Lags(old, Refocused(old))
  BY <1>6, CacheStepType, CacheLags
<1>8. ASSUME NEW k \in observed, FetchFails(k) PROVE AgreeInv'
  <2>1. PICK c : c = Unanswered(old, k)
    OBVIOUS
  <2>2. Reacts(c) /\ k \in Keys
    BY <1>1, <1>2, <1>8, <2>1 DEF FetchFails
  <2> QED
    BY <1>4, <1>7, <2>1, <2>2
<1>9. ASSUME NEW kinds, TimePasses(kinds) PROVE AgreeInv'
  <2>1. PICK c : c = Aged(old, kinds)
    OBVIOUS
  <2>2. Reacts(c)
    BY <1>2, <1>9, <2>1 DEF TimePasses
  <2> QED
    BY <1>4, <1>5, <1>7, <2>1, <2>2
<1>10. ASSUME Refocus PROVE AgreeInv'
  <2>1. PICK c : c = Refocused(old)
    OBVIOUS
  <2>2. Reacts(c)
    BY <1>2, <1>10, <2>1 DEF Refocus
  <2> QED
    BY <1>4, <1>5, <1>7, <2>1, <2>2
<1> QED
  BY <1>3, <1>8, <1>9, <1>10 DEF Cache

-----------------------------------------------------------------------------
(* Gestures that leave the canvas as it is                                 *)

LEMMA StillAgrees ==
    ASSUME FrontendInv, AgreeInv, page = "workspace", UNCHANGED <<scenario, api, queries>>,
           Kept, \A i, j \in dragging' : i = j, NEW rs, rs = requests, Onward(rs, requests')
    PROVE  AgreeInv'
<1>1. PICK d, ts, b, old : d = cache' /\ ts = requests' /\ b = bounds /\ old = cache
  OBVIOUS
<1>2. b \in DOMAIN Area /\ b = bounds' /\ Window(b) \in observed'
  BY <1>1, PanelKeeps DEF CanvasInv, Kept, AgreeInv, CanvasAlone, queries
<1>3. d = old /\ Turns(old, old)
  BY <1>1, LagsSelf DEF queries
<1>4. Stands(ts, d)
  BY <1>1, OnwardStands
<1>5. Turns(cache, d) /\ d[Window(b)].data = cache[Window(b)].data
  BY <1>1, <1>3
<1> QED
  BY <1>1, <1>2, <1>4, <1>5, CanvasOn DEF Stands

LEMMA GestureAgrees ==
    ASSUME FrontendInv, AgreeInv, page = "workspace", UNCHANGED <<scenario, api, canvas>>,
           NEW s \in 0..MaxId, NEW p, NEW dialog,
           \/ Draw(s, cache, p, requests, observed)
           \/ Draw(s, cache, p, Forget(requests, dialog), observed)
    PROVE  AgreeInv'
<1>1. PICK c, rs, obs, fs : c = cache /\ rs = requests /\ obs = observed /\ fs = Forget(rs, dialog)
  OBVIOUS
<1>2. IsCache(c, Born) /\ rs \in Seq(RequestSet)
  BY <1>1, PanelKeeps DEF AllSound
<1>3. Onward(rs, fs) /\ fs \in Seq(RequestSet) /\ Onward(rs, rs)
  BY <1>1, <1>2, ForgetOnward, OnwardSelf
<1>4. Stands(rs, c) /\ Stands(fs, c)
  BY <1>1, <1>3, OnwardStands
<1>5. Draw(s, c, p, rs, obs) \/ Draw(s, c, p, fs, obs)
  BY <1>1 DEF Draw
<1>6. PICK ts \in {rs, fs} : Draw(s, c, p, ts, obs)
  BY <1>5
<1>7. Turns(cache, c) /\ (Window(bounds) \in observed => Window(bounds) \in obs)
  <2>1. Turns(c, c)
    BY LagsSelf
  <2> QED
    BY <1>1, <2>1
<1>8. ts \in Seq(RequestSet) /\ Stands(ts, c)
  BY <1>3, <1>4, <1>2
<1>9. UNCHANGED <<bounds, dragging>>
  BY DEF canvas
<1> QED
  BY <1>1, <1>2, <1>6, <1>7, <1>8, <1>9, DrawnAgrees

LEMMA KeepsCanvas ==
    ASSUME UNCHANGED canvas, AgreeInv, page = "workspace"
    PROVE  Kept /\ \A i, j \in dragging' : i = j
  BY DEF Kept, canvas, AgreeInv, CanvasAlone

LEMMA SendAgrees ==
    ASSUME FrontendInv, AgreeInv, page = "workspace", UNCHANGED <<scenario, api, queries, canvas>>,
           NEW q, Send(q), ~Draws(q)
    PROVE  AgreeInv'
<1>1. PICK rs : rs = requests
  OBVIOUS
<1>2. Onward(rs, requests')
  <2>1. Onward(requests, requests')
    BY SendOnward
  <2> QED
    BY <1>1, <2>1
<1>3. UNCHANGED canvas /\ UNCHANGED <<scenario, api, queries>>
  OBVIOUS
<1> QED
  BY <1>1, <1>2, <1>3, KeepsCanvas, StillAgrees

LEMMA ViewGestureAgrees ==
    ASSUME FrontendInv, AgreeInv, page = "workspace", ViewGesture
    PROVE  AgreeInv'
<1>1. /\ shown \in 0..MaxId /\ Targets \cup {0} \subseteq 0..MaxId
      /\ UNCHANGED canvas
  BY PanelKeeps, ZeroId, FrontendAssumption DEF Targets, FrontendInv, TablesInv, ViewGesture
<1>2. CASE \/ \E i \in Targets \cup {0} : Open(i)
           \/ OpenEditor \/ CloseEditor \/ CloseDialog
           \/ \E dialog \in {"edit", "retype", "delete", "link", "create"} : OpenDialog(dialog)
  <2>1. PICK s, p, dialog :
           /\ s \in 0..MaxId /\ UNCHANGED <<scenario, api>>
           /\ \/ Draw(s, cache, p, requests, observed)
              \/ Draw(s, cache, p, Forget(requests, dialog), observed)
    <3>1. CASE \E i \in Targets \cup {0} : Open(i)
      <4>1. PICK i \in 0..MaxId : Open(i)
        BY <1>1, <3>1
      <4> QED
        BY <4>1 DEF Open
    <3>2. CASE OpenEditor
      BY <1>1, <3>2 DEF OpenEditor
    <3>3. CASE CloseEditor
      BY <1>1, <3>3 DEF CloseEditor
    <3>4. CASE CloseDialog
      BY <1>1, <3>4 DEF CloseDialog
    <3>5. CASE \E dialog \in {"edit", "retype", "delete", "link", "create"} : OpenDialog(dialog)
      BY <1>1, <3>5 DEF OpenDialog
    <3> QED
      BY <1>2, <3>1, <3>2, <3>3, <3>4, <3>5
  <2> QED
    BY <1>1, <2>1, GestureAgrees
<1>3. CASE \/ \E t \in Typed : Save(t) \/ UploadFile(t)
           \/ ConfirmDelete \/ AddChild
           \/ \E j \in Targets : ConfirmLink(j) \/ Unlink(j)
  <2>1. PICK op, i, j, v, by :
           /\ Send(Request(op, i, j, v, by)) /\ UNCHANGED <<scenario, api, queries>>
           /\ op # "move" /\ by # "canvas"
    <3>1. CASE \E t \in Typed : Save(t) \/ UploadFile(t)
      BY <3>1 DEF Save, UploadFile
    <3>2. CASE ConfirmDelete \/ AddChild
      BY <3>2 DEF ConfirmDelete, AddChild
    <3>3. CASE \E j \in Targets : ConfirmLink(j) \/ Unlink(j)
      BY <3>3 DEF ConfirmLink, Unlink
    <3> QED
      BY <1>3, <3>1, <3>2, <3>3
  <2>2. PICK q : q = Request(op, i, j, v, by)
    OBVIOUS
  <2>3. Send(q) /\ ~Draws(q)
    BY <2>1, <2>2 DEF Draws, Request
  <2> QED
    BY <1>1, <2>1, <2>3, SendAgrees
<1>4. CASE \E field \in Fields, v \in Typed : TypeIn(field, v)
  <2>1. PICK rs : rs = requests
    OBVIOUS
  <2>2. requests' = rs /\ UNCHANGED <<scenario, api, queries>>
    BY <1>4, <2>1 DEF TypeIn
  <2>3. Onward(rs, rs)
    BY OnwardSelf
  <2> QED
    BY <1>1, <2>1, <2>2, <2>3, KeepsCanvas, StillAgrees
<1>5. CASE SubmitForm
  <2>1. UNCHANGED <<scenario, api>>
    BY <1>5 DEF SubmitForm
  <2>2. CASE \E i, v : Send(Request("patch", i, i, v, "dialog")) /\ UNCHANGED queries
    <3>1. PICK i, v : Send(Request("patch", i, i, v, "dialog")) /\ UNCHANGED queries
      BY <2>2
    <3>2. PICK q : q = Request("patch", i, i, v, "dialog")
      OBVIOUS
    <3>3. Send(q) /\ ~Draws(q)
      BY <3>1, <3>2 DEF Draws, Request
    <3> QED
      BY <1>1, <2>1, <3>1, <3>3, SendAgrees
  <2>3. CASE Draw(shown, cache, [panel EXCEPT !.dialog = "none"], requests, observed)
    <3>1. PICK s, p : s = shown /\ p = [panel EXCEPT !.dialog = "none"]
      OBVIOUS
    <3>2. Draw(s, cache, p, requests, observed) /\ s \in 0..MaxId
      BY <1>1, <2>3, <3>1
    <3> QED
      BY <1>1, <2>1, <3>2, GestureAgrees
  <2> QED
    BY <1>5, <2>2, <2>3 DEF SubmitForm
<1> QED
  BY <1>2, <1>3, <1>4, <1>5 DEF ViewGesture

-----------------------------------------------------------------------------
(* Callbacks                                                               *)

LEMMA SettledLags ==
    ASSUME NEW B, NEW c, IsCache(c, B), NEW q
    PROVE  Lags(c, Settled(c, q))
<1> DEFINE gone == {<<"node", q.key>>, <<"content", q.key>>}
<1>1. PICK d, keys : /\ d = IF q.op = "delete" THEN Removed(c, gone) ELSE c
                     /\ keys = Outdated(q)
  OBVIOUS
<1>2. IsCache(d, B) /\ Lags(c, d)
  BY <1>1, RemovedType, CacheLags, LagsSelf
<1>3. Lags(d, Invalidate(d, keys, observed))
  BY <1>2, CacheLags
<1>4. Lags(c, Invalidate(d, keys, observed))
  BY <1>2, <1>3, LagsOn
<1>5. Settled(c, q) = c \/ Settled(c, q) = Invalidate(d, keys, observed)
  BY <1>1 DEF Settled, Succeeded
<1> QED
  BY <1>4, <1>5, LagsSelf

\* Nothing of a window that was fetched before a link changed or a node went is
\* taken for fresh.
LEMMA ToldNow ==
    ASSUME FrontendInv, NEW q, q.step = "ok", q.op \in {"link", "unlink", "delete"}, ~Untold(q),
           NEW b \in DOMAIN Area
    PROVE  Told(Settled(cache, q)[Window(b)])
<1> DEFINE gone == {<<"node", q.key>>, <<"content", q.key>>}
<1>1. PICK k, c, d, keys : /\ k = Window(b) /\ c = cache /\ keys = Outdated(q)
                           /\ d = IF q.op = "delete" THEN Removed(c, gone) ELSE c
  OBVIOUS
<1>2. k \in Keys /\ k \notin gone
  BY <1>1, WindowKey
<1>3. k \in keys
  <2>1. Kind("viewport") \subseteq keys
    <3>1. Kind("viewport") \subseteq Keys
      BY DEF Keys
    <3> QED
      BY <1>1, <3>1 DEF Outdated, invalidateLinkCaches, useUnlinkNodes, useDeleteNode
  <2>2. k \in Kind("viewport")
    BY <1>1 DEF Window, Kind
  <2> QED
    BY <2>1, <2>2
<1>4. c[k] \in Entry(k, Born) /\ (c[k].wire # Idle => k \in observed)
  BY <1>1, <1>2, PanelKeeps DEF IsCache, Quiet
<1>5. c[k].data = NoData /\ k \in observed => c[k].wire \in {Idle, Asked}
  BY <1>1, <1>3 DEF Untold, FirstLoad
<1>6. d[k] = c[k]
  BY <1>1, <1>2 DEF Removed
<1>7. Settled(cache, q)[k] =
        IF c[k].data # NoData \/ (k \in observed /\ ~Fetching(c, k))
        THEN [(IF k \in observed THEN Fetch(c[k]) ELSE c[k]) EXCEPT !.stale = TRUE]
        ELSE c[k]
  <2>1. Settled(cache, q) = Invalidate(d, keys, observed)
    BY <1>1 DEF Settled, Succeeded
  <2>2. Fetching(d, k) <=> Fetching(c, k)
    BY <1>6 DEF Fetching
  <2> QED
    BY <1>2, <1>3, <1>6, <2>1, <2>2 DEF Invalidate
<1>8. PICK e : e = c[k] /\ e \in Entry(k, Born)
  BY <1>4
<1>9. CASE c[k].data # NoData \/ (k \in observed /\ ~Fetching(c, k))
  <2>1. [e EXCEPT !.stale = TRUE].stale = TRUE /\ [e EXCEPT !.stale = TRUE].wire = e.wire
    BY <1>8 DEF Entry
  <2>2. [Fetch(e) EXCEPT !.stale = TRUE].stale = TRUE /\ [Fetch(e) EXCEPT !.stale = TRUE].wire = Asked
    <3>1. PICK f : f = Fetch(e)
      OBVIOUS
    <3>2. f \in Entry(k, Born) /\ f.wire = Asked
      BY <1>8, <3>1 DEF Fetch, Entry
    <3>3. [f EXCEPT !.stale = TRUE].stale = TRUE /\ [f EXCEPT !.stale = TRUE].wire = f.wire
      BY <3>2 DEF Entry
    <3> QED
      BY <3>1, <3>2, <3>3
  <2>3. CASE k \in observed
    BY <1>1, <1>7, <1>8, <1>9, <2>2, <2>3 DEF Told
  <2>4. CASE k \notin observed
    BY <1>1, <1>4, <1>7, <1>8, <1>9, <2>1, <2>4 DEF Told
  <2> QED
    BY <2>3, <2>4
<1>10. CASE ~(c[k].data # NoData \/ (k \in observed /\ ~Fetching(c, k)))
  BY <1>1, <1>4, <1>5, <1>7, <1>10 DEF Told
<1> QED
  BY <1>9, <1>10

\* What the callbacks of r leave.
LEMMA SettledStands ==
    ASSUME FrontendInv, NEW r \in DOMAIN requests, Callbacks(r)
    PROVE  Stands(Done(r), Settled(cache, requests[r]))
<1>1. PICK q, rs, ts, d : /\ q = requests[r] /\ rs = requests /\ ts = Done(r)
                          /\ d = Settled(cache, q)
  OBVIOUS
<1>2. requests \in Seq(RequestSet) /\ q \in RequestSet
  BY <1>1, PanelKeeps, RequestSeq DEF AllSound
<1>3. /\ DOMAIN ts = DOMAIN rs /\ \A o \in DOMAIN rs \ {r} : ts[o] = rs[o]
      /\ Kin(q, ts[r]) /\ ts[r].step = IF q.step = "ok" THEN "done" ELSE "failed"
      /\ ts[r].gap = (q.gap \/ (q.step = "ok" /\ Untold(q)))
  BY <1>1, <1>2, DoneType DEF Follows
<1>4. ASSUME ~Hopeless(ts) PROVE Stands(ts, d)
  <2>1. \A o \in DOMAIN ts : ~Stuck(ts[o])
    BY <1>4 DEF Hopeless
  <2>2. ~Stuck(ts[r])
    BY <1>1, <1>3, <2>1
  <2>3. ts[r].step = "done" /\ q.step = "ok" /\ ts[r].gap = FALSE
    <3>1. ts[r].gap \in BOOLEAN
      BY <1>2, <1>3 DEF RequestSet, Untold, FirstLoad
    <3> QED
      BY <1>3, <2>2, <3>1 DEF Stuck
  <2>4. ~q.gap /\ ~Untold(q)
    BY <1>3, <2>3
  <2>5. ~Hopeless(rs)
    <3>1. ~Stuck(q)
      BY <2>3, <2>4 DEF Stuck
    <3> QED
      BY <1>1, <1>3, <2>1, <3>1 DEF Hopeless
  <2>6. q.op \in {"link", "unlink", "delete"} => \A b \in DOMAIN Area : Told(d[Window(b)])
    BY <1>1, <2>3, <2>4, ToldNow
  <2>7. Advance(q, ts[r], d)
    BY <1>3, <2>3, <2>6 DEF Advance
  <2>8. Advances(rs, ts, d) /\ NoneDraws(rs, ts)
    BY <1>1, <1>3, <2>7 DEF Advances, Advance, Kin, NoneDraws
  <2> QED
    BY <1>1, <2>5, <2>8 DEF Stands
<1> QED
  BY <1>1, <1>4 DEF Stands

\* The canvas and its panel after the callbacks of r.
LEMMA SettlesAgree ==
    ASSUME FrontendInv, AgreeInv, page = "workspace", NEW r \in DOMAIN requests, Callbacks(r),
           UNCHANGED <<scenario, api, bounds, dragging>>,
           NEW c, c = Settled(cache, requests[r]), NEW s \in 0..MaxId, NEW p, NEW obs,
           NEW ts \in Seq(RequestSet), Onward(Done(r), ts), Draw(s, c, p, ts, obs),
           Window(bounds) \in observed => Window(bounds) \in obs,
           CanvasDraws(c, bounds) \/ CanvasDraws(cache', bounds)
    PROVE  AgreeInv'
<1>1. PICK q, old, rs : q = requests[r] /\ old = cache /\ rs = Done(r)
  OBVIOUS
<1>2. q \in RequestSet /\ IsCache(old, Born) /\ c = Settled(old, q)
  BY <1>1, SoundDone, PanelKeeps
<1>3. IsCache(c, Born)
  BY <1>1, <1>2, SettledType
<1>4. Turns(cache, c)
  <2>1. Lags(old, c)
    BY <1>2, SettledLags
  <2>2. Turns(old, c)
    BY <2>1, LagsTurn
  <2> QED
    BY <1>1, <2>2
<1>5. Stands(ts, c)
  <2>1. Stands(rs, c) /\ Onward(rs, ts)
    BY <1>1, SettledStands
  <2>2. Lags(c, c)
    BY LagsSelf
  <2> QED
    BY <2>1, <2>2, StandsOn
<1> QED
  BY <1>3, <1>4, <1>5, DrawnAgrees

LEMMA PanelSettlesAgrees ==
    ASSUME FrontendInv, AgreeInv, page = "workspace", NEW r \in DOMAIN requests, PanelSettles(r)
    PROVE  AgreeInv'
<1>1. PICK q, old, dialog : q = requests[r] /\ old = Done(r) /\ dialog = panel.dialog
  OBVIOUS
<1>2. PICK s, c, p, obs, rs, ts :
         /\ s = NextShown(q) /\ c = Settled(cache, q) /\ Draw(s, c, p, ts, obs)
         /\ observed \ {<<"node", q.key>>, <<"content", q.key>>} \subseteq obs
         /\ rs = old \/ rs = Forget(old, dialog)
         /\ ts = IF q.step = "ok" /\ q.op = "create" THEN Append(rs, handleChildCreated(q)) ELSE rs
         /\ q.by \in Views /\ Callbacks(r) /\ UNCHANGED <<scenario, api>>
  <2> DEFINE q1 == requests[r]
             ok == q1.step = "ok"
             closes == ok /\ q1.host # "left" /\ panel.dialog = DialogOf(q1)
             saved == ok /\ q1.by = "editor" /\ page = "wiki" /\ q1.host = "mounted"
             removed == IF ok /\ q1.op = "delete" THEN {<<"node", q1.key>>, <<"content", q1.key>>} ELSE {}
             rs1 == IF closes THEN Forget(Done(r), panel.dialog) ELSE Done(r)
             p1 == [panel EXCEPT !.dialog = IF closes THEN "none" ELSE @,
                                 !.edit = @ /\ ~saved, !.compose = @ /\ ~saved]
             ts1 == IF ok /\ q1.op = "create" THEN Append(rs1, handleChildCreated(q1)) ELSE rs1
  <2>1. /\ Draw(NextShown(q1), Settled(cache, q1), p1, ts1, observed \ removed)
        /\ q1.by \in Views /\ Callbacks(r) /\ UNCHANGED <<scenario, api>>
    BY DEF PanelSettles, ViewSettles, Views
  <2>2. rs1 = Done(r) \/ rs1 = Forget(Done(r), panel.dialog)
    OBVIOUS
  <2>3. ts1 = IF q1.step = "ok" /\ q1.op = "create" THEN Append(rs1, handleChildCreated(q1)) ELSE rs1
    OBVIOUS
  <2>4. observed \ {<<"node", q1.key>>, <<"content", q1.key>>} \subseteq observed \ removed
    OBVIOUS
  <2> HIDE DEF p1, ts1, rs1, removed
  <2> QED
    BY <1>1, <2>1, <2>2, <2>3, <2>4
<1>3. old \in Seq(RequestSet) /\ q \in RequestSet /\ Sound(q, page, Born) /\ AllSound(old)
  BY <1>1, SoundDone DEF AllSound
<1>4. Onward(old, rs) /\ AllSound(rs)
  <2>1. Onward(old, Forget(old, dialog)) /\ Follows(old, Forget(old, dialog))
        /\ DOMAIN Forget(old, dialog) = DOMAIN old
    BY <1>3, ForgetOnward, ForgetType
  <2>2. AllSound(Forget(old, dialog))
    BY <1>3, <2>1, SoundFollows
  <2> QED
    BY <1>2, <1>3, <2>1, <2>2, OnwardSelf
<1>5. Onward(old, ts) /\ ts \in Seq(RequestSet)
  <2>1. CASE q.step = "ok" /\ q.op = "create"
    <3>1. PICK child : child = handleChildCreated(q)
      OBVIOUS
    <3>2. ts = Append(rs, child) /\ rs \in Seq(RequestSet)
      BY <1>2, <1>4, <2>1, <3>1 DEF AllSound
    <3>3. ~Draws(child)
      BY <3>1 DEF handleChildCreated, Request, Draws
    <3>4. Onward(rs, ts)
      BY <3>2, <3>3, AppendOnward
    <3>5. AllSound(Append(rs, handleChildCreated(q)))
      BY <1>2, <1>3, <1>4, <2>1, SoundNext
    <3>6. AllSound(ts)
      BY <3>1, <3>2, <3>5
    <3> QED
      BY <1>4, <3>4, <3>6, OnwardOn DEF AllSound
  <2>2. CASE ~(q.step = "ok" /\ q.op = "create")
    BY <1>2, <1>4, <2>2 DEF AllSound
  <2> QED
    BY <2>1, <2>2
<1>6. s \in 0..MaxId
  BY <1>2, <1>3, PanelKeeps, ZeroId DEF NextShown, RequestSet
<1>7. Window(bounds) \in observed => Window(bounds) \in obs
  <2>1. bounds \in DOMAIN Area
    BY PanelKeeps DEF CanvasInv
  <2> QED
    BY <1>2, <2>1, WindowKey
<1>8. CanvasDraws(cache', bounds) /\ UNCHANGED <<bounds, dragging>>
  BY DEF PanelSettles
<1>9. c = Settled(cache, requests[r]) /\ Onward(Done(r), ts)
  BY <1>1, <1>2, <1>5
<1> QED
  BY <1>2, <1>5, <1>6, <1>7, <1>8, <1>9, SettlesAgree

LEMMA CanvasSettlesAgrees ==
    ASSUME FrontendInv, AgreeInv, page = "workspace", NEW r \in DOMAIN requests, CanvasSettles(r)
    PROVE  AgreeInv'
<1>1. PICK q, old, obs : q = requests[r] /\ old = Done(r) /\ obs = observed
  OBVIOUS
<1>2. PICK s, c, p, ts :
         /\ Draw(s, c, p, ts, obs) /\ s \in {q.node, shown} /\ c = Settled(cache, q)
         /\ ts = IF q.step = "ok" /\ q.op = "create" /\ q.by = "drop"
                 THEN Append(old, Request("raw", q.node, q.node, [text |-> Created.name], "drop"))
                 ELSE old
         /\ q.by \in {"canvas", "drop"} /\ Callbacks(r)
         /\ UNCHANGED <<scenario, api, bounds, dragging>>
  BY <1>1 DEF CanvasSettles
<1>3. CanvasDraws(c, bounds)
  <2>1. CanvasDraws(Settled(cache, requests[r]), bounds)
    BY DEF CanvasSettles
  <2> QED
    BY <1>1, <1>2, <2>1
<1>4. old \in Seq(RequestSet) /\ q \in RequestSet /\ Sound(q, page, Born) /\ AllSound(old)
  BY <1>1, SoundDone DEF AllSound
<1>5. s \in 0..MaxId
  BY <1>2, <1>4, PanelKeeps DEF RequestSet
<1>6. ts \in Seq(RequestSet)
  BY <1>2, <1>4, SoundNext DEF AllSound
<1>7. Onward(old, ts)
  <2>1. PICK raw : raw = Request("raw", q.node, q.node, [text |-> Created.name], "drop")
    OBVIOUS
  <2>2. ~Draws(raw)
    BY <2>1 DEF Request, Draws
  <2>3. Onward(old, Append(old, raw)) /\ Onward(old, old)
    BY <1>4, <2>2, AppendOnward, OnwardSelf
  <2> QED
    BY <1>2, <2>1, <2>3
<1>8. c = Settled(cache, requests[r]) /\ Onward(Done(r), ts)
      /\ (Window(bounds) \in observed => Window(bounds) \in obs)
  BY <1>1, <1>2, <1>7
<1> QED
  BY <1>2, <1>3, <1>5, <1>6, <1>8, SettlesAgree

-----------------------------------------------------------------------------
(* Gestures on the canvas                                                  *)

\* The requests there were are there still.
Keeps(rs, ts) ==
    /\ DOMAIN rs \subseteq DOMAIN ts
    /\ \A r \in DOMAIN rs : Kin(rs[r], ts[r]) /\ ts[r].step = rs[r].step /\ ts[r].gap = rs[r].gap

LEMMA KeepsSent ==
    ASSUME NEW rs \in Seq(RequestSet), NEW q
    PROVE  /\ Keeps(rs, Append(rs, q))
           /\ \E n \in DOMAIN Append(rs, q) : /\ Append(rs, q)[n] = q
                                              /\ DOMAIN Append(rs, q) \ DOMAIN rs = {n}
<1>1. PICK ts : ts = Append(rs, q)
  OBVIOUS
<1>2. /\ DOMAIN ts = DOMAIN rs \cup {Len(rs) + 1}
      /\ \A r \in DOMAIN rs : ts[r] = rs[r]
      /\ ts[Len(rs) + 1] = q
  BY <1>1, SentInSeq
<1>3. Len(rs) + 1 \notin DOMAIN rs
  BY RequestSeq
<1>4. Keeps(rs, ts) /\ \E n \in DOMAIN ts : ts[n] = q /\ DOMAIN ts \ DOMAIN rs = {n}
  BY <1>2, <1>3 DEF Keeps, Kin
<1> QED
  BY <1>1, <1>4

LEMMA KeepsOn ==
    ASSUME NEW rs, NEW ts, Keeps(rs, ts), NEW c
    PROVE  Advances(rs, ts, c) /\ (Hopeless(rs) => Hopeless(ts))
  BY DEF Keeps, Advances, Advance, Hopeless, Stuck

\* An edge is as it was, or as the answer has it, or what the gesture asks for.
AskedFor(l, rs, ts, e, R, L, E, F) ==
    \/ (\A o \in DOMAIN ts \ DOMAIN rs : ~Joins(ts[o], l)) /\ (l \in F <=> l \in E)
    \/ l \in F <=> l \in Edges(Drawn(e))
    \/ \E r \in DOMAIN ts : JoinedBy(r, l, ts, e, R, L, F)

\* So is a card.
MovedTo(i, rs, ts, R, C, D) ==
    \/ (\A o \in DOMAIN ts \ DOMAIN rs : ~Moves(ts[o], i)) /\ i \in DOMAIN C /\ D[i] = C[i]
    \/ \E r \in DOMAIN ts : MovedBy(r, i, ts, R, D[i])

LEMMA AskedEdges ==
    ASSUME NEW rs, NEW ts, Keeps(rs, ts), NEW c, NEW b \in DOMAIN Area, NEW e, e = c[Window(b)],
           NEW R, NEW L, NEW E, NEW F, EdgesAgree(rs, e, R, L, E),
           \A l \in Pairs : AskedFor(l, rs, ts, e, R, L, E, F)
    PROVE  EdgesAgree(ts, e, R, L, F)
<1> SUFFICES ASSUME NEW l \in Pairs, l \subseteq Ids(Drawn(e)), ~Behind(ts, l),
                    ~(l \in F <=> l \in Edges(Drawn(e))),
                    ~\E r \in DOMAIN ts : JoinedBy(r, l, ts, e, R, L, F)
             PROVE  FALSE
  BY DEF EdgesAgree
<1>1. (\A o \in DOMAIN ts \ DOMAIN rs : ~Joins(ts[o], l)) /\ (l \in F <=> l \in E)
  BY DEF AskedFor
<1>2. Advances(rs, ts, c)
  BY KeepsOn
<1>3. ~Behind(rs, l)
  BY <1>2, BehindOn
<1>4. PICK r \in DOMAIN rs : JoinedBy(r, l, rs, e, R, L, E)
  BY <1>1, <1>3 DEF EdgesAgree
<1>5. e.data # NoData
  <2>1. l # {}
    BY DEF Pairs
  <2> QED
    BY <2>1 DEF Drawn, Ids
<1>6. Turn(e, e)
  BY DEF Turn, Lag
<1> QED
  BY <1>1, <1>2, <1>4, <1>5, <1>6, JoinedOn

LEMMA MovedCards ==
    ASSUME NEW rs, NEW ts, Keeps(rs, ts), NEW c, NEW e, NEW R, NEW C, NEW D, CardsAgree(rs, e, R, C),
           \A i \in DOMAIN D : MovedTo(i, rs, ts, R, C, D)
    PROVE  CardsAgree(ts, e, R, D)
<1> SUFFICES ASSUME NEW i \in DOMAIN D \cap Ids(Drawn(e)), D[i] # Incoming(Drawn(e))[i],
                    ~\E r \in DOMAIN ts : MovedBy(r, i, ts, R, D[i])
             PROVE  FALSE
  BY DEF CardsAgree
<1>1. (\A o \in DOMAIN ts \ DOMAIN rs : ~Moves(ts[o], i)) /\ i \in DOMAIN C /\ D[i] = C[i]
  BY DEF MovedTo
<1>2. Advances(rs, ts, c)
  BY KeepsOn
<1>3. PICK r \in DOMAIN rs : MovedBy(r, i, rs, R, D[i])
  BY <1>1 DEF CardsAgree
<1> QED
  BY <1>1, <1>2, <1>3, MovedOn

\* A gesture that asks for what the canvas shows from then on.
LEMMA AsksAgree ==
    ASSUME FrontendInv, AgreeInv, page = "workspace", UNCHANGED <<scenario, api, queries, bounds>>,
           \A i, j \in dragging' : i = j, NEW rs, NEW ts, rs = requests, ts = requests', Keeps(rs, ts),
           NEW e, NEW R, NEW L, NEW E, NEW F, NEW C, NEW D,
           e = cache[Window(bounds)], R = rows, L = links, E = edges, F = edges',
           C = Resting, D = Resting',
           ~Hopeless(ts) => /\ \A l \in Pairs : AskedFor(l, rs, ts, e, R, L, E, F)
                            /\ \A i \in DOMAIN D : MovedTo(i, rs, ts, R, C, D)
    PROVE  AgreeInv'
<1>1. CanvasAlone'
  BY DEF AgreeInv, CanvasAlone, queries
<1>2. CASE Hopeless(ts)
  BY <1>1, <1>2 DEF AgreeInv
<1>3. ASSUME ~Hopeless(ts) PROVE Agrees'
  <2>1. PICK c, b : c = cache /\ b = bounds
    OBVIOUS
  <2>2. b \in DOMAIN Area /\ e = c[Window(b)]
    BY <2>1, PanelKeeps DEF CanvasInv
  <2>3. ~Hopeless(rs) /\ Advances(rs, ts, c)
    BY <1>3, KeepsOn
  <2>4. EdgesAgree(rs, e, R, L, E) /\ CardsAgree(rs, e, R, C) /\ NodesThere(rs, c, R)
    BY <2>1, <2>3 DEF AgreeInv, Agrees
  <2>5. (\A l \in Pairs : AskedFor(l, rs, ts, e, R, L, E, F))
        /\ \A i \in DOMAIN D : MovedTo(i, rs, ts, R, C, D)
    BY <1>3
  <2>6. EdgesAgree(ts, e, R, L, F)
    BY <2>2, <2>4, <2>5, AskedEdges
  <2>7. CardsAgree(ts, e, R, D)
    BY <2>4, <2>5, MovedCards
  <2>8. NodesThere(ts, c, R)
    <3>1. Turns(c, c)
      BY LagsSelf
    <3> QED
      BY <2>3, <2>4, <3>1, ThereOn
  <2>9. cache' = c /\ bounds' = b /\ rows' = R /\ links' = L
    BY <2>1 DEF queries, api
  <2> QED
    BY <2>1, <2>6, <2>7, <2>8, <2>9 DEF Agrees
<1> QED
  BY <1>1, <1>2, <1>3 DEF AgreeInv

\* What the canvas has asked for before is done, unless something went wrong.
LEMMA DoneBefore ==
    ASSUME NEW rs, rs = requests, ~Hopeless(rs), NEW l, ~Underway(l), NEW o \in DOMAIN rs,
           rs[o].by = "canvas", {rs[o].node, rs[o].other} = l
    PROVE  rs[o].step = "done"
  BY DEF Underway, InFlight, Hopeless, Stuck

\* No card is under the mouse, and none goes anywhere.
LEMMA CardsStay ==
    ASSUME NEW rs, NEW ts, NEW R, NEW C, NEW D, C = Resting, D = Resting',
           dragging' = dragging, DOMAIN cards' \subseteq DOMAIN cards,
           \A i \in DOMAIN cards' : cards'[i] = cards[i],
           \A o \in DOMAIN ts \ DOMAIN rs : ts[o].op # "move"
    PROVE  \A i \in DOMAIN D : MovedTo(i, rs, ts, R, C, D)
<1>1. /\ DOMAIN C = DOMAIN cards \ dragging /\ \A i \in DOMAIN C : C[i] = cards[i]
      /\ DOMAIN D = DOMAIN cards' \ dragging' /\ \A i \in DOMAIN D : D[i] = cards'[i]
  BY RestingCards DEF Resting
<1> QED
  BY <1>1 DEF MovedTo, Moves

LEMMA PanAgrees ==
    ASSUME FrontendInv, AgreeInv, page = "workspace", NEW b \in DOMAIN Area, Pan(b)
    PROVE  AgreeInv'
<1>1. PICK old, new, d, ts :
         /\ old = cache /\ new = (observed \ {Window(bounds)}) \cup {Window(b)}
         /\ d = Sync(observed, new, old) /\ ts = requests
  OBVIOUS
<1>2. /\ CanvasDraws(d, b) /\ bounds' = b /\ cache' = d /\ observed' = new
      /\ UNCHANGED <<scenario, api, requests, views, dragging, undo, creating>>
  BY <1>1 DEF Pan, Window
<1>3. IsCache(old, Born)
  BY <1>1, PanelKeeps
<1>4. Turns(old, d)
  <2>1. Lags(old, d)
    BY <1>1, <1>3, CacheLags
  <2> QED
    BY <2>1, LagsTurn
<1>5. Stands(ts, d)
  BY <1>1, OnwardSelf, OnwardStands
<1>6. Turns(cache, d) /\ ts = requests' /\ d = cache' /\ b = bounds' /\ Window(b) \in observed'
  BY <1>1, <1>2, <1>4
<1>7. \A i, j \in dragging' : i = j
  BY <1>2 DEF AgreeInv, CanvasAlone
<1>8. \/ Kept /\ d[Window(b)].data = cache[Window(b)].data
      \/ Anew(d[Window(b)])
  BY <1>2, DrawsKeptOrAnew
<1> QED
  BY <1>2, <1>5, <1>6, <1>7, <1>8, CanvasOn DEF Stands

LEMMA StillGestureAgrees ==
    ASSUME FrontendInv, AgreeInv, page = "workspace",
           \/ \E i \in NodeIds : DragStart(i)
           \/ \E p \in Places : PaneClick(p)
           \/ CancelCreate
    PROVE  AgreeInv'
<1>1. PICK rs : rs = requests
  OBVIOUS
<1>2. rs \in Seq(RequestSet) /\ \A i, j \in dragging : i = j
  BY <1>1, PanelKeeps DEF AllSound, AgreeInv, CanvasAlone
<1>3. UNCHANGED <<scenario, api, queries>>
  BY DEF DragStart, PaneClick, CancelCreate
<1>4. Kept /\ \A i, j \in dragging' : i = j
  BY <1>2 DEF DragStart, PaneClick, CancelCreate, Kept
<1>5. requests' = rs \/ requests' = Forget(rs, "create")
  BY <1>1 DEF DragStart, PaneClick, CancelCreate
<1>6. Onward(rs, rs) /\ Onward(rs, Forget(rs, "create"))
  BY <1>2, OnwardSelf, ForgetOnward
<1>7. Onward(rs, requests')
  BY <1>5, <1>6
<1> QED
  BY <1>1, <1>3, <1>4, <1>7, StillAgrees

LEMMA CreateGestureAgrees ==
    ASSUME FrontendInv, AgreeInv, page = "workspace",
           SubmitCreate \/ \E p \in Places : DropFile(p)
    PROVE  AgreeInv'
<1>1. PICK q, value : /\ \/ q = Request("create", 0, 0, value, "canvas")
                         \/ q = [Request("create", 0, 0, value, "drop") EXCEPT !.host = "detached"]
                      /\ Send(q) /\ UNCHANGED <<scenario, api, queries, canvas>>
  <2>1. CASE SubmitCreate
    BY <2>1 DEF SubmitCreate, Send
  <2>2. CASE \E p \in Places : DropFile(p)
    BY <2>2 DEF DropFile, Send
  <2> QED
    BY <2>1, <2>2
<1>2. q.op = "create"
  BY <1>1 DEF Request
<1>3. ~Draws(q)
  BY <1>2 DEF Draws
<1> QED
  BY <1>1, <1>3, SendAgrees

\* The request of a gesture accounts for its edge.
LEMMA JoinedNow ==
    ASSUME NEW rs, rs = requests, NEW ts, Keeps(rs, ts), ~Hopeless(ts), NEW l,
           NEW n \in DOMAIN ts \ DOMAIN rs, Joins(ts[n], l), ts[n].step = "sent",
           Underway(l) => ts[n].gap,
           \A o \in DOMAIN ts \ DOMAIN rs : Joins(ts[o], l) => o = n,
           NEW F, ts[n].op = "link" <=> l \in F, NEW e, NEW R, NEW L
    PROVE  JoinedBy(n, l, ts, e, R, L, F)
<1>1. ~Underway(l) /\ ~Hopeless(rs)
  BY KeepsOn DEF Hopeless, Stuck
<1>2. ASSUME NEW o \in DOMAIN ts \ {n}, Joins(ts[o], l) PROVE ts[o].step = "done"
  <2>1. o \in DOMAIN rs
    BY <1>2
  <2>2. Kin(rs[o], ts[o]) /\ ts[o].step = rs[o].step
    BY <2>1 DEF Keeps
  <2>3. rs[o].by = "canvas" /\ {rs[o].node, rs[o].other} = l
    BY <1>2, <2>2 DEF Joins, Kin
  <2> QED
    BY <1>1, <2>1, <2>2, <2>3, DoneBefore
<1> QED
  BY <1>2 DEF JoinedBy

\* So does that of a drag for its card.
LEMMA MovedNow ==
    ASSUME FrontendInv, NEW rs, rs = requests, NEW ts, Keeps(rs, ts), ~Hopeless(ts), NEW i,
           NEW n, DOMAIN ts \ DOMAIN rs = {n}, n \in DOMAIN ts, Moves(ts[n], i),
           ts[n].step = "sent", Underway({i}) => ts[n].gap, NEW R
    PROVE  MovedBy(n, i, ts, R, ts[n].value.place)
<1>1. ~Underway({i}) /\ ~Hopeless(rs)
  BY KeepsOn DEF Hopeless, Stuck
<1>2. ASSUME NEW o \in DOMAIN ts \ {n}, Moves(ts[o], i) PROVE ts[o].step = "done"
  <2>1. o \in DOMAIN rs
    BY <1>2
  <2>2. Kin(rs[o], ts[o]) /\ ts[o].step = rs[o].step
    BY <2>1 DEF Keeps
  <2>3. Sound(rs[o], page, Born)
    BY <2>1, PanelKeeps DEF AllSound
  <2>4. rs[o].by = "canvas" /\ {rs[o].node, rs[o].other} = {i}
    BY <1>2, <2>2, <2>3 DEF Moves, Kin, Sound
  <2> QED
    BY <1>1, <2>1, <2>2, <2>4, DoneBefore
<1> QED
  BY <1>2 DEF MovedBy

\* The canvas sends one request of two of its nodes.
LEMMA AsksOne ==
    ASSUME FrontendInv, NEW op, NEW i, NEW j, NEW value, NEW q, Send(q),
           Kin(Request(op, i, j, value, "canvas"), q), NEW rs, NEW ts, rs = requests, ts = requests'
    PROVE  /\ Keeps(rs, ts)
           /\ q.op = op /\ q.node = i /\ q.other = j /\ q.value = value /\ q.by = "canvas"
           /\ \E n \in DOMAIN ts : ts[n] = q /\ DOMAIN ts \ DOMAIN rs = {n}
<1>1. rs \in Seq(RequestSet) /\ ts = Append(rs, q)
  BY PanelKeeps DEF AllSound, Send
<1>2. q.op = op /\ q.node = i /\ q.other = j /\ q.value = value /\ q.by = "canvas"
  BY DEF Kin, Request
<1>3. /\ Keeps(rs, Append(rs, q))
      /\ \E n \in DOMAIN Append(rs, q) : /\ Append(rs, q)[n] = q
                                         /\ DOMAIN Append(rs, q) \ DOMAIN rs = {n}
  BY <1>1, KeepsSent
<1>4. /\ Keeps(rs, ts)
      /\ \E n \in DOMAIN ts : ts[n] = q /\ DOMAIN ts \ DOMAIN rs = {n}
  BY <1>1, <1>3
<1> QED
  BY <1>2, <1>4

LEMMA DragStopAgrees ==
    ASSUME FrontendInv, AgreeInv, page = "workspace", NEW i \in NodeIds, NEW p \in Places,
           DragStop(i, p)
    PROVE  AgreeInv'
<1>1. PICK rs, ts, e, R, L, E, F, C, D, q :
         /\ rs = requests /\ ts = requests' /\ e = cache[Window(bounds)] /\ R = rows /\ L = links
         /\ E = edges /\ F = edges' /\ C = Resting /\ D = Resting'
         /\ q = Asks("move", i, i, [place |-> p])
  OBVIOUS
<1>2. [place |-> p] \in Partials /\ "move" \in {"move", "link", "unlink"}
  BY SentValues
<1>3. /\ i \in dragging /\ dragging' = {} /\ cards' = [cards EXCEPT ![i] = p] /\ Send(q)
      /\ UNCHANGED <<scenario, api, queries, bounds>> /\ F = E
  BY <1>1 DEF DragStop, Send
<1>4. /\ Keeps(rs, ts)
      /\ q.op = "move" /\ q.node = i /\ q.other = i /\ q.value = [place |-> p] /\ q.by = "canvas"
      /\ q.step = "sent" /\ (Underway({i, i}) => q.gap)
      /\ \E n \in DOMAIN ts : ts[n] = q /\ DOMAIN ts \ DOMAIN rs = {n}
  <2>1. /\ Kin(Request("move", i, i, [place |-> p], "canvas"), q) /\ q.step = "sent"
        /\ (Underway({i, i}) => q.gap)
    BY <1>1, <1>2, AsksIn
  <2> QED
    BY <1>1, <1>3, <2>1, AsksOne
<1>5. PICK n \in DOMAIN ts : ts[n] = q /\ DOMAIN ts \ DOMAIN rs = {n}
  BY <1>4
<1>6. ASSUME ~Hopeless(ts), NEW l \in Pairs PROVE AskedFor(l, rs, ts, e, R, L, E, F)
  <2>1. \A o \in DOMAIN ts \ DOMAIN rs : ~Joins(ts[o], l)
    BY <1>4, <1>5 DEF Joins
  <2> QED
    BY <1>3, <2>1 DEF AskedFor
<1>7. ASSUME ~Hopeless(ts), NEW x \in DOMAIN D PROVE MovedTo(x, rs, ts, R, C, D)
  <2>1. /\ DOMAIN C = DOMAIN cards \ dragging /\ \A y \in DOMAIN C : C[y] = cards[y]
        /\ DOMAIN D = DOMAIN cards' \ dragging' /\ \A y \in DOMAIN D : D[y] = cards'[y]
    BY <1>1, RestingCards DEF Resting
  <2>2. dragging = {i} /\ x \in DOMAIN cards /\ i \in DOMAIN cards
    BY <1>3, <2>1, PanelKeeps DEF AgreeInv, CanvasAlone, CanvasInv
  <2>3. CASE x = i
    <3>1. D[x] = p
      BY <1>3, <2>1, <2>2, <2>3
    <3>2. Moves(ts[n], i) /\ ts[n].step = "sent" /\ ts[n].value.place = p
          /\ (Underway({i}) => ts[n].gap)
      BY <1>4, <1>5 DEF Moves
    <3>3. MovedBy(n, i, ts, R, ts[n].value.place)
      BY <1>1, <1>4, <1>5, <1>7, <3>2, MovedNow
    <3> QED
      BY <2>3, <3>1, <3>2, <3>3 DEF MovedTo
  <2>4. CASE x # i
    <3>1. x \in DOMAIN C /\ D[x] = C[x]
      BY <1>3, <2>1, <2>2, <2>4
    <3>2. \A o \in DOMAIN ts \ DOMAIN rs : ~Moves(ts[o], x)
      BY <1>4, <1>5, <2>4 DEF Moves
    <3> QED
      BY <3>1, <3>2 DEF MovedTo
  <2> QED
    BY <2>3, <2>4
<1>8. \A x, y \in dragging' : x = y
  BY <1>3
<1> QED
  BY <1>1, <1>3, <1>4, <1>6, <1>7, <1>8, AsksAgree

LEMMA ConnectAgrees ==
    ASSUME FrontendInv, AgreeInv, page = "workspace", NEW i \in NodeIds, NEW j \in NodeIds,
           Connect(i, j)
    PROVE  AgreeInv'
<1>1. PICK rs, ts, e, R, L, E, F, C, D, q :
         /\ rs = requests /\ ts = requests' /\ e = cache[Window(bounds)] /\ R = rows /\ L = links
         /\ E = edges /\ F = edges' /\ C = Resting /\ D = Resting'
         /\ q = Asks("link", i, j, <<>>)
  OBVIOUS
<1>2. <<>> \in Partials /\ "link" \in {"move", "link", "unlink"}
  BY SentValues
<1>3. /\ Send(q) /\ F = E \cup {{i, j}}
      /\ UNCHANGED <<scenario, api, queries, bounds, cards, dragging>>
  BY <1>1 DEF Connect, Send
<1>4. /\ Keeps(rs, ts)
      /\ q.op = "link" /\ q.node = i /\ q.other = j /\ q.by = "canvas"
      /\ q.step = "sent" /\ (Underway({i, j}) => q.gap)
      /\ \E n \in DOMAIN ts : ts[n] = q /\ DOMAIN ts \ DOMAIN rs = {n}
  <2>1. /\ Kin(Request("link", i, j, <<>>, "canvas"), q) /\ q.step = "sent"
        /\ (Underway({i, j}) => q.gap)
    BY <1>1, <1>2, AsksIn
  <2> QED
    BY <1>1, <1>3, <2>1, AsksOne
<1>5. PICK n \in DOMAIN ts : ts[n] = q /\ DOMAIN ts \ DOMAIN rs = {n}
  BY <1>4
<1>6. ASSUME ~Hopeless(ts), NEW l \in Pairs PROVE AskedFor(l, rs, ts, e, R, L, E, F)
  <2>1. CASE l = {i, j}
    <3>1. Joins(ts[n], l) /\ ts[n].op = "link" /\ l \in F /\ ts[n].step = "sent"
      BY <1>3, <1>4, <1>5, <2>1 DEF Joins
    <3>2. /\ n \in DOMAIN ts \ DOMAIN rs /\ (Underway(l) => ts[n].gap)
          /\ \A o \in DOMAIN ts \ DOMAIN rs : Joins(ts[o], l) => o = n
      BY <1>4, <1>5, <2>1
    <3>3. JoinedBy(n, l, ts, e, R, L, F)
      BY <1>1, <1>4, <1>6, <3>1, <3>2, JoinedNow
    <3> QED
      BY <3>3 DEF AskedFor
  <2>2. CASE l # {i, j}
    <3>1. \A o \in DOMAIN ts \ DOMAIN rs : ~Joins(ts[o], l)
      BY <1>4, <1>5, <2>2 DEF Joins
    <3> QED
      BY <1>3, <2>2, <3>1 DEF AskedFor
  <2> QED
    BY <2>1, <2>2
<1>7. \A x \in DOMAIN D : MovedTo(x, rs, ts, R, C, D)
  <2>1. \A o \in DOMAIN ts \ DOMAIN rs : ts[o].op # "move"
    BY <1>4, <1>5
  <2>2. /\ dragging' = dragging /\ DOMAIN cards' \subseteq DOMAIN cards
        /\ \A x \in DOMAIN cards' : cards'[x] = cards[x]
    BY <1>3
  <2> QED
    BY <1>1, <2>1, <2>2, CardsStay
<1>8. \A x, y \in dragging' : x = y
  BY <1>3 DEF AgreeInv, CanvasAlone
<1> QED
  BY <1>1, <1>3, <1>4, <1>6, <1>7, <1>8, AsksAgree

\* Edges are deleted, and perhaps a card with them.
LEMMA EdgesGoneAgrees ==
    ASSUME FrontendInv, AgreeInv, page = "workspace", NEW gone \in SUBSET Pairs, EdgesDeleted(gone),
           UNCHANGED <<scenario, api, queries, bounds, dragging>>, edges' = edges \ gone,
           DOMAIN cards' \subseteq DOMAIN cards, \A i \in DOMAIN cards' : cards'[i] = cards[i]
    PROVE  AgreeInv'
<1>1. PICK rs, ts, e, R, L, E, F, C, D :
         /\ rs = requests /\ ts = requests' /\ e = cache[Window(bounds)] /\ R = rows /\ L = links
         /\ E = edges /\ F = edges' /\ C = Resting /\ D = Resting'
  OBVIOUS
<1>2. AllSound(requests)
  BY PanelKeeps
<1>3. /\ Follows(requests, requests')
      /\ \A r \in DOMAIN requests' \ DOMAIN requests :
            requests'[r].by = "canvas" /\ \E l \in gone : Parts(requests'[r], l)
      /\ \A l \in gone : \E r \in DOMAIN requests' \ DOMAIN requests : Parts(requests'[r], l)
      /\ \A r, o \in DOMAIN requests' \ DOMAIN requests : \A l :
            Parts(requests'[r], l) /\ Parts(requests'[o], l) => r = o
      /\ \A r \in DOMAIN requests : /\ requests'[r].step = requests[r].step
                                    /\ requests'[r].gap = requests[r].gap
  BY <1>2, EdgesDeletedType
<1>4. Keeps(rs, ts)
  BY <1>1, <1>3 DEF Keeps, Follows
<1>5. \A r \in DOMAIN ts \ DOMAIN rs : \E l \in gone : Parts(ts[r], l)
  BY <1>1, <1>3
<1>6. \A l \in gone : \E r \in DOMAIN ts \ DOMAIN rs : Parts(ts[r], l)
  BY <1>1, <1>3
<1>7. \A r, o \in DOMAIN ts \ DOMAIN rs : \A l : Parts(ts[r], l) /\ Parts(ts[o], l) => r = o
  BY <1>1, <1>3
<1>8. F = E \ gone
  BY <1>1
<1>9. ASSUME ~Hopeless(ts), NEW l \in Pairs PROVE AskedFor(l, rs, ts, e, R, L, E, F)
  <2>1. CASE l \in gone
    <3>1. PICK n \in DOMAIN ts \ DOMAIN rs : Parts(ts[n], l)
      BY <1>6, <2>1
    <3>2. ASSUME NEW o \in DOMAIN ts \ DOMAIN rs, Joins(ts[o], l) PROVE o = n
      <4>1. PICK m \in gone : Parts(ts[o], m)
        BY <1>5
      <4>2. m = l
        BY <3>2, <4>1 DEF Joins, Parts
      <4> QED
        BY <1>7, <3>1, <4>1, <4>2
    <3>3. Joins(ts[n], l) /\ ts[n].op = "unlink" /\ ts[n].step = "sent" /\ (Underway(l) => ts[n].gap)
      BY <3>1 DEF Parts, Joins
    <3>4. ts[n].op = "link" <=> l \in F
      BY <1>8, <2>1, <3>3
    <3>5. JoinedBy(n, l, ts, e, R, L, F)
      BY <1>1, <1>4, <1>9, <3>2, <3>3, <3>4, JoinedNow
    <3> QED
      BY <3>5 DEF AskedFor
  <2>2. CASE l \notin gone
    <3>1. ASSUME NEW o \in DOMAIN ts \ DOMAIN rs, Joins(ts[o], l) PROVE FALSE
      <4>1. PICK m \in gone : Parts(ts[o], m)
        BY <1>5
      <4> QED
        BY <2>2, <3>1, <4>1 DEF Joins, Parts
    <3> QED
      BY <1>8, <2>2, <3>1 DEF AskedFor
  <2> QED
    BY <2>1, <2>2
<1>10. \A x \in DOMAIN D : MovedTo(x, rs, ts, R, C, D)
  <2>1. \A o \in DOMAIN ts \ DOMAIN rs : ts[o].op # "move"
    BY <1>5 DEF Parts
  <2>2. dragging' = dragging
    OBVIOUS
  <2> QED
    BY <1>1, <2>1, <2>2, CardsStay
<1>11. \A x, y \in dragging' : x = y
  BY DEF AgreeInv, CanvasAlone
<1>12. UNCHANGED <<scenario, api, queries, bounds>>
  OBVIOUS
<1> QED
  BY <1>1, <1>4, <1>9, <1>10, <1>11, <1>12, AsksAgree

LEMMA DeleteGestureAgrees ==
    ASSUME FrontendInv, AgreeInv, page = "workspace",
           \/ \E e \in Pairs : DeleteEdge(e)
           \/ \E i \in NodeIds : DeleteCard(i)
    PROVE  AgreeInv'
<1>1. edges \subseteq Pairs
  BY PanelKeeps DEF CanvasInv
<1>2. PICK gone \in SUBSET Pairs :
         /\ EdgesDeleted(gone) /\ edges' = edges \ gone
         /\ UNCHANGED <<scenario, api, queries, bounds, dragging>>
         /\ DOMAIN cards' \subseteq DOMAIN cards /\ \A i \in DOMAIN cards' : cards'[i] = cards[i]
  <2>1. CASE \E e \in Pairs : DeleteEdge(e)
    <3>1. PICK e \in Pairs : DeleteEdge(e)
      BY <2>1
    <3>2. {e} \in SUBSET Pairs /\ EdgesDeleted({e}) /\ edges' = edges \ {e}
          /\ UNCHANGED <<scenario, api, queries, bounds, dragging, cards>>
      BY <3>1 DEF DeleteEdge
    <3> QED
      BY <3>2
  <2>2. CASE \E i \in NodeIds : DeleteCard(i)
    <3>1. PICK i \in NodeIds : DeleteCard(i)
      BY <2>2
    <3>2. PICK gone : gone = {e \in edges : i \in e}
      OBVIOUS
    <3>3. /\ EdgesDeleted(gone) /\ edges' = edges \ gone
          /\ UNCHANGED <<scenario, api, queries, bounds, dragging>>
          /\ cards' = [j \in DOMAIN cards \ {i} |-> cards[j]]
      BY <3>1, <3>2 DEF DeleteCard
    <3>4. gone \in SUBSET Pairs
      BY <1>1, <3>2
    <3> QED
      BY <3>3, <3>4
  <2> QED
    BY <2>1, <2>2
<1> QED
  BY <1>2, EdgesGoneAgrees

WithGap(q, gap) == [q EXCEPT !.gap = gap]

LEMMA GapOnly ==
    ASSUME NEW q \in RequestSet, NEW gap \in BOOLEAN
    PROVE  Kin(q, WithGap(q, gap)) /\ WithGap(q, gap).step = q.step /\ WithGap(q, gap).gap = gap
  BY DEF WithGap, RequestSet, Kin

\* The edge that is linked again is not drawn yet, nor does the answer have it.
LEMMA UndoAgrees ==
    ASSUME FrontendInv, AgreeInv, page = "workspace", NEW u \in Pairs, Undo(u)
    PROVE  AgreeInv'
<1>1. PICK rs, ts, e, R, L, E, F, C, D, i, j, a, gap, q :
         /\ rs = requests /\ ts = requests' /\ e = cache[Window(bounds)] /\ R = rows /\ L = links
         /\ E = edges /\ F = edges' /\ C = Resting /\ D = Resting'
         /\ i = Min(u) /\ j = Max(u) /\ a = Asks("link", i, j, <<>>)
         /\ gap = (a.gap \/ u \in Edges(Listed(cache, bounds)))
         /\ q = WithGap(a, gap)
  OBVIOUS
<1>2. /\ <<>> \in Partials /\ "link" \in {"move", "link", "unlink"}
      /\ i \in NodeIds /\ j \in NodeIds /\ {i, j} = u
  BY <1>1, PairEnds, SentValues
<1>3. gap \in BOOLEAN /\ (a.gap => gap) /\ (u \in Edges(Drawn(e)) => gap)
  BY <1>1 DEF Listed, Drawn, Window
<1>4. /\ Kin(Request("link", i, j, <<>>, "canvas"), q) /\ q.step = "sent" /\ q.gap = gap
      /\ (a.gap <=> Underway({i, j}))
  <2>1. /\ a \in RequestSet /\ a.step = "sent" /\ (a.gap <=> Underway({i, j}))
        /\ Kin(Request("link", i, j, <<>>, "canvas"), a)
    BY <1>1, <1>2, AsksIn
  <2>2. Kin(a, q) /\ q.step = a.step /\ q.gap = gap
    BY <1>1, <1>3, <2>1, GapOnly
  <2> QED
    BY <2>1, <2>2 DEF Kin
<1>5. /\ Send(q) /\ F = E
      /\ UNCHANGED <<scenario, api, queries, bounds, cards, dragging>>
  <2>1. /\ Send(WithGap(Asks("link", Min(u), Max(u), <<>>),
                       Asks("link", Min(u), Max(u), <<>>).gap \/ u \in Edges(Listed(cache, bounds))))
        /\ UNCHANGED <<scenario, api, queries, bounds, cards, dragging, edges>>
    BY DEF Undo, WithGap
  <2> QED
    BY <1>1, <2>1
<1>6. /\ Keeps(rs, ts)
      /\ q.op = "link" /\ q.node = i /\ q.other = j /\ q.by = "canvas"
      /\ \E n \in DOMAIN ts : ts[n] = q /\ DOMAIN ts \ DOMAIN rs = {n}
  <2>1. rs = requests /\ ts = requests'
    BY <1>1
  <2>2. Kin(Request("link", i, j, <<>>, "canvas"), q) /\ Send(q)
    BY <1>4, <1>5
  <2> QED
    BY <2>1, <2>2, AsksOne
<1>7. PICK n \in DOMAIN ts : ts[n] = q /\ DOMAIN ts \ DOMAIN rs = {n}
  BY <1>6
<1>8. Joins(ts[n], u) /\ ts[n].op = "link" /\ ts[n].step = "sent" /\ (Underway(u) => ts[n].gap)
      /\ \A l : Joins(ts[n], l) => l = u
  BY <1>2, <1>3, <1>4, <1>6, <1>7 DEF Joins
<1>9. ASSUME ~Hopeless(ts), NEW l \in Pairs PROVE AskedFor(l, rs, ts, e, R, L, E, F)
  <2>1. ~gap
    BY <1>4, <1>7, <1>9 DEF Hopeless, Stuck
  <2>2. CASE l = u /\ l \in F
    <3>1. /\ n \in DOMAIN ts \ DOMAIN rs
          /\ \A o \in DOMAIN ts \ DOMAIN rs : Joins(ts[o], l) => o = n
          /\ (ts[n].op = "link" <=> l \in F)
      BY <1>7, <1>8, <2>2
    <3>2. Joins(ts[n], l) /\ ts[n].step = "sent" /\ (Underway(l) => ts[n].gap)
      BY <1>8, <2>2
    <3>3. JoinedBy(n, l, ts, e, R, L, F)
      BY <1>1, <1>6, <1>9, <3>1, <3>2, JoinedNow
    <3> QED
      BY <3>3 DEF AskedFor
  <2>3. CASE l = u /\ l \notin F
    BY <1>3, <2>1, <2>3 DEF AskedFor
  <2>4. CASE l # u
    BY <1>5, <1>7, <1>8, <2>4 DEF AskedFor
  <2> QED
    BY <2>2, <2>3, <2>4
<1>10. \A x \in DOMAIN D : MovedTo(x, rs, ts, R, C, D)
  <2>1. \A o \in DOMAIN ts \ DOMAIN rs : ts[o].op # "move"
    BY <1>6, <1>7
  <2>2. /\ dragging' = dragging /\ DOMAIN cards' \subseteq DOMAIN cards
        /\ \A x \in DOMAIN cards' : cards'[x] = cards[x]
    BY <1>5
  <2> QED
    BY <1>1, <2>1, <2>2, CardsStay
<1>11. \A x, y \in dragging' : x = y
  BY <1>5 DEF AgreeInv, CanvasAlone
<1>12. UNCHANGED <<scenario, api, queries, bounds>>
  BY <1>5
<1> QED
  BY <1>1, <1>6, <1>9, <1>10, <1>11, <1>12, AsksAgree

LEMMA CanvasGestureAgrees ==
    ASSUME FrontendInv, AgreeInv, CanvasGesture
    PROVE  AgreeInv'
<1>1. page = "workspace"
  BY DEF CanvasGesture
<1> QED
  BY <1>1, PanAgrees, StillGestureAgrees, DragStopAgrees, ConnectAgrees, DeleteGestureAgrees,
     UndoAgrees, CreateGestureAgrees DEF CanvasGesture

-----------------------------------------------------------------------------
(* The theorem                                                             *)

\* On the other pages there is no canvas.
LEMMA ElsewhereAgrees ==
    ASSUME page # "workspace", UNCHANGED scenario
    PROVE  AgreeInv'
  BY DEF AgreeInv, page

LEMMA InitAgrees == Init => AgreeInv
<1> SUFFICES ASSUME Init, page = "workspace" PROVE CanvasAlone /\ Agrees
  BY DEF AgreeInv
<1>1. PICK k, c : k = [j \in Keys |-> Blank] /\ c = cache
  OBVIOUS
<1>2. /\ c = Sync({}, Mounted, k) /\ observed = Mounted /\ requests = <<>> /\ dragging = {}
      /\ bounds \in DOMAIN Area
  BY <1>1, InitInv, PanelKeeps DEF Init, QueriesInit, CanvasInit, CanvasInv
<1>3. Lags(k, c)
  <2>1. IsCache(k, {})
    BY <1>1 DEF IsCache, Blank, Entry
  <2> QED
    BY <1>2, <2>1, CacheLags
<1>4. ASSUME NEW b \in DOMAIN Area PROVE Drawn(c[Window(b)]) = {} /\ ~Coming(c[Window(b)])
  <2>1. k[Window(b)] = Blank
    BY <1>1, <1>4, WindowKey
  <2>2. Lag(Blank, c[Window(b)])
    BY <1>3, <1>4, <2>1 DEF Lags
  <2> QED
    BY <2>2 DEF Lag, Blank, Drawn, Coming
<1>5. Drawn(c[Window(bounds)]) = {} /\ Ids({}) = {}
  BY <1>2, <1>4 DEF Ids
<1>6. EdgesAgree(requests, c[Window(bounds)], rows, links, edges)
  <2>1. \A l \in Pairs : l # {}
    BY DEF Pairs
  <2> QED
    BY <1>5, <2>1 DEF EdgesAgree
<1>7. CardsAgree(requests, c[Window(bounds)], rows, Resting)
  BY <1>5 DEF CardsAgree
<1>8. NodesThere(requests, c, rows)
  BY <1>4, <1>5 DEF NodesThere, EntryThere, There
<1>9. Window(bounds) \in observed
  BY <1>2 DEF Mounted, Window
<1> QED
  BY <1>1, <1>2, <1>6, <1>7, <1>8, <1>9 DEF Agrees, CanvasAlone

LEMMA CallbackAgrees ==
    ASSUME FrontendInv, AgreeInv, page = "workspace", NEW r \in DOMAIN requests, Callback(r)
    PROVE  AgreeInv'
<1>1. requests[r].by \notin {"board", "task"}
  BY SoundDone DEF Sound
<1>2. ~DropSettles(r) /\ ~TaskSettles(r)
  BY <1>1 DEF DropSettles, TaskSettles
<1> QED
  BY <1>2, PanelSettlesAgrees, CanvasSettlesAgrees DEF Callback

LEMMA StepAgrees == FrontendInv /\ AgreeInv /\ [Next]_vars => AgreeInv'
<1> SUFFICES ASSUME FrontendInv, AgreeInv, [Next]_vars PROVE AgreeInv'
  OBVIOUS
<1>1. CASE page # "workspace"
  <2>1. UNCHANGED scenario
    <3>1. CASE API
      BY <3>1 DEF API, Execute, Lose, Serve
    <3>2. CASE Cache
      BY <3>2 DEF Cache, Arrives, FetchFails, TimePasses, Refocus, Reacts
    <3>3. CASE ViewGesture
      BY <3>3 DEF ViewGesture, Open, OpenEditor, CloseEditor, Save, UploadFile, OpenDialog,
         CloseDialog, TypeIn, SubmitForm, ConfirmDelete, ConfirmLink, Unlink, AddChild
    <3>4. CASE TaskGesture
      BY <3>4 DEF TaskGesture, toggleStatus, handleViewChange, Drop, OpenCreateTask,
         CloseCreateTask, SubmitTask
    <3>5. CASE OtherUsers
      BY <3>5 DEF OtherUsers, OtherUser
    <3>6. CASE \E r \in DOMAIN requests : Callback(r)
      BY <3>6 DEF Callback, ViewSettles, PanelSettles, CanvasSettles, DropSettles, TaskSettles
    <3>7. CASE CanvasGesture \/ FilterGesture \/ BoardRedraws \/ UNCHANGED vars
      BY <1>1, <3>7 DEF CanvasGesture, FilterGesture, BoardRedraws, vars
    <3> QED
      BY <3>1, <3>2, <3>3, <3>4, <3>5, <3>6, <3>7 DEF Next
  <2> QED
    BY <1>1, <2>1, ElsewhereAgrees
<1>2. CASE page = "workspace"
  <2>1. CASE API
    <3>1. CASE \E r \in DOMAIN requests : (Execute(r) \/ (Does("lose") /\ Lose(r))) /\ Others
      BY <1>2, <3>1, ExecuteAgrees, LoseAgrees
    <3>2. CASE \E k \in observed : Serve(k) /\ Others
      BY <1>2, <3>2, ServeAgrees
    <3> QED
      BY <2>1, <3>1, <3>2 DEF API
  <2>2. CASE \E r \in DOMAIN requests : Callback(r)
    BY <1>2, <2>2, CallbackAgrees
  <2>3. CASE UNCHANGED vars \/ (BoardRedraws /\ UNCHANGED <<views, canvas, filters>>)
    <3>1. PICK rs : rs = requests
      OBVIOUS
    <3>2. UNCHANGED canvas /\ UNCHANGED <<scenario, api, queries>> /\ requests' = rs
      BY <2>3, <3>1 DEF vars, BoardRedraws
    <3>3. Onward(rs, requests')
      BY <3>2, OnwardSelf
    <3> QED
      BY <1>2, <3>1, <3>2, <3>3, KeepsCanvas, StillAgrees
  <2>4. ~TaskGesture /\ ~FilterGesture
    BY <1>2 DEF TaskGesture, FilterGesture
  <2> QED
    BY <1>2, <2>1, <2>2, <2>3, <2>4, CacheAgrees, ViewGestureAgrees, CanvasGestureAgrees,
       OtherUsersAgrees DEF Next
<1> QED
  BY <1>1, <1>2

\* At rest no request accounts for a difference any more.
LEMMA RestingAgrees == FrontendInv /\ AgreeInv => CanvasAgrees
<1> SUFFICES ASSUME FrontendInv, AgreeInv, CanvasRests
             PROVE  LET nodes == Listed(cache, bounds) IN
                    /\ \A l \in Pairs : l \subseteq Ids(nodes) /\ ~InPanel(l)
                            => (l \in edges) = (l \in Edges(nodes))
                    /\ \A n \in nodes : n.id \in DOMAIN cards =>
                          \/ cards[n.id] = n.place
                          \/ Exists(rows, n.id) /\ cards[n.id] = rows[n.id].place
  BY DEF CanvasAgrees
<1>1. PICK c, b, e, rs, nodes :
         c = cache /\ b = bounds /\ e = c[Window(b)] /\ rs = requests /\ nodes = Listed(c, b)
  OBVIOUS
<1>2. /\ page = "workspace" /\ dragging = {} /\ ~e.stale
      /\ \A r \in DOMAIN rs : rs[r].step = "done" /\ ~rs[r].gap
  BY <1>1 DEF CanvasRests, Window
<1>3. ~Hopeless(rs) /\ ~Outrun(e)
  BY <1>2 DEF Hopeless, Stuck, Outrun
<1>4. EdgesAgree(rs, e, rows, links, edges) /\ CardsAgree(rs, e, rows, Resting)
      /\ NodesThere(rs, c, rows)
  BY <1>1, <1>2, <1>3 DEF AgreeInv, Agrees
<1>5. nodes = Drawn(e) /\ b \in DOMAIN Area /\ IsCache(c, Born)
  BY <1>1, PanelKeeps DEF Listed, Drawn, Window, CanvasInv
<1>6. \A m, n \in nodes : m.id = n.id => m = n
  BY <1>1, <1>5, ListedType
<1>7. \A i \in Ids(nodes) : Exists(rows, i)
  <2>1. There(nodes, rs, rows)
    BY <1>1, <1>2, <1>4, <1>5 DEF NodesThere, EntryThere
  <2> QED
    BY <1>2, <2>1 DEF There, Deletes
<1>8. ASSUME NEW l \in Pairs, l \subseteq Ids(nodes), ~InPanel(l)
      PROVE  l \in edges <=> l \in Edges(nodes)
  <2>1. ~Behind(rs, l)
    BY <1>1, <1>8 DEF Behind, InPanel
  <2>2. \A r \in DOMAIN rs : ~JoinedBy(r, l, rs, e, rows, links, edges)
    BY <1>2, <1>3 DEF JoinedBy
  <2> QED
    BY <1>4, <1>5, <1>8, <2>1, <2>2 DEF EdgesAgree
<1>9. ASSUME NEW n \in nodes, n.id \in DOMAIN cards
      PROVE  \/ cards[n.id] = n.place
             \/ Exists(rows, n.id) /\ cards[n.id] = rows[n.id].place
  <2>1. PICK i : i = n.id
    OBVIOUS
  <2>2. i \in DOMAIN Resting \cap Ids(nodes) /\ Resting[i] = cards[i]
    BY <1>2, <1>9, <2>1, RestingCards DEF Ids
  <2>3. Incoming(nodes)[i] = n.place
    <3>1. (CHOOSE m \in nodes : m.id = i) = n
      BY <1>6, <2>1
    <3> QED
      BY <2>2, <3>1 DEF Incoming
  <2>4. CASE \E r \in DOMAIN rs : MovedBy(r, i, rs, rows, cards[i])
    BY <1>2, <1>7, <2>1, <2>2, <2>4 DEF MovedBy
  <2> QED
    BY <1>4, <1>5, <2>1, <2>2, <2>3, <2>4 DEF CardsAgree
<1> QED
  BY <1>1, <1>8, <1>9

\* CanvasAgrees: whatever was linked, unlinked, dragged, panned or undone on the canvas
\* (WorkspaceCanvas.tsx), in whatever order the API carried it out and the viewport query
\* was answered, once all of it has succeeded and the answer is fresh the edges are the
\* links of the nodes drawn, except for a pair the panel changed, and the cards stand
\* where the answer or the API has them.
THEOREM CanvasAgreesAlways == Spec => []CanvasAgrees
<1>1. Init => FrontendInv /\ AgreeInv
  BY InitInv, InitAgrees
<1>2. (FrontendInv /\ AgreeInv) /\ [Next]_vars => (FrontendInv /\ AgreeInv)'
  BY StepInv, StepAgrees
<1>3. FrontendInv /\ AgreeInv => CanvasAgrees
  BY RestingAgrees
<1> QED
  BY <1>1, <1>2, <1>3, PTL DEF Spec

=============================================================================
