--------------------------- MODULE Frontend_truth ---------------------------
(***************************************************************************)
(* The proof that the cache tells the truth: whatever it holds as fresh    *)
(* when everything is settled and was told is what the API would answer.   *)
(*                                                                         *)
(* The property says nothing of the moments in between, so it is not       *)
(* inductive.  What holds at every moment is that an entry that is fresh,  *)
(* or an answer that is on its way, is true unless some request still owes *)
(* its key the news of what it changed; a request owes it from the moment  *)
(* the API carries it out until its callbacks have invalidated the key.    *)
(***************************************************************************)
EXTENDS Frontend_proofs

Lists == {"linkedto", "viewport", "path"}

Own(i) == {<<"node", i>>, <<"content", i>>}

\* The answers that are others once q is carried out.
Affects(q, k) ==
    \/ q.op = "create" /\ k[1] = "viewport"
    \/ q.op = "patch" /\ (k = <<"node", q.node>> \/ k[1] \in Lists)
    \/ q.op \in {"upload", "raw"} /\ k \in Own(q.node)
    \/ q.op = "delete" /\ (k \in Own(q.node) \/ k[1] \in Lists)
    \/ q.op \in {"link", "unlink"} /\ k[1] \in Lists

\* q may have changed what k is answered, and the cache does not know yet, or
\* never will.
Owes(q, k) ==
    \/ q.op = "move"
    \/ q.gap /\ q.step # "sent"
    \/ q.step = "ok" /\ Affects(q, k)

Fresh(e) == ~e.stale /\ e.error = "no" /\ e.data # NoData
Coming(e) == e.wire \notin {Idle, Asked, Missing}

\* R and L are the nodes and links.
EntryTrue(e, k, R, L) ==
    /\ Fresh(e) => e.data = Answer(k, R, L)
    /\ Coming(e) => e.wire = Answer(k, R, L)

Owed(rs, k) == \E r \in DOMAIN rs : Owes(rs[r], k)

Truth(c, rs, R, L) == \A k \in Keys : Owed(rs, k) \/ EntryTrue(c[k], k, R, L)

\* The queries that no component of page pg has.
Foreign(k, pg) == \/ k[1] = "viewport" /\ pg # "workspace"
                  \/ k[1] = "path" /\ pg # "tasks"

Tidy(c, obs, pg) == \A k \in Keys : Foreign(k, pg) => k \notin obs /\ c[k].data = NoData

Holds(c, rs, obs) == Truth(c, rs, rows, links) /\ Tidy(c, obs, page)

\* A link joins nodes that were created.
LinksBorn == \A l \in links : l \subseteq Born

TruthInv == Holds(cache, requests, observed) /\ LinksBorn

-----------------------------------------------------------------------------
(* Entries fade                                                            *)

\* The same request, no further.
Due(q, p) == p.op = q.op /\ p.node = q.node /\ p.step = q.step /\ p.gap = q.gap

Steady(rs, ts) == DOMAIN rs \subseteq DOMAIN ts /\ \A r \in DOMAIN rs : Due(rs[r], ts[r])

\* What is fresh or on its way in f was so in e already.
Fade(e, f) ==
    /\ Fresh(f) => Fresh(e) /\ f.data = e.data
    /\ Coming(f) => f.wire = e.wire
    /\ e.data = NoData => f.data = NoData

Fades(c, d) == \A k \in Keys : Fade(c[k], d[k])

LEMMA SteadyOwes ==
    ASSUME NEW rs, NEW ts, Steady(rs, ts), NEW k, Owed(rs, k)
    PROVE  Owed(ts, k)
<1>1. PICK r \in DOMAIN rs : Owes(rs[r], k)
  BY DEF Owed
<1>2. r \in DOMAIN ts /\ Due(rs[r], ts[r])
  BY DEF Steady
<1>3. Owes(ts[r], k)
  BY <1>1, <1>2 DEF Due, Owes, Affects
<1> QED
  BY <1>2, <1>3 DEF Owed

LEMMA SteadySelf == \A rs : Steady(rs, rs)
  BY DEF Steady, Due

LEMMA SteadyOn ==
    ASSUME NEW rs, NEW ts, NEW us, Steady(rs, ts), Steady(ts, us)
    PROVE  Steady(rs, us)
  BY DEF Steady, Due

LEMMA FadesSelf == \A c : Fades(c, c)
  BY DEF Fades, Fade

LEMMA FadesOn ==
    ASSUME NEW c, NEW d, NEW e, Fades(c, d), Fades(d, e)
    PROVE  Fades(c, e)
  BY DEF Fades, Fade, Coming

\* A cache that only fades stays true, and a page that mounts its own queries
\* leaves the others alone.
LEMMA HoldsOn ==
    ASSUME NEW c, NEW rs, NEW obs, Holds(c, rs, obs), NEW d, Fades(c, d),
           NEW ts, Steady(rs, ts),
           NEW new, \A k \in new : k \in obs \/ ~Foreign(k, page)
    PROVE  Holds(d, ts, new)
<1>1. ASSUME NEW k \in Keys PROVE Owed(ts, k) \/ EntryTrue(d[k], k, rows, links)
  <2>1. Fade(c[k], d[k])
    BY DEF Fades
  <2>2. CASE Owed(rs, k)
    BY <2>2, SteadyOwes
  <2>3. CASE EntryTrue(c[k], k, rows, links)
    BY <2>1, <2>3 DEF EntryTrue, Fade, Coming
  <2> QED
    BY <2>2, <2>3 DEF Holds, Truth
<1>2. Tidy(d, new, page)
  BY DEF Holds, Tidy, Fades, Fade
<1> QED
  BY <1>1, <1>2 DEF Holds, Truth

LEMMA EntryFades ==
    ASSUME NEW k, NEW B, NEW e \in Entry(k, B)
    PROVE  /\ Fade(e, e) /\ Fade(e, Blank)
           /\ Fade(e, [e EXCEPT !.wire = Idle])
           /\ e.data = NoData \/ e.stale => Fade(e, Fetch(e))
           /\ Fade(e, [Fetch(e) EXCEPT !.stale = TRUE])
           /\ Fade(e, [e EXCEPT !.stale = TRUE])
           /\ Fade(e, [e EXCEPT !.error = "failed", !.stale = TRUE, !.wire = Idle])
<1> USE DEF Fade, Fresh, Coming, Entry
<1>1. Fade(e, e) /\ Fade(e, Blank)
  BY DEF Blank
<1>2. Fade(e, [e EXCEPT !.wire = Idle])
  OBVIOUS
<1>3. e.data = NoData \/ e.stale => Fade(e, Fetch(e))
  BY DEF Fetch
<1>4. Fade(e, [Fetch(e) EXCEPT !.stale = TRUE])
  BY DEF Fetch
<1>5. Fade(e, [e EXCEPT !.stale = TRUE])
  OBVIOUS
<1>6. Fade(e, [e EXCEPT !.error = "failed", !.stale = TRUE, !.wire = Idle])
  OBVIOUS
<1> QED
  BY <1>1, <1>2, <1>3, <1>4, <1>5, <1>6

\* Whatever happens to the cache but an answer makes nothing fresh.
LEMMA CacheFades ==
    ASSUME NEW B, NEW c, IsCache(c, B), NEW keys, NEW obs, NEW old, NEW new, NEW j
    PROVE  /\ Fades(c, Sync(old, new, c))
           /\ Fades(c, Invalidate(c, keys, obs))
           /\ Fades(c, Removed(c, keys))
           /\ Fades(c, Unanswered(c, j))
           /\ Fades(c, Aged(c, keys))
           /\ Fades(c, Refocused(c))
<1> SUFFICES ASSUME NEW k \in Keys
             PROVE  /\ Fade(c[k], Sync(old, new, c)[k])
                    /\ Fade(c[k], Invalidate(c, keys, obs)[k])
                    /\ Fade(c[k], Removed(c, keys)[k])
                    /\ Fade(c[k], Unanswered(c, j)[k])
                    /\ Fade(c[k], Aged(c, keys)[k])
                    /\ Fade(c[k], Refocused(c)[k])
  BY DEF Fades
<1>1. /\ Fade(c[k], c[k]) /\ Fade(c[k], Blank)
      /\ Fade(c[k], [c[k] EXCEPT !.wire = Idle])
      /\ c[k].data = NoData \/ c[k].stale => Fade(c[k], Fetch(c[k]))
      /\ Fade(c[k], [Fetch(c[k]) EXCEPT !.stale = TRUE])
      /\ Fade(c[k], [c[k] EXCEPT !.stale = TRUE])
      /\ Fade(c[k], [c[k] EXCEPT !.error = "failed", !.stale = TRUE, !.wire = Idle])
  BY EntryFades DEF IsCache
<1>2. Fade(c[k], Sync(old, new, c)[k])
  <2>1. Sync(old, new, c)[k] =
          IF k \in new \ old /\ ~Fetching(c, k) /\ (c[k].data = NoData \/ c[k].stale)
          THEN Fetch(c[k])
          ELSE IF k \in old \ new THEN [c[k] EXCEPT !.wire = Idle]
          ELSE c[k]
    BY DEF Sync
  <2> QED
    BY <1>1, <2>1
<1>3. Fade(c[k], Invalidate(c, keys, obs)[k])
  <2>1. Invalidate(c, keys, obs)[k] \in
          {c[k], [Fetch(c[k]) EXCEPT !.stale = TRUE], [c[k] EXCEPT !.stale = TRUE]}
    BY DEF Invalidate
  <2> QED
    BY <1>1, <2>1
<1>4. Fade(c[k], Removed(c, keys)[k])
  BY <1>1 DEF Removed
<1>5. Fade(c[k], Unanswered(c, j)[k])
  <2>1. c = [i \in Keys |-> c[i]]
    BY DEF IsCache
  <2>2. Unanswered(c, j)[k] =
          IF k = j THEN [c[k] EXCEPT !.error = "failed", !.stale = TRUE, !.wire = Idle] ELSE c[k]
    BY <2>1 DEF Unanswered
  <2> QED
    BY <1>1, <2>2
<1>6. Fade(c[k], Aged(c, keys)[k])
  BY <1>1 DEF Aged
<1>7. Fade(c[k], Refocused(c)[k])
  <2>1. Refocused(c)[k] =
          IF k \in observed /\ ~Fetching(c, k) /\ (c[k].stale \/ c[k].data = NoData)
          THEN Fetch(c[k]) ELSE c[k]
    BY DEF Refocused
  <2> QED
    BY <1>1, <2>1
<1> QED
  BY <1>2, <1>3, <1>4, <1>5, <1>6, <1>7

-----------------------------------------------------------------------------
(* Requests keep what they owe                                             *)

LEMMA FollowsSteady ==
    ASSUME NEW rs, NEW ts, Follows(rs, ts),
           \A r \in DOMAIN rs : ts[r].step = rs[r].step /\ ts[r].gap = rs[r].gap
    PROVE  Steady(rs, ts)
  BY DEF Follows, Kin, Steady, Due

LEMMA ForgetSteady ==
    ASSUME NEW rs \in Seq(RequestSet), NEW dialog
    PROVE  Steady(rs, Forget(rs, dialog)) /\ Forget(rs, dialog) \in Seq(RequestSet)
<1>1. /\ Follows(rs, Forget(rs, dialog))
      /\ \A r \in DOMAIN rs : /\ Forget(rs, dialog)[r].step = rs[r].step
                              /\ Forget(rs, dialog)[r].gap = rs[r].gap
  BY ForgetType
<1>2. PICK ts : ts = Forget(rs, dialog)
  OBVIOUS
<1>3. Steady(rs, ts)
  BY <1>1, <1>2, FollowsSteady
<1> QED
  BY <1>1, <1>2, <1>3 DEF Follows

LEMMA AppendSteady ==
    ASSUME NEW rs \in Seq(RequestSet), NEW q
    PROVE  Steady(rs, Append(rs, q))
<1>2. /\ DOMAIN rs = 1..Len(rs) /\ Len(rs) \in Nat /\ \A r \in DOMAIN rs : rs[r] \in RequestSet
  BY RequestSeq
<1>3. rs \in Seq(RequestSet \cup {q})
  <2>1. rs \in [1..Len(rs) -> RequestSet \cup {q}]
    BY <1>2, RequestSeq
  <2> QED
    BY <1>2, <2>1, SeqDef
<1>4. Append(rs, q) \in Seq(RequestSet \cup {q}) /\ Len(Append(rs, q)) = Len(rs) + 1
  BY <1>3
<1>5. DOMAIN Append(rs, q) = 1..(Len(rs) + 1)
  BY <1>4, LenProperties
<1>6. \A r \in DOMAIN rs : Append(rs, q)[r] = rs[r]
  BY <1>2, <1>3
<1> QED
  BY <1>2, <1>5, <1>6 DEF Steady, Due

LEMMA SendSteady ==
    ASSUME FrontendInv, NEW q, Send(q)
    PROVE  Steady(requests, requests')
<1>1. PICK rs : rs = requests
  OBVIOUS
<1>2. rs \in Seq(RequestSet) /\ requests' = Append(rs, q)
  BY <1>1, PanelKeeps DEF AllSound, Send
<1>3. Steady(rs, Append(rs, q))
  BY <1>2, AppendSteady
<1> QED
  BY <1>1, <1>2, <1>3

-----------------------------------------------------------------------------
(* A page that is drawn                                                    *)

LEMMA HoldsThen ==
    ASSUME UNCHANGED <<scenario, api>>, NEW c, NEW rs, NEW obs, Holds(c, rs, obs),
           Fades(c, cache'), Steady(rs, requests'),
           \A k \in observed' : k \in obs \/ ~Foreign(k, page)
    PROVE  Holds(cache, requests, observed)'
<1>1. PICK d, ts, new : d = cache' /\ ts = requests' /\ new = observed'
  OBVIOUS
<1>2. Holds(d, ts, new)
  <2>1. Fades(c, d) /\ Steady(rs, ts) /\ \A k \in new : k \in obs \/ ~Foreign(k, page)
    BY <1>1
  <2> QED
    BY <2>1, HoldsOn
<1> QED
  BY <1>1, <1>2 DEF Holds, Truth, Tidy, EntryTrue, Owed, page, api

LEMMA DrawHolds ==
    ASSUME UNCHANGED <<scenario, api>>, NEW B, NEW c, IsCache(c, B), NEW s \in 0..MaxId, NEW p,
           NEW rs \in Seq(RequestSet), NEW obs, Holds(c, rs, obs), Draw(s, c, p, rs, obs)
    PROVE  Holds(cache, requests, observed)'
<1>1. PICK route, c1, new, c2, view :
         /\ route = obs \cup ({<<"node", s>>} \cap Keys)
         /\ c1 = Sync(obs, route, c)
         /\ new = {k \in obs : k[1] \in {"viewport", "path"}} \cup ViewKeys(s, c1)
         /\ c2 = Sync(route, new, c1)
         /\ cache' = c2 /\ observed' = new /\ requests' = Rebound(rs, s, c2, view)
  BY DEF Draw
<1>2. Fades(c, c1) /\ IsCache(c1, B)
  BY <1>1, CacheFades, SyncType
<1>3. Fades(c1, c2)
  BY <1>1, <1>2, CacheFades
<1>4. Fades(c, cache')
  <2>1. Fades(c, c2)
    BY <1>2, <1>3, FadesOn
  <2> QED
    BY <1>1, <2>1
<1>5. Steady(rs, requests')
  <2>1. PICK ts : ts = Rebound(rs, s, c2, view)
    OBVIOUS
  <2>2. Follows(rs, ts) /\ \A r \in DOMAIN rs : ts[r].step = rs[r].step /\ ts[r].gap = rs[r].gap
    BY <2>1, ReboundType
  <2>3. Steady(rs, ts)
    BY <2>2, FollowsSteady
  <2> QED
    BY <1>1, <2>1, <2>3
<1>6. \A k \in observed' : k \in obs \/ ~Foreign(k, page)
  <2>1. \A k \in ViewKeys(s, c1) : k[1] \in {"node", "linkedto", "content"}
    BY DEF ViewKeys
  <2> QED
    BY <1>1, <2>1 DEF Foreign
<1> QED
  BY <1>4, <1>5, <1>6, HoldsThen

LEMMA BoardHolds ==
    ASSUME UNCHANGED <<scenario, api>>, NEW c, NEW rs \in Seq(RequestSet), NEW obs, Holds(c, rs, obs),
           cache' = c, \A k \in observed' : k \in obs \/ ~Foreign(k, page),
           NEW f, NEW b, NEW over, BoardDraws(c, f, b, rs, over)
    PROVE  Holds(cache, requests, observed)'
<1> DEFINE stays == Board(cache, filter, board) /\ Board(c, f, b)
<1>1. requests' = [r \in DOMAIN rs |->
                     IF rs[r].by = "board" /\ InFlight(rs[r]) /\ ~stays
                     THEN [rs[r] EXCEPT !.host = "left"] ELSE rs[r]]
  BY DEF BoardDraws
<1> HIDE DEF stays
<1>2. ASSUME NEW r \in DOMAIN rs PROVE Due(rs[r], requests'[r])
  <2> DEFINE left == [rs[r] EXCEPT !.host = "left"]
  <2>1. rs[r] \in RequestSet
    BY RequestSeq
  <2>2. requests'[r] \in {rs[r], left}
    BY <1>1
  <2>3. Due(rs[r], left) /\ Due(rs[r], rs[r])
    BY <2>1 DEF RequestSet, Due
  <2> HIDE DEF left
  <2> QED
    BY <2>2, <2>3
<1>3. DOMAIN requests' = DOMAIN rs
  BY <1>1
<1>4. Steady(rs, requests')
  BY <1>2, <1>3 DEF Steady
<1>5. Fades(c, cache')
  BY FadesSelf
<1> QED
  BY <1>4, <1>5, HoldsThen

\* What the invariant says of the cache and the requests.
LEMMA TruthKeeps ==
    ASSUME FrontendInv, TruthInv
    PROVE  /\ Holds(cache, requests, observed) /\ requests \in Seq(RequestSet)
           /\ IsCache(cache, Born) /\ shown \in 0..MaxId
  BY PanelKeeps DEF TruthInv, AllSound

LEMMA LinksStay ==
    ASSUME LinksBorn, UNCHANGED api
    PROVE  LinksBorn'
  BY DEF LinksBorn, Born, api

\* Whatever cache a page is drawn from, if it is true.
LEMMA ReactsTruth ==
    ASSUME FrontendInv, TruthInv, NEW c, IsCache(c, Born), Holds(c, requests, observed), Reacts(c)
    PROVE  TruthInv'
<1>1. UNCHANGED <<scenario, api>>
  BY DEF Reacts
<1>2. PICK s, p, rs, obs, f, b, over : /\ s = shown /\ p = panel /\ rs = requests /\ obs = observed
                                       /\ f = filter /\ b = board /\ over = overrides
  OBVIOUS
<1>3. s \in 0..MaxId /\ rs \in Seq(RequestSet) /\ Holds(c, rs, obs)
  BY <1>2, TruthKeeps
<1>4. CASE ViewReacts(c)
  <2>1. Draw(s, c, p, rs, obs)
    BY <1>2, <1>4 DEF ViewReacts, Draw
  <2>2. Holds(cache, requests, observed)'
    BY <1>1, <1>3, <2>1, DrawHolds
  <2> QED
    BY <1>1, <2>2, LinksStay DEF TruthInv
<1>5. CASE BoardReacts(c)
  <2>1. BoardDraws(c, f, b, rs, over) /\ cache' = c /\ observed' = obs
    BY <1>2, <1>5 DEF BoardReacts, BoardDraws
  <2>2. \A k \in observed' : k \in obs \/ ~Foreign(k, page)
    BY <2>1
  <2>3. Holds(cache, requests, observed)'
    BY <1>1, <1>3, <2>1, <2>2, BoardHolds
  <2> QED
    BY <1>1, <2>3, LinksStay DEF TruthInv
<1> QED
  BY <1>4, <1>5 DEF Reacts, CanvasReacts

\* An answer that arrives was on its way.
LEMMA ReceivedHolds ==
    ASSUME NEW B, NEW c, IsCache(c, B), NEW rs, NEW obs, Holds(c, rs, obs),
           NEW k \in Keys, k \in obs, c[k].wire \notin {Idle, Asked}
    PROVE  Holds(Received(c, k), rs, obs)
<1> DEFINE d == Received(c, k)
<1>1. c = [j \in Keys |-> c[j]] /\ c[k] \in Entry(k, B)
  BY DEF IsCache
<1>2. \A j \in Keys \ {k} : d[j] = c[j]
  BY <1>1 DEF Received
<1>3. d[k] = IF c[k].wire = Missing
             THEN [c[k] EXCEPT !.error = "missing", !.stale = TRUE, !.wire = Idle]
             ELSE [data |-> c[k].wire, error |-> "no", stale |-> FALSE, wire |-> Idle]
  BY <1>1 DEF Received
<1> HIDE DEF d
<1>4. EntryTrue(c[k], k, rows, links) => EntryTrue(d[k], k, rows, links)
  <2>1. CASE c[k].wire = Missing
    BY <1>1, <1>3, <2>1 DEF EntryTrue, Fresh, Coming, Entry
  <2>2. CASE c[k].wire # Missing
    BY <1>3, <2>2 DEF EntryTrue, Fresh, Coming
  <2> QED
    BY <2>1, <2>2
<1>5. Truth(d, rs, rows, links)
  BY <1>2, <1>4 DEF Holds, Truth
<1>6. Tidy(d, obs, page)
  BY <1>2 DEF Holds, Tidy
<1> QED
  BY <1>5, <1>6 DEF Holds, d

LEMMA CacheTruth ==
    ASSUME FrontendInv, TruthInv, Cache
    PROVE  TruthInv'
<1>1. /\ IsCache(cache, Born) /\ Quiet(cache, observed) /\ observed \subseteq Keys
      /\ Holds(cache, requests, observed)
  BY PanelKeeps, TruthKeeps
<1>2. ASSUME NEW k \in observed, Arrives(k) PROVE TruthInv'
  <2>1. PICK c, old, rs, obs : /\ c = Received(cache, k) /\ old = cache /\ rs = requests
                               /\ obs = observed
    OBVIOUS
  <2>2. k \in Keys /\ k \in obs /\ old[k].wire \notin {Idle, Asked}
    BY <1>1, <1>2, <2>1 DEF Arrives
  <2>3. IsCache(c, Born)
    BY <1>1, <2>1, <2>2, CacheStepType
  <2>4. IsCache(old, Born) /\ Holds(old, rs, obs)
    BY <1>1, <2>1
  <2>5. Holds(c, rs, obs)
    <3>1. Holds(Received(old, k), rs, obs)
      BY <2>2, <2>4, ReceivedHolds
    <3> QED
      BY <2>1, <3>1
  <2>6. Reacts(c)
    BY <1>2, <2>1 DEF Arrives
  <2> QED
    BY <2>1, <2>3, <2>5, <2>6, ReactsTruth
<1>3. ASSUME NEW c, IsCache(c, Born), Fades(cache, c), Reacts(c) PROVE TruthInv'
  <2>1. PICK old, rs, obs : old = cache /\ rs = requests /\ obs = observed
    OBVIOUS
  <2>2. Holds(old, rs, obs) /\ Fades(old, c) /\ Steady(rs, rs)
        /\ \A k \in obs : k \in obs \/ ~Foreign(k, page)
    BY <1>1, <1>3, <2>1, SteadySelf
  <2>3. Holds(c, rs, obs)
    BY <2>2, HoldsOn
  <2> QED
    BY <1>3, <2>1, <2>3, ReactsTruth
<1>4. PICK j \in Keys : TRUE
  BY KeyIn, FrontendAssumption
<1>5. \A k \in Keys : \A kinds :
         /\ IsCache(Unanswered(cache, k), Born) /\ Fades(cache, Unanswered(cache, k))
         /\ IsCache(Aged(cache, kinds), Born) /\ Fades(cache, Aged(cache, kinds))
         /\ IsCache(Refocused(cache), Born) /\ Fades(cache, Refocused(cache))
  BY <1>1, CacheStepType, CacheFades
<1>6. ASSUME NEW k \in observed, FetchFails(k) PROVE TruthInv'
  BY <1>1, <1>3, <1>5, <1>6 DEF FetchFails
<1>7. ASSUME NEW kinds, TimePasses(kinds) PROVE TruthInv'
  BY <1>3, <1>4, <1>5, <1>7 DEF TimePasses
<1>8. ASSUME Refocus PROVE TruthInv'
  BY <1>3, <1>4, <1>5, <1>8 DEF Refocus
<1> QED
  BY <1>2, <1>6, <1>7, <1>8 DEF Cache

-----------------------------------------------------------------------------
(* Callbacks tell the cache what they can                                  *)

LEMMA KeyOfKind ==
    ASSUME NEW k \in Keys
    PROVE  /\ k[1] \in {"linkedto", "viewport", "path"} => k \in Kind(k[1])
           /\ k[1] \in {"node", "content", "linkedto", "viewport", "path"}
<1>1. PICK kind \in {"node", "content", "linkedto", "viewport", "path"} : k \in Kind(kind)
  BY DEF Keys
<1> QED
  BY <1>1 DEF Kind

\* What q changed is invalidated, removed, or on no query of the page.
LEMMA AffectedTold ==
    ASSUME NEW q, Sound(q, page, Born), q.by # "other", ~Untold(q), NEW k \in Keys, Affects(q, k),
           q.op \in {"create", "patch", "delete", "link", "unlink", "upload", "raw"}
    PROVE  \/ k \in Outdated(q)
           \/ q.op = "delete" /\ k \in {<<"node", q.key>>, <<"content", q.key>>}
           \/ Foreign(k, page)
<1>1. q.key = q.node /\ q.op # "raw" /\ ~(q.op = "create" /\ page = "workspace")
      /\ ~(q.op = "link" /\ page = "tasks")
  BY DEF Untold
<1>2. CASE q.by = "board" \/ (q.op = "upload" /\ page = "wiki" /\ q.host = "mounted")
  BY <1>2 DEF Outdated
<1>3. ASSUME ~(q.by = "board" \/ (q.op = "upload" /\ page = "wiki" /\ q.host = "mounted"))
      PROVE  \/ k \in Outdated(q)
             \/ q.op = "delete" /\ k \in {<<"node", q.key>>, <<"content", q.key>>}
             \/ Foreign(k, page)
  <2>1. k[1] \in Lists => k \in Kind("linkedto") \/ k \in Kind("viewport") \/ k[1] = "path"
    BY KeyOfKind DEF Lists
  <2>2. CASE q.op = "create"
    BY <1>1, <2>2 DEF Affects, Foreign
  <2>3. CASE q.op = "patch"
    <3>1. page # "tasks"
      BY <1>3, <2>3 DEF Sound, Views
    <3>2. Outdated(q) = usePatchNode(q.key)
      BY <1>3, <2>3 DEF Outdated
    <3> QED
      BY <1>1, <2>1, <2>3, <3>1, <3>2 DEF Affects, Foreign, usePatchNode
  <2>4. CASE q.op = "upload"
    <3>1. Outdated(q) = useUploadContent(q.key)
      BY <1>3, <2>4 DEF Outdated
    <3> QED
      BY <1>1, <2>4, <3>1 DEF Affects, Own, useUploadContent
  <2>5. CASE q.op = "delete"
    <3>1. page # "tasks"
      BY <2>5 DEF Sound, Views
    <3>2. Outdated(q) = useDeleteNode
      BY <1>3, <2>5 DEF Outdated
    <3> QED
      BY <1>1, <2>1, <2>5, <3>1, <3>2 DEF Affects, Own, Foreign, useDeleteNode
  <2>6. CASE q.op = "link"
    <3>1. Outdated(q) = invalidateLinkCaches
      BY <1>3, <2>6 DEF Outdated
    <3> QED
      BY <1>1, <2>1, <2>6, <3>1 DEF Affects, Foreign, invalidateLinkCaches
  <2>7. CASE q.op = "unlink"
    <3>1. page # "tasks"
      BY <2>7 DEF Sound, Views
    <3>2. Outdated(q) = useUnlinkNodes
      BY <1>3, <2>7 DEF Outdated
    <3> QED
      BY <2>1, <2>7, <3>1, <3>2 DEF Affects, Foreign, useUnlinkNodes
  <2> QED
    BY <1>1, <2>2, <2>3, <2>4, <2>5, <2>6, <2>7
<1> QED
  BY <1>2, <1>3

LEMMA SettledFades ==
    ASSUME NEW B, NEW c, IsCache(c, B), NEW q
    PROVE  Fades(c, Settled(c, q))
<1> DEFINE gone == {<<"node", q.key>>, <<"content", q.key>>}
<1>1. PICK d, keys : /\ d = IF q.op = "delete" THEN Removed(c, gone) ELSE c
                     /\ keys = Outdated(q)
  OBVIOUS
<1>2. IsCache(d, B) /\ Fades(c, d)
  BY <1>1, RemovedType, CacheFades, FadesSelf
<1>3. Fades(d, Invalidate(d, keys, observed))
  BY <1>2, CacheFades
<1>4. Fades(c, Invalidate(d, keys, observed))
  BY <1>2, <1>3, FadesOn
<1>5. Settled(c, q) = c \/ Settled(c, q) = Invalidate(d, keys, observed)
  BY <1>1 DEF Settled, Succeeded
<1> QED
  BY <1>4, <1>5, FadesSelf

\* Neither fresh nor with an answer on its way: nothing is said of it.
Void(e) == ~Fresh(e) /\ ~Coming(e)

LEMMA SettledVoid ==
    ASSUME FrontendInv, TruthInv, NEW q, Sound(q, page, Born), q.by # "other", ~Untold(q),
           q.step = "ok", NEW k \in Keys, Affects(q, k),
           q.op \in {"create", "patch", "delete", "link", "unlink", "upload", "raw"}
    PROVE  Void(Settled(cache, q)[k])
<1> DEFINE gone == {<<"node", q.key>>, <<"content", q.key>>}
<1>1. PICK c, d, keys : /\ c = cache
                        /\ d = IF q.op = "delete" THEN Removed(c, gone) ELSE c
                        /\ keys = Outdated(q)
  OBVIOUS
<1>2. Settled(cache, q) = Invalidate(d, keys, observed)
  BY <1>1 DEF Settled, Succeeded
<1>3. /\ c[k] \in Entry(k, Born) /\ (c[k].wire # Idle => k \in observed)
      /\ (Foreign(k, page) => k \notin observed /\ c[k].data = NoData)
  BY <1>1, PanelKeeps, TruthKeeps DEF IsCache, Quiet, Holds, Tidy
<1>4. d[k] = c[k] \/ d[k] = Blank
  BY <1>1 DEF Removed
<1>5. d[k].wire # Idle => k \in observed
  BY <1>3, <1>4 DEF Blank
<1>6. CASE k \in keys
  <2>1. d[k].data = NoData /\ k \in observed => d[k].wire \in {Idle, Asked}
    BY <1>1, <1>4, <1>6 DEF Untold, FirstLoad, Blank
  <2>2. CASE d[k].data # NoData \/ (k \in observed /\ ~Fetching(d, k))
    <3> DEFINE e == IF k \in observed THEN Fetch(d[k]) ELSE d[k]
    <3>1. Invalidate(d, keys, observed)[k] = [e EXCEPT !.stale = TRUE]
      BY <1>6, <2>2 DEF Invalidate
    <3>2. PICK B : d[k] \in Entry(k, B)
      <4>1. Blank \in Entry(k, Born)
        BY DEF Blank, Entry
      <4> QED
        BY <1>3, <1>4, <4>1
    <3>3. e.wire \in {Idle, Asked} /\ e \in Entry(k, B)
      <4>1. Fetch(d[k]).wire = Asked /\ Fetch(d[k]) \in Entry(k, B)
        BY <3>2 DEF Fetch, Entry
      <4> QED
        BY <1>5, <3>2, <4>1
    <3> HIDE DEF e
    <3>4. [e EXCEPT !.stale = TRUE].stale = TRUE /\ [e EXCEPT !.stale = TRUE].wire = e.wire
      BY <3>3 DEF Entry
    <3> QED
      BY <1>2, <3>1, <3>3, <3>4 DEF Void, Fresh, Coming
  <2>3. CASE ~(d[k].data # NoData \/ (k \in observed /\ ~Fetching(d, k)))
    <3>1. Invalidate(d, keys, observed)[k] = d[k]
      BY <2>3 DEF Invalidate
    <3> QED
      BY <1>2, <1>5, <2>1, <2>3, <3>1 DEF Void, Fresh, Coming
  <2> QED
    BY <2>2, <2>3
<1>7. CASE k \notin keys
  <2>1. Invalidate(d, keys, observed)[k] = d[k]
    BY <1>7 DEF Invalidate
  <2>2. (q.op = "delete" /\ k \in gone) \/ Foreign(k, page)
    BY <1>1, <1>7, AffectedTold
  <2>3. d[k] = Blank \/ (d[k].data = NoData /\ d[k].wire = Idle)
    BY <1>1, <1>3, <1>4, <2>2 DEF Removed
  <2> QED
    BY <1>2, <2>1, <2>3 DEF Void, Fresh, Coming, Blank
<1> QED
  BY <1>6, <1>7

LEMMA SettledTruth ==
    ASSUME FrontendInv, TruthInv, NEW r \in DOMAIN requests, requests[r].by # "other", Callbacks(r)
    PROVE  Holds(Settled(cache, requests[r]), Done(r), observed)
<1>1. PICK q, c, d, rs, ts : /\ q = requests[r] /\ c = cache /\ d = Settled(c, q)
                             /\ rs = requests /\ ts = Done(r)
  OBVIOUS
<1>2. /\ Holds(c, rs, observed) /\ IsCache(c, Born) /\ requests \in Seq(RequestSet)
      /\ q \in RequestSet /\ Sound(q, page, Born)
  BY <1>1, PanelKeeps, TruthKeeps, RequestSeq DEF AllSound
<1>3. Fades(c, d)
  BY <1>1, <1>2, SettledFades
<1>4. /\ DOMAIN ts = DOMAIN rs /\ \A o \in DOMAIN rs \ {r} : ts[o] = rs[o]
      /\ Kin(q, ts[r]) /\ ts[r].step \in {"done", "failed"}
      /\ ts[r].gap = (q.gap \/ (q.step = "ok" /\ Untold(q)))
  BY <1>1, <1>2, DoneType DEF Follows
<1>5. Tidy(d, observed, page)
  BY <1>2, <1>3 DEF Holds, Tidy, Fades, Fade
<1>6. ASSUME NEW k \in Keys, ~Owed(ts, k) PROVE EntryTrue(d[k], k, rows, links)
  <2>1. ~Owes(ts[r], k) /\ \A o \in DOMAIN rs \ {r} : ~Owes(rs[o], k)
    <3>1. \A o \in DOMAIN ts : ~Owes(ts[o], k)
      BY <1>6 DEF Owed
    <3>2. r \in DOMAIN ts
      BY <1>1, <1>4
    <3> QED
      BY <1>4, <3>1, <3>2
  <2>2. q.op # "move" /\ ts[r].gap = FALSE
    <3>1. ts[r].gap \in BOOLEAN
      BY <1>2, <1>4 DEF RequestSet, Untold, FirstLoad
    <3> QED
      BY <1>4, <2>1, <3>1 DEF Owes, Kin
  <2>3. ~q.gap /\ ~(q.step = "ok" /\ Untold(q))
    BY <1>4, <2>2
  <2>4. CASE Owes(q, k)
    <3>1. q.step = "ok" /\ Affects(q, k) /\ ~Untold(q)
      BY <2>2, <2>3, <2>4 DEF Owes
    <3>2. q.op \in {"create", "patch", "delete", "link", "unlink", "upload", "raw"}
      BY <1>2, <2>2 DEF RequestSet
    <3>3. Void(Settled(cache, q)[k])
      BY <1>1, <1>2, <3>1, <3>2, SettledVoid
    <3> QED
      BY <1>1, <3>3 DEF Void, EntryTrue
  <2>5. CASE ~Owes(q, k)
    <3>1. ~Owed(rs, k)
      BY <1>1, <2>1, <2>5 DEF Owed
    <3>2. EntryTrue(c[k], k, rows, links) /\ Fade(c[k], d[k])
      BY <1>2, <1>3, <3>1 DEF Holds, Truth, Fades
    <3> QED
      BY <3>2 DEF EntryTrue, Fade, Coming
  <2> QED
    BY <2>4, <2>5
<1>7. Truth(d, ts, rows, links)
  BY <1>6 DEF Truth
<1> QED
  BY <1>1, <1>5, <1>7 DEF Holds
-----------------------------------------------------------------------------
(* What the API changes                                                    *)

\* An answer about node i and no list depends on the row of i alone.
LEMMA AnswerElsewhere ==
    ASSUME NEW R, NEW S, NEW L, NEW M, NEW i, \A j \in NodeIds \ {i} : S[j] = R[j],
           NEW k \in Keys, k[1] \notin Lists, k \notin Own(i)
    PROVE  Answer(k, S, M) = Answer(k, R, L)
<1>1. k[2] \in NodeIds /\ k[2] # i /\ k[1] \in {"node", "content"}
  BY KeyCases DEF Lists, Own
<1>2. S[k[2]] = R[k[2]]
  BY <1>1
<1>3. CASE k[1] = "node"
  BY <1>2, <1>3 DEF Answer, useNode, Exists
<1>4. CASE k[1] = "content"
  BY <1>2, <1>4 DEF Answer, useNodeContent, Exists
<1> QED
  BY <1>1, <1>3, <1>4

\* The lists of neighbors have of a row what a card shows.
LEMMA AnswerCards ==
    ASSUME NEW R, NEW S, NEW L, \A j : Neighbors(S, L, j) = Neighbors(R, L, j),
           \A j : \A m \in Neighbors(R, L, j) :
                     S[m].name = R[m].name /\ S[m].status = R[m].status /\ S[m].type = R[m].type,
           NEW k, k[1] \in {"linkedto", "path"}
    PROVE  Answer(k, S, L) = Answer(k, R, L)
<1>1. \A j : \A m \in Neighbors(R, L, j) : Card(S, m) = Card(R, m)
  BY DEF Card
<1>2. CASE k[1] = "linkedto"
  <2>1. useNodeListLinkedTo(S, L, k[2]) = useNodeListLinkedTo(R, L, k[2])
    BY <1>1 DEF useNodeListLinkedTo
  <2> QED
    BY <1>2, <2>1 DEF Answer
<1>3. CASE k[1] = "path"
  <2> DEFINE Of(Q) == {i \in Neighbors(Q, L, Group) \ {Project} :
                          {Group, Project} \in L /\ (k[2] = {} \/ Q[i].status \in k[2])}
  <2>1. Of(S) = Of(R) /\ Of(R) \subseteq Neighbors(R, L, Group)
    OBVIOUS
  <2>2. /\ useNodePath(S, L, k[2]) = {Card(S, j) : j \in Of(S)}
        /\ useNodePath(R, L, k[2]) = {Card(R, j) : j \in Of(R)}
    BY DEF useNodePath
  <2> HIDE DEF Of
  <2>3. useNodePath(S, L, k[2]) = useNodePath(R, L, k[2])
    BY <1>1, <2>1, <2>2
  <2> QED
    BY <1>3, <2>3 DEF Answer
<1> QED
  BY <1>2, <1>3

\* A node just created is linked to none.
LEMMA AnswerNew ==
    ASSUME NEW R, NEW S, NEW L, NEW i, R[i] = Gone, \A j \in NodeIds \ {i} : S[j] = R[j],
           \A l \in L : i \notin l, NEW k, k[1] \in {"linkedto", "path"}
    PROVE  Answer(k, S, L) = Answer(k, R, L)
<1>1. ASSUME NEW j, NEW m \in NodeIds, {j, m} \in L PROVE S[m] = R[m]
  <2>1. m \in {j, m}
    OBVIOUS
  <2> QED
    BY <1>1, <2>1
<1>2. \A j : Neighbors(S, L, j) = Neighbors(R, L, j)
  BY <1>1 DEF Neighbors, Exists
<1>3. \A j : \A m \in Neighbors(R, L, j) : S[m] = R[m]
  BY <1>1 DEF Neighbors
<1> QED
  BY <1>2, <1>3, AnswerCards

\* No list has the text of a node.
LEMMA AnswerText ==
    ASSUME NEW R, NEW S, NEW L, \A j : Exists(S, j) <=> Exists(R, j),
           \A j : Exists(R, j) => /\ S[j].name = R[j].name /\ S[j].status = R[j].status
                                  /\ S[j].type = R[j].type /\ S[j].place = R[j].place,
           NEW k, k[1] \in Lists
    PROVE  Answer(k, S, L) = Answer(k, R, L)
<1>1. \A j : Neighbors(S, L, j) = Neighbors(R, L, j)
  BY DEF Neighbors
<1>2. \A j : \A m \in Neighbors(R, L, j) : Exists(R, m)
  BY DEF Neighbors
<1>3. CASE k[1] = "viewport"
  <2> DEFINE Shape(Q, i) == [id |-> i, name |-> Q[i].name, place |-> Q[i].place,
                             links |-> Neighbors(Q, L, i)]
             In(Q) == {j \in NodeIds : Exists(Q, j) /\ Q[j].place \in Area[k[2]]}
  <2>1. In(S) = In(R) /\ \A j \in In(R) : Exists(R, j)
    OBVIOUS
  <2>2. \A j : Exists(R, j) => Shape(S, j) = Shape(R, j)
    BY <1>1
  <2>3. /\ useNodesInViewport(S, L, k[2]) = {Shape(S, i) : i \in In(S)}
        /\ useNodesInViewport(R, L, k[2]) = {Shape(R, i) : i \in In(R)}
    BY DEF useNodesInViewport
  <2> HIDE DEF Shape, In
  <2>4. useNodesInViewport(S, L, k[2]) = useNodesInViewport(R, L, k[2])
    BY <2>1, <2>2, <2>3
  <2> QED
    BY <1>3, <2>4 DEF Answer
<1>4. CASE k[1] \in {"linkedto", "path"}
  BY <1>1, <1>2, <1>4, AnswerCards
<1> QED
  BY <1>3, <1>4 DEF Lists

\* The fields of a row that are set are another row's, the others stay.
LEMMA RowChanges ==
    ASSUME NEW row \in Row, NEW v \in Partials
    PROVE  /\ Changed(row, v) \in Row
           /\ \A f \in RowFields \ DOMAIN v : Changed(row, v)[f] = row[f]
<1>1. DOMAIN row = RowFields
  BY DEF Row, RowFields
<1> QED
  BY <1>1, ChangedType DEF Changed

-----------------------------------------------------------------------------
(* The API carries out a request                                           *)

\* Whatever the API does for request r, an answer that is not affected stays,
\* or there is nothing in the cache that it could belie.
LEMMA ExecuteAnswers ==
    ASSUME FrontendInv, TruthInv, NEW r \in DOMAIN requests, Execute(r),
           NEW k \in Keys, ~Owes(requests'[r], k)
    PROVE  Answer(k, rows', links') = Answer(k, rows, links) \/ Void(cache[k])
<1> DEFINE q == requests[r]
<1>1. /\ TablesInv /\ MaxId \in Nat /\ Gone \notin Row /\ cache[k] \in Entry(k, Born)
      /\ requests = [o \in DOMAIN requests |-> requests[o]]
      /\ q \in RequestSet /\ Sound(q, page, Born) /\ LinksBorn
  BY PanelKeeps, RequestSeq, FrontendAssumption DEF TruthInv, AllSound, IsCache
<1>2. PICK R, S, L, M : R = rows /\ S = rows' /\ L = links /\ M = links'
  OBVIOUS
<1>3. \A p : p.step = "ok" /\ p = requests'[r] => ~Affects(p, k) /\ p.op # "move"
  BY DEF Owes
<1>4. CASE /\ q.op = "create" /\ issued < MaxId
           /\ rows' = [rows EXCEPT ![issued + 1] = q.value] /\ issued' = issued + 1
           /\ requests' = [requests EXCEPT ![r].step = "ok", ![r].node = issued + 1,
                                           ![r].key = issued + 1]
           /\ UNCHANGED links
  <2>1. PICK i, p : i = issued + 1 /\ p = requests'[r]
    OBVIOUS
  <2>2. p.op = "create" /\ p.step = "ok"
    BY <1>1, <1>4, <2>1 DEF RequestSet
  <2>3. k[1] # "viewport"
    BY <1>3, <2>1, <2>2 DEF Affects
  <2>4. i \in NodeIds /\ i \notin Born
    BY <1>1, <1>4, <2>1 DEF TablesInv, NodeIds, Born
  <2>5. /\ R[i] = Gone /\ (\A j \in NodeIds \ {i} : S[j] = R[j]) /\ (\A l \in L : i \notin l)
        /\ M = L
    BY <1>1, <1>2, <1>4, <2>1, <2>4 DEF TablesInv, LinksBorn
  <2>6. CASE k \in Own(i)
    <3>1. DataOf(k, Born) = {}
      BY <2>4, <2>6 DEF DataOf, Own
    <3>2. cache[k].data = NoData /\ cache[k].wire \in {Missing, Idle, Asked}
      BY <1>1, <3>1 DEF Entry
    <3> QED
      BY <3>2 DEF Void, Fresh, Coming
  <2>7. CASE k[1] \notin Lists /\ k \notin Own(i)
    BY <1>2, <2>5, <2>7, AnswerElsewhere
  <2>8. CASE k[1] \in {"linkedto", "path"}
    <3>1. Answer(k, S, L) = Answer(k, R, L)
      BY <2>5, <2>8, AnswerNew
    <3> QED
      BY <1>2, <2>5, <3>1
  <2> QED
    BY <2>3, <2>6, <2>7, <2>8 DEF Lists
<1>5. CASE /\ q.op \in {"patch", "move", "upload", "raw"} /\ Exists(rows, q.node)
           /\ rows' = [rows EXCEPT ![q.node] = Changed(@, q.value)]
           /\ requests' = [requests EXCEPT ![r].step = "ok"]
           /\ UNCHANGED <<links, issued>>
  <2>1. PICK i, v, p : i = q.node /\ v = q.value /\ p = requests'[r]
    OBVIOUS
  <2>2. p.op = q.op /\ p.step = "ok" /\ p.node = i
    BY <1>1, <1>5, <2>1 DEF RequestSet
  <2>3. ~Affects(p, k) /\ q.op # "move"
    BY <1>3, <2>1, <2>2
  <2>4. i \in NodeIds /\ R[i] \in Row /\ v \in Partials
    BY <1>1, <1>2, <1>5, <2>1 DEF Exists, TablesInv, RequestSet
  <2>5. S[i] \in Row /\ \A f \in RowFields \ DOMAIN v : S[i][f] = R[i][f]
    <3>1. S[i] = Changed(R[i], v)
      BY <1>1, <1>2, <1>5, <2>1, <2>4 DEF TablesInv
    <3> QED
      BY <2>4, <3>1, RowChanges
  <2>6. (\A j \in NodeIds \ {i} : S[j] = R[j]) /\ M = L
    BY <1>1, <1>2, <1>5, <2>1 DEF TablesInv
  <2>7. \A j : Exists(S, j) <=> Exists(R, j)
    BY <1>1, <2>4, <2>5, <2>6 DEF Exists
  <2>8. CASE k[1] \notin Lists /\ k \notin Own(i)
    BY <1>2, <2>6, <2>8, AnswerElsewhere
  <2>9. CASE q.op = "patch"
    <3>1. k # <<"node", i>> /\ k[1] \notin Lists
      BY <2>2, <2>3, <2>9 DEF Affects
    <3>2. S[i].text = R[i].text
      BY <1>1, <2>1, <2>5, <2>9 DEF Sound, RowFields, Fields
    <3>3. CASE k = <<"content", i>>
      BY <1>2, <2>7, <3>2, <3>3 DEF Answer, useNodeContent
    <3> QED
      BY <2>8, <3>1, <3>3 DEF Own
  <2>10. CASE q.op \in {"upload", "raw"}
    <3>1. k \notin Own(i)
      BY <2>2, <2>3, <2>10 DEF Affects
    <3>2. /\ S[i].name = R[i].name /\ S[i].status = R[i].status
          /\ S[i].type = R[i].type /\ S[i].place = R[i].place
      BY <1>1, <2>1, <2>5, <2>10 DEF Sound, RowFields
    <3>3. \A j : Exists(R, j) => /\ S[j].name = R[j].name /\ S[j].status = R[j].status
                                 /\ S[j].type = R[j].type /\ S[j].place = R[j].place
      BY <2>6, <3>2 DEF Exists
    <3>4. CASE k[1] \in Lists
      <4>1. Answer(k, S, L) = Answer(k, R, L)
        BY <2>7, <3>3, <3>4, AnswerText
      <4> QED
        BY <1>2, <2>6, <4>1
    <3> QED
      BY <2>8, <3>1, <3>4
  <2> QED
    BY <1>5, <2>3, <2>9, <2>10
<1>6. CASE /\ q.op = "delete" /\ Exists(rows, q.node)
           /\ rows' = [rows EXCEPT ![q.node] = Gone]
           /\ links' = {l \in links : q.node \notin l}
           /\ requests' = [requests EXCEPT ![r].step = "ok"]
           /\ UNCHANGED issued
  <2>1. PICK i, p : i = q.node /\ p = requests'[r]
    OBVIOUS
  <2>2. p.op = "delete" /\ p.step = "ok" /\ p.node = i
    BY <1>1, <1>6, <2>1 DEF RequestSet
  <2>3. k \notin Own(i) /\ k[1] \notin Lists
    BY <1>3, <2>1, <2>2 DEF Affects
  <2>4. \A j \in NodeIds \ {i} : S[j] = R[j]
    BY <1>1, <1>2, <1>6, <2>1 DEF TablesInv
  <2> QED
    BY <1>2, <2>3, <2>4, AnswerElsewhere
<1>7. CASE /\ q.op = "link" /\ Exists(rows, q.node) /\ Exists(rows, q.other)
           /\ links' = links \cup {{q.node, q.other}}
           /\ requests' = [requests EXCEPT ![r].step =
                             IF {q.node, q.other} \in links THEN "linked" ELSE "ok"]
           /\ UNCHANGED <<rows, issued>>
  <2>1. CASE {q.node, q.other} \in links
    BY <1>7, <2>1
  <2>2. CASE {q.node, q.other} \notin links
    <3>1. PICK p : p = requests'[r]
      OBVIOUS
    <3>2. p.op = "link" /\ p.step = "ok"
      BY <1>1, <1>7, <2>2, <3>1 DEF RequestSet
    <3>3. k[1] \notin Lists
      BY <1>3, <3>1, <3>2 DEF Affects
    <3>4. k[1] \in {"node", "content"}
      BY <3>3, KeyOfKind DEF Lists
    <3> QED
      BY <1>7, <3>4 DEF Answer
  <2> QED
    BY <2>1, <2>2
<1>8. CASE /\ q.op = "unlink" /\ links' = links \ {{q.node, q.other}}
           /\ requests' = [requests EXCEPT ![r].step = "ok"]
           /\ UNCHANGED <<rows, issued>>
  <2>1. PICK p : p = requests'[r]
    OBVIOUS
  <2>2. p.op = "unlink" /\ p.step = "ok"
    BY <1>1, <1>8, <2>1 DEF RequestSet
  <2>3. k[1] \notin Lists
    BY <1>3, <2>1, <2>2 DEF Affects
  <2>4. k[1] \in {"node", "content"}
    BY <2>3, KeyOfKind DEF Lists
  <2> QED
    BY <1>8, <2>4 DEF Answer
<1>9. CASE UNCHANGED api
  BY <1>9 DEF api
<1> QED
  BY <1>4, <1>5, <1>6, <1>7, <1>8, <1>9 DEF Execute
\* The requests when one of them has got further.
LEMMA OwedOn ==
    ASSUME NEW rs, NEW r \in DOMAIN rs, NEW ts, DOMAIN rs \subseteq DOMAIN ts,
           \A o \in DOMAIN rs \ {r} : ts[o] = rs[o],
           \A k : Owes(rs[r], k) => Owes(ts[r], k),
           NEW k, Owed(rs, k)
    PROVE  Owed(ts, k)
<1>1. PICK o \in DOMAIN rs : Owes(rs[o], k)
  BY DEF Owed
<1>2. Owes(ts[o], k) /\ o \in DOMAIN ts
  BY <1>1
<1> QED
  BY <1>2 DEF Owed

\* The fields of a request the API carries out, or loses, that stay.
LEMMA AnsweredAs ==
    ASSUME requests \in Seq(RequestSet), NEW r \in DOMAIN requests, Execute(r) \/ Lose(r)
    PROVE  /\ DOMAIN requests' = DOMAIN requests
           /\ \A o \in DOMAIN requests \ {r} : requests'[o] = requests[o]
           /\ requests'[r].op = requests[r].op
           /\ Execute(r) => /\ requests'[r].gap = requests[r].gap
                            /\ requests'[r].step \in {"ok", "linked", "refused"}
           /\ Lose(r) => /\ requests'[r].gap = (requests[r].step = "ok")
                         /\ requests'[r].step = "lost"
<1> DEFINE q == requests[r]
<1>1. q \in RequestSet /\ requests = [o \in DOMAIN requests |-> requests[o]]
  BY RequestSeq
<1>2. CASE requests' = [requests EXCEPT ![r].step = "ok", ![r].node = issued + 1,
                                        ![r].key = issued + 1] /\ ~Lose(r)
  BY <1>1, <1>2 DEF RequestSet
<1>3. ASSUME NEW step \in {"ok", "linked", "refused"}, ~Lose(r),
             requests' = [requests EXCEPT ![r].step = step]
      PROVE  /\ DOMAIN requests' = DOMAIN requests
             /\ \A o \in DOMAIN requests \ {r} : requests'[o] = requests[o]
             /\ requests'[r].op = requests[r].op
             /\ requests'[r].gap = requests[r].gap
             /\ requests'[r].step \in {"ok", "linked", "refused"}
  BY <1>1, <1>3 DEF RequestSet
<1>4. CASE Lose(r)
  <2> DEFINE p == [q EXCEPT !.step = "lost", !.gap = (q.step = "ok")]
  <2>1. requests' = [requests EXCEPT ![r] = p]
    BY <1>4 DEF Lose
  <2>2. p.op = q.op /\ p.gap = (q.step = "ok") /\ p.step = "lost"
    BY <1>1 DEF RequestSet
  <2> HIDE DEF p
  <2>3. requests'[r] = p /\ DOMAIN requests' = DOMAIN requests
        /\ \A o \in DOMAIN requests \ {r} : requests'[o] = requests[o]
    BY <1>1, <2>1
  <2>4. ~Execute(r)
    <3>1. ASSUME Execute(r) PROVE requests'[r].step \in {"ok", "linked", "refused"}
      <4>1. CASE requests' = [requests EXCEPT ![r].step = "ok", ![r].node = issued + 1,
                                              ![r].key = issued + 1]
        BY <1>1, <4>1 DEF RequestSet
      <4>2. ASSUME NEW step \in {"ok", "linked", "refused"},
                   requests' = [requests EXCEPT ![r].step = step]
            PROVE  requests'[r].step \in {"ok", "linked", "refused"}
        BY <1>1, <4>2 DEF RequestSet
      <4> QED
        BY <3>1, <4>1, <4>2 DEF Execute
    <3> QED
      BY <2>2, <2>3, <3>1
  <2> QED
    BY <1>4, <2>2, <2>3, <2>4
<1>5. CASE Execute(r) /\ ~Lose(r)
  BY <1>2, <1>3, <1>5 DEF Execute
<1> QED
  BY <1>4, <1>5

LEMMA ExecuteTruth ==
    ASSUME FrontendInv, TruthInv, NEW r \in DOMAIN requests, Execute(r)
    PROVE  TruthInv'
<1>1. /\ requests \in Seq(RequestSet) /\ UNCHANGED <<scenario, queries>>
      /\ Holds(cache, requests, observed) /\ TablesInv /\ LinksBorn /\ requests[r].step = "sent"
  BY TruthKeeps, PanelKeeps DEF Execute, TruthInv
<1>2. PICK rs, ts : rs = requests /\ ts = requests'
  OBVIOUS
<1>3. /\ DOMAIN ts = DOMAIN rs /\ \A o \in DOMAIN rs \ {r} : ts[o] = rs[o]
      /\ ts[r].op = rs[r].op /\ r \in DOMAIN rs
  BY <1>1, <1>2, AnsweredAs
<1>4. \A k : Owes(rs[r], k) => Owes(ts[r], k)
  BY <1>1, <1>2, <1>3 DEF Owes
<1>5. ASSUME NEW k \in Keys, ~Owed(ts, k) PROVE EntryTrue(cache[k], k, rows', links')
  <2>1. ~Owes(ts[r], k)
    BY <1>3, <1>5 DEF Owed
  <2>2. ~Owed(rs, k)
    BY <1>3, <1>4, <1>5, OwedOn
  <2>3. EntryTrue(cache[k], k, rows, links)
    BY <1>1, <1>2, <2>2 DEF Holds, Truth
  <2>4. Answer(k, rows', links') = Answer(k, rows, links) \/ Void(cache[k])
    BY <1>2, <2>1, ExecuteAnswers
  <2> QED
    BY <2>3, <2>4 DEF EntryTrue, Void
<1>6. Holds(cache, requests, observed)'
  BY <1>1, <1>2, <1>5 DEF Holds, Truth, Tidy, queries, page
<1>7. LinksBorn'
  <2>1. Born \subseteq Born'
    <3>1. issued' = issued \/ issued' = issued + 1
      BY DEF Execute, api
    <3> QED
      BY <1>1, <3>1 DEF TablesInv, Born
  <2>2. \A i : Exists(rows, i) => i \in Born
    BY <1>1 DEF TablesInv, Exists
  <2>3. \A l \in links' : l \in links \/ l \subseteq Born
    <3> DEFINE q == requests[r]
    <3>1. CASE links' \subseteq links
      BY <3>1
    <3>2. CASE Exists(rows, q.node) /\ Exists(rows, q.other)
               /\ links' = links \cup {{q.node, q.other}}
      BY <2>2, <3>2
    <3> QED
      BY <3>1, <3>2 DEF Execute, api
  <2> QED
    BY <1>1, <2>1, <2>3 DEF LinksBorn
<1> QED
  BY <1>6, <1>7 DEF TruthInv

LEMMA LoseTruth ==
    ASSUME FrontendInv, TruthInv, NEW r \in DOMAIN requests, Lose(r)
    PROVE  TruthInv'
<1>1. /\ requests \in Seq(RequestSet) /\ UNCHANGED <<scenario, api, queries>>
      /\ Holds(cache, requests, observed) /\ LinksBorn /\ requests[r].step \in {"sent", "ok"}
  BY TruthKeeps DEF Lose, TruthInv
<1>2. PICK rs, ts : rs = requests /\ ts = requests'
  OBVIOUS
<1>3. /\ DOMAIN ts = DOMAIN rs /\ \A o \in DOMAIN rs \ {r} : ts[o] = rs[o]
      /\ ts[r].op = rs[r].op /\ r \in DOMAIN rs
      /\ ts[r].gap = (rs[r].step = "ok") /\ ts[r].step = "lost"
  BY <1>1, <1>2, AnsweredAs
<1>4. \A k : Owes(rs[r], k) => Owes(ts[r], k)
  BY <1>1, <1>2, <1>3 DEF Owes
<1>5. ASSUME NEW k \in Keys, ~Owed(ts, k) PROVE EntryTrue(cache[k], k, rows, links)
  <2>1. ~Owed(rs, k)
    BY <1>3, <1>4, <1>5, OwedOn
  <2> QED
    BY <1>1, <1>2, <2>1 DEF Holds, Truth
<1>6. Holds(cache, requests, observed)'
  BY <1>1, <1>2, <1>5 DEF Holds, Truth, Tidy, queries, page, api
<1> QED
  BY <1>1, <1>6, LinksStay DEF TruthInv

LEMMA ServeTruth ==
    ASSUME FrontendInv, TruthInv, NEW k \in observed, Serve(k)
    PROVE  TruthInv'
<1>1. /\ UNCHANGED <<scenario, api, observed, requests>> /\ k \in Keys
      /\ Holds(cache, requests, observed) /\ LinksBorn /\ IsCache(cache, Born)
      /\ cache' = [cache EXCEPT ![k].wire = Answer(k, rows, links)]
  BY TruthKeeps, PanelKeeps DEF Serve, TruthInv
<1>2. PICK answer : answer = Answer(k, rows, links)
  OBVIOUS
<1>3. /\ cache = [j \in Keys |-> cache[j]] /\ cache[k] \in Entry(k, Born)
  BY <1>1 DEF IsCache
<1>4. /\ \A j \in Keys \ {k} : cache'[j] = cache[j]
      /\ cache'[k] = [cache[k] EXCEPT !.wire = answer]
  BY <1>1, <1>2, <1>3
<1>5. /\ cache'[k].wire = answer /\ cache'[k].data = cache[k].data
      /\ Fresh(cache'[k]) <=> Fresh(cache[k])
  BY <1>3, <1>4 DEF Entry, Fresh
<1>6. \A j \in Keys : EntryTrue(cache[j], j, rows, links) => EntryTrue(cache'[j], j, rows, links)
  BY <1>2, <1>4, <1>5 DEF EntryTrue
<1>7. \A j \in Keys : cache'[j].data = cache[j].data
  BY <1>4, <1>5
<1>8. Holds(cache, requests, observed)'
  BY <1>1, <1>6, <1>7 DEF Holds, Truth, Tidy, page, api
<1> QED
  BY <1>1, <1>8, LinksStay DEF TruthInv

\* What others do is never told.
LEMMA OtherUsersTruth ==
    ASSUME FrontendInv, TruthInv, OtherUsers
    PROVE  TruthInv'
<1>1. /\ UNCHANGED <<scenario, links, issued, queries>> /\ requests \in Seq(RequestSet)
      /\ Holds(cache, requests, observed) /\ LinksBorn
  BY TruthKeeps DEF OtherUsers, OtherUser, TruthInv
<1>2. PICK i, v, value, q :
         /\ q = [Request("patch", i, i, value, "other") EXCEPT !.step = "done", !.gap = TRUE]
         /\ Send(q)
  BY DEF OtherUsers, OtherUser
<1>3. q.gap = TRUE /\ q.step = "done"
  BY <1>2 DEF Request
<1>4. PICK ts : ts = Append(requests, q)
  OBVIOUS
<1>5. PICK n : n \in DOMAIN ts /\ ts[n] = q
  <2>1. requests \in Seq(RequestSet \cup {q})
    <3>1. /\ Len(requests) \in Nat /\ DOMAIN requests = 1..Len(requests)
          /\ \A r \in DOMAIN requests : requests[r] \in RequestSet
          /\ requests = [r \in DOMAIN requests |-> requests[r]]
      BY <1>1, RequestSeq
    <3>2. requests \in [1..Len(requests) -> RequestSet \cup {q}]
      BY <3>1
    <3> QED
      BY <3>1, <3>2, SeqDef
  <2>2. /\ ts \in Seq(RequestSet \cup {q}) /\ Len(ts) = Len(requests) + 1
        /\ ts[Len(requests) + 1] = q /\ Len(requests) \in Nat
    BY <1>4, <2>1
  <2>3. DOMAIN ts = 1..(Len(requests) + 1)
    BY <2>2, LenProperties
  <2> QED
    BY <2>2, <2>3
<1>6. \A k : Owed(ts, k)
  BY <1>3, <1>5 DEF Owed, Owes
<1>7. requests' = ts
  BY <1>2, <1>4 DEF Send
<1>8. Holds(cache, requests, observed)'
  BY <1>1, <1>6, <1>7 DEF Holds, Truth, Tidy, queries, page
<1>9. LinksBorn'
  BY <1>1 DEF LinksBorn, Born
<1> QED
  BY <1>8, <1>9 DEF TruthInv
-----------------------------------------------------------------------------
(* Gestures                                                                *)

\* What a request owes, nothing but the API and callbacks change.
LEMMA SteadyTruth ==
    ASSUME FrontendInv, TruthInv, UNCHANGED <<scenario, api, queries>>, Steady(requests, requests')
    PROVE  TruthInv'
<1>1. PICK c, rs, obs : c = cache /\ rs = requests /\ obs = observed
  OBVIOUS
<1>2. /\ Holds(c, rs, obs) /\ Fades(c, cache') /\ Steady(rs, requests')
      /\ \A k \in observed' : k \in obs \/ ~Foreign(k, page)
  BY <1>1, TruthKeeps, FadesSelf DEF queries
<1>3. Holds(cache, requests, observed)'
  BY <1>2, HoldsThen
<1> QED
  BY <1>3, LinksStay DEF TruthInv

LEMMA SendTruth ==
    ASSUME FrontendInv, TruthInv, UNCHANGED <<scenario, api, queries>>, NEW q, Send(q)
    PROVE  TruthInv'
  BY SendSteady, SteadyTruth

LEMMA StillTruth ==
    ASSUME FrontendInv, TruthInv, UNCHANGED <<scenario, api, queries, requests>>
    PROVE  TruthInv'
<1>1. PICK rs : rs = requests
  OBVIOUS
<1>2. Steady(rs, requests')
  BY <1>1, SteadySelf
<1> QED
  BY <1>1, <1>2, SteadyTruth

\* A page is drawn with the requests there are, forgotten by a dialog or not.
LEMMA GestureTruth ==
    ASSUME FrontendInv, TruthInv, UNCHANGED <<scenario, api>>,
           NEW s \in 0..MaxId, NEW p, NEW dialog,
           \/ Draw(s, cache, p, requests, observed)
           \/ Draw(s, cache, p, Forget(requests, dialog), observed)
    PROVE  TruthInv'
<1>1. PICK c, rs, obs, ts : c = cache /\ rs = requests /\ obs = observed /\ ts = Forget(rs, dialog)
  OBVIOUS
<1>2. /\ Holds(c, rs, obs) /\ IsCache(c, Born) /\ rs \in Seq(RequestSet)
  BY <1>1, TruthKeeps
<1>3. Steady(rs, ts) /\ ts \in Seq(RequestSet)
  BY <1>1, <1>2, ForgetSteady
<1>4. Holds(c, ts, obs)
  <2>1. Fades(c, c) /\ \A k \in obs : k \in obs \/ ~Foreign(k, page)
    BY FadesSelf
  <2> QED
    BY <1>2, <1>3, <2>1, HoldsOn
<1>5. Draw(s, c, p, rs, obs) \/ Draw(s, c, p, ts, obs)
  BY <1>1 DEF Draw
<1>6. CASE Draw(s, c, p, rs, obs)
  <2>1. Holds(cache, requests, observed)'
    BY <1>2, <1>6, DrawHolds
  <2> QED
    BY <2>1, LinksStay DEF TruthInv
<1>7. CASE Draw(s, c, p, ts, obs)
  <2>1. Holds(cache, requests, observed)'
    BY <1>2, <1>3, <1>4, <1>7, DrawHolds
  <2> QED
    BY <2>1, LinksStay DEF TruthInv
<1> QED
  BY <1>5, <1>6, <1>7

LEMMA ViewGestureTruth ==
    ASSUME FrontendInv, TruthInv, ViewGesture
    PROVE  TruthInv'
<1>1. shown \in 0..MaxId /\ Targets \cup {0} \subseteq 0..MaxId
  BY PanelKeeps, ZeroId, FrontendAssumption DEF Targets, FrontendInv, TablesInv
<1>2. CASE \/ \E i \in Targets \cup {0} : Open(i)
           \/ OpenEditor \/ CloseEditor \/ CloseDialog
           \/ \E dialog \in {"edit", "retype", "delete", "link", "create"} : OpenDialog(dialog)
  <2>1. PICK s, p, dialog :
           /\ s \in 0..MaxId /\ UNCHANGED <<scenario, api>>
           /\ \/ Draw(s, cache, p, requests, observed)
              \/ Draw(s, cache, p, Forget(requests, dialog), observed)
    <3>1. CASE \E i \in Targets \cup {0} : Open(i)
      <4>1. PICK i \in 0..MaxId : Open(i)
        BY <1>1, <3>1
      <4> QED
        BY <4>1 DEF Open
    <3>2. CASE OpenEditor
      BY <1>1, <3>2 DEF OpenEditor
    <3>3. CASE CloseEditor
      BY <1>1, <3>3 DEF CloseEditor
    <3>4. CASE CloseDialog
      BY <1>1, <3>4 DEF CloseDialog
    <3>5. CASE \E dialog \in {"edit", "retype", "delete", "link", "create"} : OpenDialog(dialog)
      BY <1>1, <3>5 DEF OpenDialog
    <3> QED
      BY <1>2, <3>1, <3>2, <3>3, <3>4, <3>5
  <2> QED
    BY <2>1, GestureTruth
<1>3. CASE \/ \E t \in Typed : Save(t) \/ UploadFile(t)
           \/ ConfirmDelete \/ AddChild
           \/ \E j \in Targets : ConfirmLink(j) \/ Unlink(j)
  <2>1. PICK q : Send(q)
    BY <1>3 DEF Save, UploadFile, ConfirmDelete, AddChild, ConfirmLink, Unlink
  <2>2. UNCHANGED <<scenario, api, queries>>
    BY <1>3 DEF Save, UploadFile, ConfirmDelete, AddChild, ConfirmLink, Unlink
  <2> QED
    BY <2>1, <2>2, SendTruth
<1>4. CASE \E field \in Fields, v \in Typed : TypeIn(field, v)
  BY <1>4, StillTruth DEF TypeIn
<1>5. CASE SubmitForm
  <2>1. CASE \E q : Send(q) /\ UNCHANGED queries
    <3>1. UNCHANGED <<scenario, api>>
      BY <1>5 DEF SubmitForm
    <3> QED
      BY <2>1, <3>1, SendTruth
  <2>2. CASE Draw(shown, cache, [panel EXCEPT !.dialog = "none"], requests, observed)
    <3>1. PICK s, p : s = shown /\ p = [panel EXCEPT !.dialog = "none"]
      OBVIOUS
    <3>2. Draw(s, cache, p, requests, observed) /\ s \in 0..MaxId /\ UNCHANGED <<scenario, api>>
      BY <1>1, <1>5, <2>2, <3>1 DEF SubmitForm
    <3> QED
      BY <3>2, GestureTruth
  <2> QED
    BY <1>5, <2>1, <2>2 DEF SubmitForm
<1> QED
  BY <1>2, <1>3, <1>4, <1>5 DEF ViewGesture

\* The page asks for other lists of its own.
LEMMA SyncTruth ==
    ASSUME FrontendInv, TruthInv, UNCHANGED <<scenario, api>>, NEW new,
           cache' = Sync(observed, new, cache), observed' = new,
           \A k \in new : k \in observed \/ ~Foreign(k, page), Steady(requests, requests')
    PROVE  TruthInv'
<1>1. PICK c, rs, obs : c = cache /\ rs = requests /\ obs = observed
  OBVIOUS
<1>2. Holds(c, rs, obs) /\ IsCache(c, Born)
  BY <1>1, TruthKeeps
<1>3. Fades(c, Sync(obs, new, c))
  BY <1>2, CacheFades
<1>4. /\ Fades(c, cache') /\ Steady(rs, requests')
      /\ \A k \in observed' : k \in obs \/ ~Foreign(k, page)
  BY <1>1, <1>3
<1>5. Holds(cache, requests, observed)'
  BY <1>2, <1>4, HoldsThen
<1> QED
  BY <1>5, LinksStay DEF TruthInv

LEMMA CanvasGestureTruth ==
    ASSUME FrontendInv, TruthInv, CanvasGesture
    PROVE  TruthInv'
<1>1. page = "workspace" /\ CanvasInv /\ AllSound(requests)
  BY PanelKeeps DEF CanvasGesture
<1>2. ASSUME NEW b \in DOMAIN Area, Pan(b) PROVE TruthInv'
  <2>1. PICK new, rs : /\ new = (observed \ {<<"viewport", bounds>>}) \cup {<<"viewport", b>>}
                       /\ rs = requests
    OBVIOUS
  <2>2. /\ cache' = Sync(observed, new, cache) /\ observed' = new
        /\ UNCHANGED <<scenario, api, requests>>
    BY <1>2, <2>1 DEF Pan
  <2>3. \A k \in new : k \in observed \/ ~Foreign(k, page)
    BY <1>1, <2>1 DEF Foreign
  <2>4. Steady(rs, rs)
    BY SteadySelf
  <2>5. Steady(requests, requests')
    BY <2>1, <2>2, <2>4
  <2> QED
    BY <2>2, <2>3, <2>5, SyncTruth
<1>3. CASE (\E i \in NodeIds : DragStart(i)) \/ \E p \in Places : PaneClick(p)
  BY <1>3, StillTruth DEF DragStart, PaneClick
<1>4. CASE \/ \E i \in NodeIds, p \in Places : DragStop(i, p)
           \/ \E i, j \in NodeIds : Connect(i, j)
           \/ \E e \in Pairs : Undo(e)
           \/ SubmitCreate
           \/ \E p \in Places : DropFile(p)
  <2>1. PICK q : Send(q)
    BY <1>4 DEF DragStop, Connect, Undo, SubmitCreate, DropFile
  <2>2. UNCHANGED <<scenario, api, queries>>
    BY <1>4 DEF DragStop, Connect, Undo, SubmitCreate, DropFile
  <2> QED
    BY <2>1, <2>2, SendTruth
<1>5. CASE \/ \E e \in Pairs : DeleteEdge(e)
           \/ \E i \in NodeIds : DeleteCard(i)
  <2>1. PICK gone \in SUBSET Pairs : EdgesDeleted(gone)
    BY <1>1, <1>5 DEF DeleteEdge, DeleteCard, CanvasInv
  <2>2. UNCHANGED <<scenario, api, queries>>
    BY <1>5 DEF DeleteEdge, DeleteCard
  <2>3. /\ Follows(requests, requests')
        /\ \A r \in DOMAIN requests : /\ requests'[r].step = requests[r].step
                                      /\ requests'[r].gap = requests[r].gap
    BY <1>1, <2>1, EdgesDeletedType
  <2>4. Steady(requests, requests')
    BY <2>3, FollowsSteady
  <2> QED
    BY <2>2, <2>4, SteadyTruth
<1>6. CASE CancelCreate
  <2>1. PICK rs : rs = requests
    OBVIOUS
  <2>2. rs \in Seq(RequestSet) /\ requests' = Forget(rs, "create")
        /\ UNCHANGED <<scenario, api, queries>>
    BY <1>1, <1>6, <2>1 DEF CancelCreate, AllSound
  <2>3. Steady(rs, Forget(rs, "create"))
    BY <2>2, ForgetSteady
  <2>4. Steady(requests, requests')
    BY <2>1, <2>2, <2>3
  <2> QED
    BY <2>2, <2>4, SteadyTruth
<1> QED
  BY <1>2, <1>3, <1>4, <1>5, <1>6 DEF CanvasGesture

LEMMA TaskGestureTruth ==
    ASSUME FrontendInv, TruthInv, TaskGesture
    PROVE  TruthInv'
<1>1. page = "tasks" /\ requests \in Seq(RequestSet) /\ IsCache(cache, Born)
      /\ Holds(cache, requests, observed)
  BY TruthKeeps DEF TaskGesture
<1>2. PICK c, rs, obs : c = cache /\ rs = requests /\ obs = observed
  OBVIOUS
<1>3. Holds(c, rs, obs) /\ rs \in Seq(RequestSet) /\ IsCache(c, Born)
  BY <1>1, <1>2
<1>4. ASSUME UNCHANGED <<scenario, api>>, NEW new, NEW d, Fades(c, d), cache' = d, observed' = new,
             \A k \in new : k \in obs \/ ~Foreign(k, page),
             NEW f, NEW b, NEW over, BoardDraws(d, f, b, rs, over)
      PROVE  TruthInv'
  <2>1. Holds(d, rs, obs)
    <3>1. Steady(rs, rs) /\ \A k \in obs : k \in obs \/ ~Foreign(k, page)
      BY SteadySelf
    <3> QED
      BY <1>3, <1>4, <3>1, HoldsOn
  <2>2. \A k \in observed' : k \in obs \/ ~Foreign(k, page)
    BY <1>4
  <2>3. Holds(cache, requests, observed)'
    BY <1>3, <1>4, <2>1, <2>2, BoardHolds
  <2> QED
    BY <1>4, <2>3, LinksStay DEF TruthInv
<1>5. ASSUME NEW f \in Filters, toggleStatus(f) PROVE TruthInv'
  <2>1. PICK new, d, b, over : /\ new = (obs \ {Path(filter)}) \cup {Path(f)}
                               /\ d = Sync(obs, new, c) /\ b = board /\ over = overrides
    OBVIOUS
  <2>2. /\ cache' = d /\ observed' = new /\ UNCHANGED <<scenario, api>>
        /\ BoardDraws(d, f, b, rs, over)
    BY <1>2, <1>5, <2>1 DEF toggleStatus
  <2>3. \A k \in new : k \in obs \/ ~Foreign(k, page)
    BY <1>1, <2>1 DEF Foreign, Path
  <2>4. Fades(c, Sync(obs, new, c))
    BY <1>3, CacheFades
  <2>5. Fades(c, d)
    BY <2>1, <2>4
  <2> QED
    BY <1>4, <2>2, <2>3, <2>5
<1>6. ASSUME handleViewChange PROVE TruthInv'
  <2>1. PICK f, b, over : f = filter /\ b = ~board /\ over = overrides
    OBVIOUS
  <2>2. /\ cache' = c /\ observed' = obs /\ UNCHANGED <<scenario, api>>
        /\ BoardDraws(c, f, b, rs, over)
    BY <1>2, <1>6, <2>1 DEF handleViewChange, queries
  <2>3. Fades(c, c)
    BY FadesSelf
  <2> QED
    BY <1>4, <2>2, <2>3
<1>7. ASSUME (\E i \in NodeIds, s \in Values : Drop(i, s)) \/ SubmitTask PROVE TruthInv'
  <2>1. PICK q : Send(q)
    BY <1>7 DEF Drop, SubmitTask
  <2>2. UNCHANGED <<scenario, api, queries>>
    BY <1>7 DEF Drop, SubmitTask
  <2> QED
    BY <2>1, <2>2, SendTruth
<1>8. ASSUME OpenCreateTask PROVE TruthInv'
  BY <1>8, StillTruth DEF OpenCreateTask
<1>9. ASSUME CloseCreateTask PROVE TruthInv'
  <2> DEFINE ts == [r \in DOMAIN rs |-> IF rs[r].by = "task" THEN [rs[r] EXCEPT !.host = "detached"]
                                        ELSE rs[r]]
  <2>1. requests' = ts /\ UNCHANGED <<scenario, api, queries>>
    BY <1>2, <1>9 DEF CloseCreateTask
  <2>2. ASSUME NEW r \in DOMAIN rs PROVE Due(rs[r], ts[r])
    <3> DEFINE d == [rs[r] EXCEPT !.host = "detached"]
    <3>1. rs[r] \in RequestSet
      BY <1>3, RequestSeq
    <3>2. ts[r] \in {rs[r], d}
      OBVIOUS
    <3>3. Due(rs[r], d) /\ Due(rs[r], rs[r])
      BY <3>1 DEF RequestSet, Due
    <3> HIDE DEF ts, d
    <3> QED
      BY <3>2, <3>3
  <2>3. DOMAIN ts = DOMAIN rs
    OBVIOUS
  <2> HIDE DEF ts
  <2>4. Steady(rs, ts)
    BY <2>2, <2>3 DEF Steady
  <2>5. Steady(requests, requests')
    BY <1>2, <2>1, <2>4
  <2> QED
    BY <2>1, <2>5, SteadyTruth
<1> QED
  BY <1>5, <1>6, <1>7, <1>8, <1>9 DEF TaskGesture
-----------------------------------------------------------------------------
(* Callbacks                                                               *)

\* What the callbacks of r leave, however the page goes on from there.
LEMMA CallbackHolds ==
    ASSUME FrontendInv, TruthInv, NEW r \in DOMAIN requests, requests[r].by # "other", Callbacks(r),
           NEW ts, Steady(Done(r), ts), NEW obs, obs \subseteq observed
    PROVE  Holds(Settled(cache, requests[r]), ts, obs)
<1>1. PICK d, rs, all : d = Settled(cache, requests[r]) /\ rs = Done(r) /\ all = observed
  OBVIOUS
<1>2. Holds(d, rs, all) /\ Steady(rs, ts)
  BY <1>1, SettledTruth
<1>3. Fades(d, d) /\ \A k \in obs : k \in all \/ ~Foreign(k, page)
  BY <1>1, FadesSelf
<1>4. Holds(d, ts, obs)
  BY <1>2, <1>3, HoldsOn
<1> QED
  BY <1>1, <1>4

LEMMA ViewSettlesTruth ==
    ASSUME FrontendInv, TruthInv, NEW r \in DOMAIN requests, ViewSettles(r)
    PROVE  TruthInv'
<1>1. PICK q, old, dialog : q = requests[r] /\ old = Done(r) /\ dialog = panel.dialog
  OBVIOUS
<1>2. PICK s, c, p, obs, rs, ts :
         /\ s = NextShown(q) /\ c = Settled(cache, q) /\ Draw(s, c, p, ts, obs) /\ obs \subseteq observed
         /\ rs = old \/ rs = Forget(old, dialog)
         /\ ts = IF q.step = "ok" /\ q.op = "create" THEN Append(rs, handleChildCreated(q)) ELSE rs
         /\ q.by \in Views /\ Callbacks(r) /\ UNCHANGED <<scenario, api>>
  <2> DEFINE q1 == requests[r]
             ok == q1.step = "ok"
             closes == ok /\ q1.host # "left" /\ panel.dialog = DialogOf(q1)
             saved == ok /\ q1.by = "editor" /\ page = "wiki" /\ q1.host = "mounted"
             removed == IF ok /\ q1.op = "delete" THEN {<<"node", q1.key>>, <<"content", q1.key>>} ELSE {}
             rs1 == IF closes THEN Forget(Done(r), panel.dialog) ELSE Done(r)
             p1 == [panel EXCEPT !.dialog = IF closes THEN "none" ELSE @,
                                 !.edit = @ /\ ~saved, !.compose = @ /\ ~saved]
             ts1 == IF ok /\ q1.op = "create" THEN Append(rs1, handleChildCreated(q1)) ELSE rs1
  <2>1. /\ Draw(NextShown(q1), Settled(cache, q1), p1, ts1, observed \ removed)
        /\ q1.by \in Views /\ Callbacks(r) /\ UNCHANGED <<scenario, api>>
    BY DEF ViewSettles, Views
  <2>2. rs1 = Done(r) \/ rs1 = Forget(Done(r), panel.dialog)
    OBVIOUS
  <2>3. ts1 = IF q1.step = "ok" /\ q1.op = "create" THEN Append(rs1, handleChildCreated(q1)) ELSE rs1
    OBVIOUS
  <2>4. observed \ removed \subseteq observed
    OBVIOUS
  <2> HIDE DEF p1, ts1, rs1, removed
  <2> QED
    BY <1>1, <2>1, <2>2, <2>3, <2>4
<1>3. old \in Seq(RequestSet) /\ q \in RequestSet /\ Sound(q, page, Born) /\ AllSound(old)
  BY <1>1, SoundDone DEF AllSound
<1>4. Steady(old, rs) /\ AllSound(rs)
  <2>1. Steady(old, Forget(old, dialog)) /\ Follows(old, Forget(old, dialog))
        /\ DOMAIN Forget(old, dialog) = DOMAIN old
    BY <1>3, ForgetSteady, ForgetType
  <2>2. AllSound(Forget(old, dialog))
    BY <1>3, <2>1, SoundFollows
  <2> QED
    BY <1>2, <1>3, <2>1, <2>2, SteadySelf
<1>5. Steady(old, ts) /\ ts \in Seq(RequestSet)
  <2>1. CASE q.step = "ok" /\ q.op = "create"
    <3>1. ts = Append(rs, handleChildCreated(q)) /\ rs \in Seq(RequestSet)
      BY <1>2, <1>4, <2>1 DEF AllSound
    <3>2. Steady(rs, ts)
      BY <3>1, AppendSteady
    <3>3. AllSound(ts)
      BY <1>2, <1>3, <1>4, <2>1, <3>1, SoundNext
    <3> QED
      BY <1>4, <3>2, <3>3, SteadyOn DEF AllSound
  <2>2. CASE ~(q.step = "ok" /\ q.op = "create")
    BY <1>2, <1>4, <2>2 DEF AllSound
  <2> QED
    BY <2>1, <2>2
<1>6. Holds(c, ts, obs)
  <2>1. q.by # "other"
    BY <1>2 DEF Views
  <2> QED
    BY <1>1, <1>2, <1>5, <2>1, CallbackHolds
<1>7. IsCache(c, Born)
  BY <1>2, <1>3, SettledType
<1>8. s \in 0..MaxId
  BY <1>2, <1>3, PanelKeeps, ZeroId DEF NextShown, RequestSet
<1>9. Holds(cache, requests, observed)'
  BY <1>2, <1>5, <1>6, <1>7, <1>8, DrawHolds
<1> QED
  BY <1>2, <1>9, LinksStay DEF TruthInv

LEMMA CanvasSettlesTruth ==
    ASSUME FrontendInv, TruthInv, NEW r \in DOMAIN requests, CanvasSettles(r)
    PROVE  TruthInv'
<1>1. PICK q, old, obs : q = requests[r] /\ old = Done(r) /\ obs = observed
  OBVIOUS
<1>2. PICK s, c, p, ts :
         /\ Draw(s, c, p, ts, obs) /\ s \in {q.node, shown} /\ c = Settled(cache, q)
         /\ ts = IF q.step = "ok" /\ q.op = "create" /\ q.by = "drop"
                 THEN Append(old, Request("raw", q.node, q.node, [text |-> Created.name], "drop"))
                 ELSE old
         /\ q.by \in {"canvas", "drop"} /\ Callbacks(r) /\ UNCHANGED <<scenario, api>>
  BY <1>1 DEF CanvasSettles
<1>3. old \in Seq(RequestSet) /\ q \in RequestSet /\ Sound(q, page, Born) /\ AllSound(old)
  BY <1>1, SoundDone DEF AllSound
<1>4. s \in 0..MaxId
  BY <1>2, <1>3, PanelKeeps DEF RequestSet
<1>5. ts \in Seq(RequestSet)
  BY <1>2, <1>3, SoundNext DEF AllSound
<1>6. Steady(old, ts)
  BY <1>2, <1>3, AppendSteady, SteadySelf
<1>7. Holds(c, ts, obs)
  <2>1. q.by # "other" /\ obs \subseteq observed
    BY <1>1, <1>2
  <2> QED
    BY <1>1, <1>2, <1>6, <2>1, CallbackHolds
<1>8. IsCache(c, Born)
  BY <1>2, <1>3, SettledType
<1>9. Holds(cache, requests, observed)'
  BY <1>2, <1>4, <1>5, <1>7, <1>8, DrawHolds
<1> QED
  BY <1>2, <1>9, LinksStay DEF TruthInv

LEMMA BoardSettlesTruth ==
    ASSUME FrontendInv, TruthInv, NEW r \in DOMAIN requests, DropSettles(r) \/ TaskSettles(r)
    PROVE  TruthInv'
<1>1. PICK q, old, obs, c : q = requests[r] /\ old = Done(r) /\ obs = observed /\ c = Settled(cache, q)
  OBVIOUS
<1>2. old \in Seq(RequestSet) /\ q \in RequestSet /\ Sound(q, page, Born) /\ AllSound(old)
  BY <1>1, SoundDone DEF AllSound
<1>3. /\ cache' = c /\ observed' = obs /\ UNCHANGED <<scenario, api>>
      /\ q.by \in {"board", "task"} /\ Callbacks(r)
  BY <1>1 DEF DropSettles, TaskSettles
<1>4. PICK ts, f, b, over :
         /\ BoardDraws(c, f, b, ts, over)
         /\ ts = old \/ (q.op = "create" /\ q.by = "task" /\ ts = old \o LinkTask(q))
  <2>1. CASE DropSettles(r)
    <3>1. PICK gone : gone = Reverted(q)
      OBVIOUS
    <3>2. PICK over : over = [i \in DOMAIN overrides \ gone |-> overrides[i]]
      OBVIOUS
    <3> QED
      BY <1>1, <2>1, <3>1, <3>2 DEF DropSettles
  <2>2. CASE TaskSettles(r)
    <3>1. PICK ts : ts = IF q.step = "ok" /\ q.op = "create" THEN old \o LinkTask(q) ELSE old
      OBVIOUS
    <3>2. BoardDraws(c, filter, board, ts, overrides) /\ q.by = "task"
      BY <1>1, <2>2, <3>1 DEF TaskSettles
    <3> QED
      BY <3>1, <3>2
  <2> QED
    BY <2>1, <2>2
<1>5. AllSound(ts) /\ ts \in Seq(RequestSet)
  BY <1>2, <1>4, SoundNext DEF AllSound
<1>6. Steady(old, ts)
  <2>1. CASE ts = old
    BY <2>1, SteadySelf
  <2>2. CASE ts = old \o LinkTask(q)
    <3>1. PICK link : LinkTask(q) = <<link>>
      BY DEF LinkTask
    <3>2. old \o <<link>> = Append(old, link)
      <4>1. old \in Seq(RequestSet \cup {link})
        <5>1. DOMAIN old = 1..Len(old) /\ Len(old) \in Nat
              /\ old \in [1..Len(old) -> RequestSet \cup {link}]
          BY <1>2, RequestSeq
        <5> QED
          BY <5>1, SeqDef
      <4> QED
        BY <4>1
    <3> QED
      BY <1>2, <2>2, <3>1, <3>2, AppendSteady
  <2> QED
    BY <1>4, <2>1, <2>2
<1>7. Holds(c, ts, obs)
  <2>1. q.by # "other" /\ obs \subseteq observed
    BY <1>1, <1>3
  <2> QED
    BY <1>1, <1>3, <1>6, <2>1, CallbackHolds
<1>8. \A k \in observed' : k \in obs \/ ~Foreign(k, page)
  BY <1>3
<1>9. Holds(cache, requests, observed)'
  BY <1>3, <1>4, <1>5, <1>7, <1>8, BoardHolds
<1> QED
  BY <1>3, <1>9, LinksStay DEF TruthInv

-----------------------------------------------------------------------------
(* The theorem                                                             *)

LEMMA InitTruth == Init => TruthInv
<1> SUFFICES ASSUME Init PROVE TruthInv
  OBVIOUS
<1>1. PICK b : b = [k \in Keys |-> Blank]
  OBVIOUS
<1>2. cache = Sync({}, Mounted, b) /\ observed = Mounted /\ scenario \in Scenarios
  BY <1>1 DEF Init, QueriesInit
<1>3. IsCache(b, {})
  BY <1>1 DEF IsCache, Blank, Entry
<1>4. Fades(b, cache)
  BY <1>2, <1>3, CacheFades
<1>5. \A k \in Keys : ~Fresh(b[k]) /\ ~Coming(b[k]) /\ b[k].data = NoData
  BY <1>1 DEF Blank, Fresh, Coming
<1>6. \A k \in Keys : Void(cache[k]) /\ cache[k].data = NoData
  BY <1>4, <1>5 DEF Fades, Fade, Void, Coming
<1>7. \A k \in Mounted : ~Foreign(k, page)
  <2>1. page = scenario.page
    BY DEF page
  <2>2. CASE page = "workspace"
    BY <2>2 DEF Mounted, Foreign
  <2>3. CASE page = "tasks"
    BY <2>3 DEF Mounted, Foreign, Path
  <2>4. CASE page \notin {"workspace", "tasks"}
    BY <2>4 DEF Mounted, Foreign
  <2> QED
    BY <2>2, <2>3, <2>4
<1>8. Holds(cache, requests, observed)
  BY <1>2, <1>6, <1>7 DEF Holds, Truth, Tidy, EntryTrue, Void
<1>9. LinksBorn
  <2>1. links = scenario.links /\ issued = scenario.issued
    BY DEF Init
  <2>2. \A l \in scenario.links : l \subseteq 1..scenario.issued
    BY <1>2, FrontendAssumption
  <2> QED
    BY <2>1, <2>2 DEF LinksBorn, Born
<1> QED
  BY <1>8, <1>9 DEF TruthInv

LEMMA StepTruth == FrontendInv /\ TruthInv /\ [Next]_vars => TruthInv'
<1> SUFFICES ASSUME FrontendInv, TruthInv, [Next]_vars PROVE TruthInv'
  OBVIOUS
<1>1. CASE API
  <2>1. CASE \E r \in DOMAIN requests : Execute(r) \/ Lose(r)
    BY <2>1, ExecuteTruth, LoseTruth
  <2>2. CASE \E k \in observed : Serve(k)
    BY <2>2, ServeTruth
  <2> QED
    BY <1>1, <2>1, <2>2 DEF API
<1>2. CASE FilterGesture \/ BoardRedraws
  BY <1>2, StillTruth DEF FilterGesture, BoardRedraws
<1>3. CASE UNCHANGED vars
  BY <1>3, StillTruth DEF vars
<1>4. CASE \E r \in DOMAIN requests : Callback(r)
  BY <1>4, ViewSettlesTruth, CanvasSettlesTruth, BoardSettlesTruth DEF Callback, PanelSettles
<1> QED
  BY <1>1, <1>2, <1>3, <1>4, CacheTruth, ViewGestureTruth, CanvasGestureTruth, TaskGestureTruth,
     OtherUsersTruth DEF Next

\* Once everything is settled and was told, no request owes anything.
LEMMA TruthTold == FrontendInv /\ TruthInv => CacheTellsTheTruth
<1> SUFFICES ASSUME FrontendInv, TruthInv, AllTold, NEW k \in Keys,
                    ~cache[k].stale, cache[k].wire = Idle, cache[k].error = "no",
                    cache[k].data # NoData
             PROVE  cache[k].data = Answer(k, rows, links)
  BY DEF CacheTellsTheTruth
<1>1. Holds(cache, requests, observed)
  BY TruthKeeps
<1>2. ~Owed(requests, k)
  BY DEF Owed, Owes, AllTold, InFlight
<1>3. Fresh(cache[k])
  BY DEF Fresh
<1> QED
  BY <1>1, <1>2, <1>3 DEF Holds, Truth, EntryTrue

\* CacheTellsTheTruth: on every page, with any number of queries and mutations under way,
\* aborted, answered late, refused or lost, what the cache (TanStack Query, with the
\* invalidations of the mutation hooks) holds as fresh once all has settled is what the
\* API would answer.
THEOREM CacheTellsTheTruthAlways == Spec => []CacheTellsTheTruth
<1>1. Init => FrontendInv /\ TruthInv
  BY InitInv, InitTruth
<1>2. (FrontendInv /\ TruthInv) /\ [Next]_vars => (FrontendInv /\ TruthInv)'
  BY StepInv, StepTruth
<1>3. FrontendInv /\ TruthInv => CacheTellsTheTruth
  BY TruthTold
<1> QED
  BY <1>1, <1>2, <1>3, PTL DEF Spec

=============================================================================
