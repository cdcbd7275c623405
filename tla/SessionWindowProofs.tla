------------------------ MODULE SessionWindowProofs ------------------------
(***************************************************************************)
(* Proofs about the server's session window: for every window size,        *)
(* refresh distance, recovery range, number of workers, of endpoints, of   *)
(* datagrams and of time windows, and every assignment of endpoints to     *)
(* workers.                                                                *)
(*                                                                         *)
(* The argument: mark_tag_received keeps an exact bitmap exact             *)
(* (MarkExact) whichever worker calls it and whatever happened since the   *)
(* datagram's tag was validated, as long as the session still has the      *)
(* datagram's key; the ratchet starts an exact window because nothing was  *)
(* processed under the new key before (RatchetFirst); the other steps      *)
(* leave the bitmap and the counter alone, except a recovery that moves    *)
(* the counter and ends the claim.                                         *)
(***************************************************************************)
EXTENDS SessionWindow, TLAPS

(* The bits bs under the highest counter h are exact for key k when the    *)
(* pairs in done are the processed ones.                                   *)
ExactFor(k, h, bs, done) ==
  \A c \in Ctrs :
    /\ <<k, c>> \in done => c <= h
    /\ c <= h /\ h - c < TagWindow => ((h - c) \in bs <=> <<k, c>> \in done)

(* The larger of two counters is a counter, and bounds both. *)
LEMMA MaxOfFacts ==
  ASSUME NEW a \in Ctrs, NEW b \in Ctrs
  PROVE  /\ MaxOf(a, b) \in Ctrs
         /\ MaxOf(a, b) >= a /\ MaxOf(a, b) >= b
         /\ MaxOf(a, b) = a \/ MaxOf(a, b) = b
BY SessionAssumption DEF MaxOf, Ctrs

(* mark_tag_received keeps the bitmap inside the window. *)
LEMMA MarkBitsType ==
  ASSUME NEW c \in Ctrs, NEW h \in Ctrs, NEW bs \in SUBSET BitRange
  PROVE  MarkBits(c, h, bs) \in SUBSET BitRange
BY SessionAssumption DEF MarkBits, BitRange, Ctrs

(* mark_tag_received keeps an exact bitmap exact. *)
LEMMA MarkExact ==
  ASSUME NEW k \in {0, 1}, NEW c \in Ctrs, NEW h \in Ctrs,
         NEW bs \in SUBSET BitRange, NEW done, ExactFor(k, h, bs, done)
  PROVE  ExactFor(k, MaxOf(c, h), MarkBits(c, h, bs), done \cup {<<k, c>>})
<1> DEFINE m == MaxOf(c, h)
           bits == MarkBits(c, h, bs)
<1> USE SessionAssumption DEF Ctrs, BitRange
<1> SUFFICES ASSUME NEW d \in Ctrs
             PROVE  /\ <<k, d>> \in done \cup {<<k, c>>} => d <= m
                    /\ d <= m /\ m - d < TagWindow =>
                         ((m - d) \in bits <=> <<k, d>> \in done \cup {<<k, c>>})
  BY DEF ExactFor
<1>1. /\ <<k, d>> \in done => d <= h
      /\ d <= h /\ h - d < TagWindow => ((h - d) \in bs <=> <<k, d>> \in done)
  BY DEF ExactFor
<1>2. <<k, d>> \in done \cup {<<k, c>>} <=> (<<k, d>> \in done \/ d = c)
  OBVIOUS
<1>3. CASE c > h
  <2>1. m = c /\ bits = ({b + (c - h) : b \in bs} \cap BitRange) \cup {0}
    BY <1>3 DEF MaxOf, MarkBits
  <2>2. \A b \in BitRange : b \in {x + (c - h) : x \in bs} <=> (b - (c - h)) \in bs
    <3>1. SUFFICES ASSUME NEW b \in BitRange
                   PROVE  b \in {x + (c - h) : x \in bs} <=> (b - (c - h)) \in bs
      OBVIOUS
    <3>2. \A x \in bs : x \in Int /\ (x + (c - h) = b <=> x = b - (c - h))
      OBVIOUS
    <3>3. QED BY <3>2
  <2>3. d <= c /\ c - d < TagWindow /\ d # c =>
          ((c - d) \in bits <=> (h - d) \in bs)
    <3>1. SUFFICES ASSUME d <= c, c - d < TagWindow, d # c
                   PROVE  (c - d) \in bits <=> (h - d) \in bs
      OBVIOUS
    <3>2. (c - d) \in BitRange /\ (c - d) # 0 /\ (c - d) - (c - h) = h - d
      BY <3>1
    <3>3. QED BY <2>1, <2>2, <3>2
  <2>4. (h - d) \in bs => d <= h /\ h - d < TagWindow
    OBVIOUS
  <2>5. QED BY <1>1, <1>2, <1>3, <2>1, <2>3, <2>4
<1>4. CASE c <= h
  <2>1. m = h
    BY <1>4 DEF MaxOf
  <2>2. CASE h - c < TagWindow
    <3>1. bits = bs \cup {h - c}
      BY <1>4, <2>2 DEF MarkBits
    <3>2. QED BY <1>1, <1>2, <1>4, <2>1, <3>1
  <2>3. CASE ~ (h - c < TagWindow)
    <3>1. bits = bs
      BY <1>4, <2>3 DEF MarkBits
    <3>2. QED BY <1>1, <1>2, <1>4, <2>1, <2>3, <3>1
  <2>4. QED BY <2>2, <2>3
<1>5. QED BY <1>3, <1>4

(* BitmapExact in terms of ExactFor. *)
LEMMA ExactForm == BitmapExact <=> (exact => ExactFor(key, counter, bitmap, delivered))
BY DEF BitmapExact, ExactFor

(* The worker's job is a datagram at a step, not the idle job. *)
LEMMA JobFacts ==
  ASSUME SessTypeOK, NEW w \in Workers, NEW s \in Steps, At(w, s)
  PROVE  /\ job[w] \in [step : Steps, p : Datagrams, rat : BOOLEAN]
         /\ job[w].p \in Datagrams /\ job[w].rat \in BOOLEAN
         /\ job[w].p.ctr \in Ctrs /\ job[w].p.key \in {0, 1}
         /\ job[w].p.src \in Endpoints
<1>1. s # "idle"
  BY DEF Steps
<1>2. job[w] \in Jobs /\ job[w] # Idle
  BY <1>1 DEF SessTypeOK, At, Idle
<1>3. job[w] \in [step : Steps, p : Datagrams, rat : BOOLEAN]
  BY <1>2 DEF Jobs
<1>4. job[w].p \in Datagrams /\ job[w].rat \in BOOLEAN
  BY <1>3
<1>5. QED BY <1>3, <1>4 DEF Datagrams

(* Going on to another step or returning keeps the jobs well formed, and   *)
(* brings a worker to "mark" only by going there.                          *)
LEMMA GoToType ==
  ASSUME SessTypeOK, NEW w \in Workers, NEW s \in Steps, At(w, s),
         NEW t \in Steps, NEW r \in BOOLEAN, GoTo(w, t, r)
  PROVE  /\ job' \in [Workers -> Jobs]
         /\ job'[w].p = job[w].p /\ job'[w].step = t
         /\ \A v \in Workers : v # w => job'[v] = job[v]
<1>1. job[w] \in [step : Steps, p : Datagrams, rat : BOOLEAN]
  BY JobFacts
<1> DEFINE j == [step |-> t, p |-> job[w].p, rat |-> r]
<1>2. j \in [step : Steps, p : Datagrams, rat : BOOLEAN] /\ j.p = job[w].p /\ j.step = t
  BY <1>1
<1>3. job' = [job EXCEPT ![w] = j]
  BY DEF GoTo
<1>4. job \in [Workers -> Jobs]
  BY DEF SessTypeOK
<1> HIDE DEF j
<1>5. QED BY <1>2, <1>3, <1>4 DEF Jobs

LEMMA DoneType ==
  ASSUME SessTypeOK, NEW w \in Workers, Done(w)
  PROVE  /\ job' \in [Workers -> Jobs]
         /\ job'[w] = Idle
         /\ \A v \in Workers : v # w => job'[v] = job[v]
<1>1. job \in [Workers -> Jobs]
  BY DEF SessTypeOK
<1>2. QED BY <1>1 DEF Done, Jobs

(* A step that leaves the session and the history alone keeps what says    *)
(* nothing about the workers.                                              *)
LEMMA ReadsKeep ==
  ASSUME SessInv, UNCHANGED <<session, now, delivered, exact>>
  PROVE  BitmapExact' /\ BaseBehind'
         /\ (key' = 0 => \A c \in Ctrs : <<1, c>> \notin delivered')
BY ExactForm
   DEF SessInv, BitmapExact, BaseBehind, RatchetFirst, session, tags

(* The steps that only read the session. *)
LEMMA DispatchKeeps ==
  ASSUME SessInv, NEW p \in uplink, Dispatch(p)
  PROVE  SessInv'
<1>1. UNCHANGED <<session, now, delivered, exact>> /\ UNCHANGED client
  BY DEF Dispatch
<1> DEFINE x == WorkerIndex(p)
           j == [step |-> "queued", p |-> p, rat |-> FALSE]
<1>2. p \in Datagrams /\ job \in [Workers -> Jobs]
  BY DEF SessInv, SessTypeOK
<1>3. job' = [job EXCEPT ![x] = j]
  BY DEF Dispatch
<1>4. j \in Jobs /\ j.step # "mark"
  BY <1>2 DEF Jobs, Steps
<1> HIDE DEF j, x
<1>5. job' \in [Workers -> Jobs]
  BY <1>2, <1>3, <1>4
<1>6. SessTypeOK'
  BY <1>1, <1>5 DEF SessInv, SessTypeOK, session, tags, client
<1>7. \A v \in Workers : job'[v] = job[v] \/ job'[v].step # "mark"
  BY <1>2, <1>3, <1>4
<1>8. RatchetFirst'
  BY <1>1, <1>7, ReadsKeep DEF SessInv, RatchetFirst, At, session
<1>9. QED BY <1>1, <1>6, <1>8, ReadsKeep DEF SessInv

LEMMA LookupFastKeeps ==
  ASSUME SessInv, NEW w \in Workers, LookupFast(w)
  PROVE  SessInv'
<1>1. UNCHANGED <<session, now, delivered, exact>> /\ UNCHANGED client
  BY DEF LookupFast, OnlyReads
<1>2. SessTypeOK /\ At(w, "queued") /\ "queued" \in Steps /\ "decrypt" \in Steps
  BY DEF SessInv, LookupFast, Steps
<1>3. /\ job' \in [Workers -> Jobs]
      /\ job'[w].step # "mark"
      /\ \A v \in Workers : v # w => job'[v] = job[v]
  <2>1. CASE Done(w)
    BY <1>2, <2>1, DoneType DEF Idle
  <2>2. CASE GoTo(w, "decrypt", FALSE)
    BY <1>2, <2>2, GoToType
  <2>3. CASE GoTo(w, "decrypt", TRUE)
    BY <1>2, <2>3, GoToType
  <2>4. QED BY <2>1, <2>2, <2>3 DEF LookupFast
<1>4. SessTypeOK'
  BY <1>1, <1>3 DEF SessInv, SessTypeOK, session, tags, client
<1>5. RatchetFirst'
  BY <1>1, <1>3, ReadsKeep DEF SessInv, RatchetFirst, At, session
<1>6. QED BY <1>1, <1>4, <1>5, ReadsKeep DEF SessInv

LEMMA SearchKeeps ==
  ASSUME SessInv, NEW w \in Workers, Search(w)
  PROVE  SessInv'
<1>1. UNCHANGED <<session, now, delivered, exact>> /\ UNCHANGED client
  BY DEF Search, OnlyReads
<1>2. SessTypeOK /\ At(w, "search") /\ "search" \in Steps /\ "recover" \in Steps
  BY DEF SessInv, Search, Steps
<1>3. /\ job' \in [Workers -> Jobs]
      /\ job'[w].step # "mark"
      /\ \A v \in Workers : v # w => job'[v] = job[v]
  <2>1. CASE Done(w)
    BY <1>2, <2>1, DoneType DEF Idle
  <2>2. CASE GoTo(w, "recover", FALSE)
    BY <1>2, <2>2, GoToType
  <2>3. QED BY <2>1, <2>2 DEF Search
<1>4. SessTypeOK'
  BY <1>1, <1>3 DEF SessInv, SessTypeOK, session, tags, client
<1>5. RatchetFirst'
  BY <1>1, <1>3, ReadsKeep DEF SessInv, RatchetFirst, At, session
<1>6. QED BY <1>1, <1>4, <1>5, ReadsKeep DEF SessInv

(* A datagram is brought to "mark" with the key the session has. *)
LEMMA DecryptKeeps ==
  ASSUME SessInv, NEW w \in Workers, Decrypt(w)
  PROVE  SessInv'
<1>1. UNCHANGED <<session, now, delivered, exact>> /\ UNCHANGED client
  BY DEF Decrypt, OnlyReads
<1>2. SessTypeOK /\ At(w, "decrypt") /\ "decrypt" \in Steps
      /\ "mark" \in Steps /\ "ratchet" \in Steps
  BY DEF SessInv, Decrypt, Steps
<1>0. job[w].rat \in BOOLEAN
  BY <1>2, JobFacts
<1>3. /\ job' \in [Workers -> Jobs]
      /\ job'[w].step = "mark" => job'[w].p.key = key
      /\ \A v \in Workers : v # w => job'[v] = job[v]
  <2>1. CASE Done(w)
    BY <1>2, <2>1, DoneType DEF Idle
  <2>2. CASE job[w].rat /\ GoTo(w, "ratchet", job[w].rat)
    BY <1>0, <1>2, <2>2, GoToType
  <2>3. CASE /\ ~ job[w].rat /\ Decrypts(job[w].p, job[w].rat)
             /\ GoTo(w, "mark", job[w].rat)
    <3>1. job[w].p.key = key
      BY <2>3 DEF Decrypts
    <3>2. QED BY <1>0, <1>2, <2>3, <3>1, GoToType
  <2>4. QED BY <1>0, <2>1, <2>2, <2>3 DEF Decrypt
<1>4. SessTypeOK'
  BY <1>1, <1>3 DEF SessInv, SessTypeOK, session, tags, client
<1>5. RatchetFirst'
  BY <1>1, <1>3, ReadsKeep DEF SessInv, RatchetFirst, At, session
<1>6. QED BY <1>1, <1>4, <1>5, ReadsKeep DEF SessInv

(* A refresh moves the base to the highest counter. *)
LEMMA LookupRefreshingKeeps ==
  ASSUME SessInv, NEW w \in Workers, LookupRefreshing(w)
  PROVE  SessInv'
<1>1. /\ UNCHANGED <<key, counter, bitmap, addr, client, now, delivered, exact>>
      /\ base' = counter /\ expTw' = now
      /\ ratTw' = RefreshedRatTw /\ ratInMap' = TRUE
  BY DEF LookupRefreshing
<1>2. SessTypeOK /\ At(w, "queued") /\ "queued" \in Steps /\ "decrypt" \in Steps
      /\ "search" \in Steps
  BY DEF SessInv, LookupRefreshing, Steps
<1>3. /\ job' \in [Workers -> Jobs]
      /\ job'[w].step # "mark"
      /\ \A v \in Workers : v # w => job'[v] = job[v]
  <2>1. CASE GoTo(w, "decrypt", FALSE)
    BY <1>2, <2>1, GoToType
  <2>2. CASE GoTo(w, "decrypt", TRUE)
    BY <1>2, <2>2, GoToType
  <2>3. CASE GoTo(w, "search", FALSE)
    BY <1>2, <2>3, GoToType
  <2>4. QED BY <2>1, <2>2, <2>3 DEF LookupRefreshing
<1>4. SessTypeOK'
  BY <1>1, <1>2, <1>3 DEF SessTypeOK, RefreshedRatTw, client
<1>5. BitmapExact'
  BY <1>1, ExactForm DEF SessInv, BitmapExact
<1>6. BaseBehind'
  BY <1>1, <1>2, SessionAssumption DEF BaseBehind, SessTypeOK, Ctrs
<1>7. RatchetFirst'
  BY <1>1, <1>3 DEF SessInv, RatchetFirst, At
<1>8. QED BY <1>4, <1>5, <1>6, <1>7 DEF SessInv

(* A recovery keeps the claim only if it leaves the counter where it was. *)
LEMMA RecoverKeeps ==
  ASSUME SessInv, NEW w \in Workers, Recover(w)
  PROVE  SessInv'
<1>1. /\ UNCHANGED <<key, ratTw, bitmap, addr, client, now, delivered>>
      /\ counter' = job[w].p.ctr /\ base' = job[w].p.ctr /\ expTw' = now
      /\ ratInMap' = FALSE /\ exact' = (exact /\ job[w].p.ctr = counter)
  BY DEF Recover
<1>2. SessTypeOK /\ At(w, "recover") /\ "recover" \in Steps /\ "decrypt" \in Steps
  BY DEF SessInv, Recover, Steps
<1>3. /\ job' \in [Workers -> Jobs]
      /\ job'[w].step # "mark"
      /\ \A v \in Workers : v # w => job'[v] = job[v]
  BY <1>2, GoToType DEF Recover
<1>4. job[w].p.ctr \in Ctrs
  BY <1>2, JobFacts
<1>5. SessTypeOK'
  BY <1>1, <1>2, <1>3, <1>4 DEF SessTypeOK, client
<1>6. BitmapExact'
  <2>1. exact' => exact /\ counter' = counter
    BY <1>1
  <2>2. QED BY <1>1, <2>1 DEF SessInv, BitmapExact
<1>7. BaseBehind'
  BY <1>1, <1>4, SessionAssumption DEF BaseBehind, Ctrs
<1>8. RatchetFirst'
  BY <1>1, <1>3 DEF SessInv, RatchetFirst, At
<1>9. QED BY <1>5, <1>6, <1>7, <1>8 DEF SessInv

(* The ratchet starts a window that is exact: nothing was processed under  *)
(* the new key before, and the bitmap is empty.                            *)
LEMMA RatchetKeeps ==
  ASSUME SessInv, NEW w \in Workers, Ratchet(w)
  PROVE  SessInv'
<1> USE SessionAssumption
<1>1. UNCHANGED <<ratTw, addr, client, now, delivered>> /\ ratInMap' = TRUE
  BY DEF Ratchet
<1>2. SessTypeOK /\ At(w, "ratchet") /\ "ratchet" \in Steps /\ "mark" \in Steps
  BY DEF SessInv, Ratchet, Steps
<1>3. /\ job' \in [Workers -> Jobs]
      /\ \A v \in Workers : v # w => job'[v] = job[v]
  BY <1>2, GoToType DEF Ratchet
<1>4. key' = 1
  BY <1>2 DEF Ratchet, SessTypeOK
<1>5. RatchetFirst'
  BY <1>4 DEF RatchetFirst
<1>6. CASE key = 0
  <2>1. /\ counter' = 0 /\ base' = 0 /\ expTw' = ratTw
        /\ exact' = TRUE /\ bitmap' = {}
    BY <1>6 DEF Ratchet
  <2>2. SessTypeOK'
    BY <1>1, <1>2, <1>3, <1>4, <2>1 DEF SessTypeOK, client, Ctrs
  <2>3. BaseBehind'
    BY <2>1 DEF BaseBehind
  <2>4. BitmapExact'
    BY <1>1, <1>4, <1>6, <2>1 DEF SessInv, RatchetFirst, BitmapExact
  <2>5. QED BY <1>5, <2>2, <2>3, <2>4 DEF SessInv
<1>7. CASE key = 1
  <2>1. UNCHANGED <<key, counter, base, expTw, bitmap, exact>>
    BY <1>7 DEF Ratchet
  <2>2. SessTypeOK'
    BY <1>1, <1>2, <1>3, <2>1 DEF SessTypeOK, client
  <2>3. BaseBehind' /\ BitmapExact'
    BY <1>1, <2>1 DEF SessInv, BaseBehind, BitmapExact
  <2>4. QED BY <1>5, <2>2, <2>3 DEF SessInv
<1>8. QED BY <1>2, <1>6, <1>7 DEF SessTypeOK

(* Marking keeps the bitmap exact under the session's key, whichever       *)
(* worker marks and whatever the others did since the lookup.              *)
LEMMA MarkKeeps ==
  ASSUME SessInv, NEW w \in Workers, MarkReceived(w)
  PROVE  SessInv'
<1> USE SessionAssumption
<1> DEFINE p == job[w].p
           m == MaxOf(p.ctr, counter)
<1>1. /\ UNCHANGED <<key, ratTw, client, now>> /\ Done(w)
      /\ counter' = m /\ bitmap' = MarkBits(p.ctr, counter, bitmap)
      /\ addr' = p.src
      /\ delivered' = delivered \cup {<<p.key, p.ctr>>}
      /\ exact' = (exact /\ p.key = key)
  BY DEF MarkReceived
<1>2. SessTypeOK /\ At(w, "mark") /\ "mark" \in Steps
  BY DEF SessInv, MarkReceived, Steps
<1>3. p.ctr \in Ctrs /\ p.key \in {0, 1} /\ p.src \in Endpoints
  BY <1>2, JobFacts
<1>4. counter \in Ctrs /\ base \in Ctrs /\ bitmap \in SUBSET BitRange /\ key \in {0, 1}
  BY <1>2 DEF SessTypeOK
<1>5. m \in Ctrs /\ m >= p.ctr /\ m >= counter /\ (m = p.ctr \/ m = counter)
  BY <1>3, <1>4, MaxOfFacts
<1>6. bitmap' \in SUBSET BitRange
  BY <1>1, <1>3, <1>4, MarkBitsType
<1>7. /\ job' \in [Workers -> Jobs]
      /\ job'[w].step # "mark"
      /\ \A v \in Workers : v # w => job'[v] = job[v]
  BY <1>1, <1>2, DoneType DEF Idle
<1>8. base' \in Ctrs /\ expTw' \in Tws /\ ratInMap' \in BOOLEAN
  BY <1>2, <1>5 DEF MarkReceived, SessTypeOK
<1>9. delivered' \in SUBSET ({0, 1} \X Ctrs)
  BY <1>1, <1>2, <1>3 DEF SessTypeOK
<1>10. SessTypeOK'
  BY <1>1, <1>2, <1>3, <1>5, <1>6, <1>7, <1>8, <1>9 DEF SessTypeOK, client
<1>11. BitmapExact'
  <2>1. SUFFICES ASSUME exact' PROVE ExactFor(key', counter', bitmap', delivered')
    BY DEF BitmapExact, ExactFor
  <2>2. exact /\ p.key = key
    BY <1>1, <2>1
  <2>3. ExactFor(key, counter, bitmap, delivered)
    BY <2>2, ExactForm DEF SessInv
  <2>4. ExactFor(key, m, MarkBits(p.ctr, counter, bitmap), delivered \cup {<<key, p.ctr>>})
    BY <1>3, <1>4, <2>3, MarkExact
  <2>5. QED BY <1>1, <2>2, <2>4
<1>12. BaseBehind'
  <2>1. CASE NeedsRefresh(p.ctr)
    <3>1. base' = m
      BY <2>1 DEF MarkReceived
    <3>2. QED BY <1>1, <1>5, <3>1 DEF BaseBehind, Ctrs
  <2>2. CASE ~ NeedsRefresh(p.ctr)
    <3>1. base' = base
      BY <2>2 DEF MarkReceived
    <3>2. p.ctr - base < RefreshEvery
      BY <1>3, <1>4, <2>2 DEF NeedsRefresh, Ctrs
    <3>3. QED BY <1>1, <1>3, <1>4, <1>5, <3>1, <3>2 DEF SessInv, BaseBehind, Ctrs
  <2>3. QED BY <2>1, <2>2
<1>13. RatchetFirst'
  <2>1. SUFFICES ASSUME key' = 0
                 PROVE  /\ \A c \in Ctrs : <<1, c>> \notin delivered'
                        /\ \A v \in Workers : job'[v].step = "mark" => job'[v].p.key = 0
    BY DEF RatchetFirst, At
  <2>2. key = 0 /\ p.key = 0
    BY <1>1, <1>2, <2>1 DEF SessInv, RatchetFirst
  <2>3. \A c \in Ctrs : <<1, c>> # <<p.key, p.ctr>>
    BY <2>2
  <2>4. \A c \in Ctrs : <<1, c>> \notin delivered'
    BY <1>1, <2>2, <2>3 DEF SessInv, RatchetFirst
  <2>5. QED BY <1>7, <2>2, <2>4 DEF SessInv, RatchetFirst, At
<1>14. QED BY <1>10, <1>11, <1>12, <1>13 DEF SessInv

-----------------------------------------------------------------------------
(* A session that the handshake has just created satisfies SessInv. *)
LEMMA InitSessInv == SessInit => SessInv
<1> SUFFICES ASSUME SessInit PROVE SessInv
  OBVIOUS
<1> USE SessionAssumption
<1>1. FirstInit \in Datagrams
  BY DEF FirstInit, Datagrams, Ctrs, Tws
<1>2. job \in [Workers -> Jobs] /\ \A w \in Workers : job[w].step # "mark"
  BY <1>1 DEF SessInit, Jobs, Steps, Idle
<1>3. SessTypeOK
  <2>1. uplink \in SUBSET Datagrams
    BY <1>1 DEF SessInit
  <2>2. /\ 0 \in Ctrs /\ 0 \in Tws /\ 0 \in 0 .. MaxMoves
        /\ 1 \in 0 .. (MaxCtr + 1)
    BY DEF Ctrs, Tws
  <2>3. QED BY <1>2, <2>1, <2>2 DEF SessInit, SessTypeOK
<1>4. BitmapExact /\ BaseBehind
  BY DEF SessInit, BitmapExact, BaseBehind
<1>5. RatchetFirst
  BY <1>2 DEF SessInit, RatchetFirst, At
<1>6. QED BY <1>3, <1>4, <1>5 DEF SessInv

(* The client, the clock, the receive task and the workers keep SessInv. *)
LEMMA NextSessInv == SessInv /\ [SessNext]_sessVars => SessInv'
<1> SUFFICES ASSUME SessInv, [SessNext]_sessVars PROVE SessInv'
  OBVIOUS
<1> USE SessionAssumption
<1>0. SessTypeOK
  BY DEF SessInv
<1>1. ASSUME UNCHANGED <<session, job, now, delivered, exact>>, SessTypeOK'
      PROVE  SessInv'
  <2>1. BitmapExact' /\ BaseBehind'
    BY <1>1, ReadsKeep
  <2>2. RatchetFirst'
    BY <1>1 DEF SessInv, RatchetFirst, At, session
  <2>3. QED BY <1>1, <2>1, <2>2 DEF SessInv
<1>2. ASSUME NEW kind \in {"readable", "misparsed"}, ClientSend(kind)
      PROVE  SessInv'
  <2>1. cliCounter \in Ctrs /\ cliCounter + 1 \in 0 .. (MaxCtr + 1)
    BY <1>0, <1>2 DEF ClientSend, SessTypeOK, Ctrs
  <2>2. [key |-> cliKey, ctr |-> cliCounter, tw |-> now, kind |-> kind,
         src |-> cliAddr] \in Datagrams
    BY <1>0, <2>1 DEF SessTypeOK, Datagrams
  <2>3. SessTypeOK'
    BY <1>0, <1>2, <2>1, <2>2 DEF ClientSend, SessTypeOK, session, tags
  <2>4. QED BY <1>1, <1>2, <2>3 DEF ClientSend
<1>3. CASE ClientRatchets
  <2>1. SessTypeOK'
    BY <1>0, <1>3 DEF ClientRatchets, SessTypeOK, session, tags
  <2>2. QED BY <1>1, <1>3, <2>1 DEF ClientRatchets
<1>4. ASSUME NEW e \in Endpoints, ClientMoves(e)
      PROVE  SessInv'
  <2>1. SessTypeOK'
    BY <1>0, <1>4 DEF ClientMoves, SessTypeOK, session, tags
  <2>2. QED BY <1>1, <1>4, <2>1 DEF ClientMoves
<1>5. CASE SessTick
  <2>1. now' \in Tws
    BY <1>0, <1>5 DEF SessTick, SessTypeOK, Tws
  <2>2. SessTypeOK'
    BY <1>0, <1>5, <2>1 DEF SessTick, SessTypeOK, session, tags, client
  <2>3. BitmapExact' /\ BaseBehind' /\ RatchetFirst'
    BY <1>5 DEF SessTick, SessInv, BitmapExact, BaseBehind, RatchetFirst, At,
                session, tags
  <2>4. QED BY <2>2, <2>3 DEF SessInv
<1>6. ASSUME NEW p \in uplink, Dispatch(p)
      PROVE  SessInv'
  BY <1>6, DispatchKeeps
<1>7. ASSUME NEW w \in Workers, HandlePacket(w)
      PROVE  SessInv'
  BY <1>7, LookupFastKeeps, LookupRefreshingKeeps, SearchKeeps, RecoverKeeps,
     DecryptKeeps, RatchetKeeps, MarkKeeps DEF HandlePacket
<1>8. CASE UNCHANGED sessVars
  <2>1. SessTypeOK'
    BY <1>0, <1>8 DEF SessTypeOK, sessVars, session, tags, client
  <2>2. QED BY <1>1, <1>8, <2>1 DEF sessVars
<1>9. QED BY <1>2, <1>3, <1>4, <1>5, <1>6, <1>7, <1>8 DEF SessNext

(* In every state of a session, whatever the network does and however its  *)
(* datagrams are spread over the workers, the tags' base is close behind   *)
(* the highest counter, and the bitmap holds exactly the processed         *)
(* counters of the session's key until a recovery moves the counter or a   *)
(* worker marks a datagram of the key before (session.rs                   *)
(* mark_tag_received, complete_session_ratchet, gateway.rs handle_packet). *)
THEOREM WindowInvariant == SessSpec => []SessInv
BY InitSessInv, NextSessInv, PTL DEF SessSpec

(* While the bitmap is exact, validate_tag refuses every counter inside    *)
(* the window that was processed, although other workers mark, refresh and *)
(* ratchet between its steps (session.rs validate_tag).                    *)
THEOREM ReplaysRefused == SessSpec => []ReplayRefused
<1>1. SessInv => ReplayRefused
  <2> SUFFICES ASSUME SessInv, NEW p \in uplink, exact,
                      <<key, p.ctr>> \in delivered, counter - p.ctr < TagWindow
               PROVE  ~ ValidCurrent(p, base, expTw) /\ ~ ValidCurrent(p, counter, now)
    BY DEF ReplayRefused
  <2>1. p.ctr \in Ctrs
    BY DEF SessInv, SessTypeOK, Datagrams
  <2>2. ExactFor(key, counter, bitmap, delivered)
    BY ExactForm DEF SessInv
  <2>3. IsReplay(p.ctr)
    BY <2>1, <2>2 DEF ExactFor, IsReplay
  <2>4. QED BY <2>3 DEF ValidCurrent
<1>2. QED BY <1>1, WindowInvariant, PTL

(* The counters the client uses next are always precomputed (gateway.rs    *)
(* refresh_tags).                                                          *)
THEOREM HeadroomKept == SessSpec => []FastPathHeadroom
<1>1. SessInv => FastPathHeadroom
  BY SessionAssumption
     DEF SessInv, SessTypeOK, BaseBehind, FastPathHeadroom, Around, Ctrs
<1>2. QED BY <1>1, WindowInvariant, PTL

(* While the bitmap is exact a fresh datagram near the highest counter and *)
(* the current time is recognised (session.rs validate_tag,                *)
(* refresh_and_find_by_tag).                                               *)
THEOREM FreshRecognised == SessSpec => []FreshAccepted
<1>1. SessInv => FreshAccepted
  <2> SUFFICES ASSUME SessInv, NEW p \in uplink,
                      exact, p.key = key,
                      <<p.key, p.ctr>> \notin delivered,
                      p.ctr \in Around(counter),
                      p.tw \in (now - 1) .. (now + 1)
               PROVE  IF InTagMap(p) THEN ValidCurrent(p, base, expTw)
                                     ELSE ValidCurrent(p, counter, now)
    BY DEF FreshAccepted
  <2>1. p \in Datagrams /\ now \in Int /\ p.tw \in Int /\ p.ctr \in Ctrs
    BY DEF SessInv, SessTypeOK, Datagrams, Tws
  <2>2. ExactFor(key, counter, bitmap, delivered)
    BY ExactForm DEF SessInv
  <2>3. ~ IsReplay(p.ctr)
    BY <2>1, <2>2 DEF ExactFor, IsReplay
  <2>4. InTagMap(p) => Expected(p, base, expTw)
    BY DEF InTagMap, RatchetExpected
  <2>5. p.tw = now \/ Adjacent(p.tw)
    BY <2>1 DEF Adjacent
  <2>6. ValidCurrent(p, counter, now)
    BY <2>3, <2>5 DEF ValidCurrent, Expected
  <2>7. QED BY <2>3, <2>4, <2>6 DEF ValidCurrent
<1>2. QED BY <1>1, WindowInvariant, PTL
=============================================================================
