# shadevpn / aivpn: TLA+ models, model checking and proofs

The repository is a VPN: a Rust server (`aivpn-server`), Rust clients for the
command line, Android and Windows that share `aivpn-common`, a Kotlin Android
application, a macOS application, a Python admin panel with a React web application, a
React prototype of the phone application, and a kit of web components (`components/ui`) that
both contain and whose files no page of either imports yet.

Three things make it difficult. Every datagram looks like traffic of some other protocol
and carries no identifier in the clear, only an 8-byte *resonance tag*, a keyed hash of a
counter and a 5-second time window. Most of what can
go wrong follows from that: each end has to guess which session and which counter a
datagram belongs to, while the network loses, duplicates and reorders datagrams and keys
change under way. `clients.json` is rewritten by three programs without a lock. And the web
applications keep React state, timers and requests that outlive the screen they belong to.

Contents: [1 inventory](#1-inventory), [2 plan](#2-plan), [3 modules](#3-modules-and-the-code),
[4 runs](#4-runs), [5 disagreements](#5-where-code-and-comments-disagree),
[6 proofs](#6-proofs), [7 limits](#7-only-model-checked-not-modelled).

Paths are relative to `src/`. `PROJECT.json` maps every definition that models code to its
lines, and lists the hazards the properties are meant for.

## 1 Inventory

| Component | State | Operations | Interacts with |
|---|---|---|---|
| Client receive window, `aivpn-common/src/client_wire.rs` | highest counter, 256-bit bitmap | `find_counter`, `is_new`, `mark`, `reset` | used by every client for each set of keys |
| Client inbound path, `aivpn-client/src/client.rs` | session keys, window, transition keys and window with a deadline | receive, handle ServerHello | server (datagrams), TUN device |
| Server session window, `aivpn-server/src/session.rs` | counter, tag window base, precomputed tags, ratcheted tags, bitmap, keys | `validate_tag`, `refresh_and_find_by_tag`, `recover_session_by_tag`, `complete_ratchet`, `mark_tag_received` | `handle_packet` |
| Server session table and handshakes, `session.rs`, `gateway.rs` | `sessions`, `vpn_ip_map`, `tag_map`, `next_ip_octet`, cooldowns | `create_session`, `rollback_failed_session`, `cleanup_old_sessions_for_vpn_ip`, `remove_session`, `cleanup_expired`, endpoint migration | 2 to 16 receive workers and a clean-up task share the maps |
| Android tunnel, `aivpn-android-core/src/android_tunnel.rs`, `aivpn-common/src/upload_pipeline.rs` | socket, keys, last RX/TX times | handshake with retries, forward, RX-silence detector, rekey | server; the Kotlin reconnect loop |
| Client database, `aivpn-server/src/client_db.rs`, `main.rs`, `shadevpn-admin-backend/main.py`, `sync.py` | clients and next octet in memory; `clients.json`, `clients.tmp` | add, remove, record, flush, reload; panel create, delete, rename, toggle, restart | server tasks, command-line processes and panel requests through the file system |
| Mask catalogue and rotation, `gateway.rs` | masks, compromised ones, mask of each session | `resonance_check_loop`, `update_session_mask` | clients (MaskUpdate) |
| Key rotator, `aivpn-server/src/key_rotation.rs` | bytes, packets, time since rotation | record, rotate | not called by the gateway yet |
| Framing and bridges (TLS, QUIC, UDP relay) | per-connection buffers and sockets | frame, deframe, relay | clients, gateway |
| Command-line client lifecycle, `aivpn-client/src/main.rs` | backoff, connection | connect, run, disconnect, retry | server |
| Android services (Kotlin), Windows GUI, macOS client and helper | service / child process state | start, stop, network change, reconnect | the tunnels |
| Admin panel backend, `shadevpn-admin-backend/main.py` | SQL database, statistics of the collector | create, change, toggle, delete of clients, groups, templates, nodes, rules, settings; dashboard; subscriptions; traffic collector | the web pages (HTTP), `clients.json`, systemd |
| Admin panel web application, `figmadesighn/src/app` | per page: lists, selection, forms, timers, requests in flight; the token in localStorage | every button, input and timer of ten pages, login, navigation, reload | the backend; other tabs through localStorage |
| Mobile application prototype, `shadevpn_android figma/app` | the screen's React state, pending timers, the key in localStorage, the browser's history | connect, choose a server, activate a key, settings, split tunnelling, back and reload | the browser |
| Web component kit, `components/ui` (the same files in both) | open or closed, the last render, listeners, the stack of open layers | toggles, shortcuts, scrolling, presses, focus, Escape | React, Radix, embla, recharts |
| Crypto, wire codec, mimicry, neural resonance, metrics, NAT, TUN, deployment scripts | none that matters for the properties below | – | – |

What is hard in it:

* **Unreliable delivery.** Windows of counters move, jump, are reset by a new key and are
  handed over to a transition slot. A duplicate must never be decoded, a fresh datagram
  never refused.
* **A handshake without an identity.** The server tries every registered client's PSK in
  turn by *creating a session for it*, which takes that client's route, and rolling it
  back. Several workers do this at the same time on concurrent maps: every map operation
  is atomic, a handshake is not.
* **Key agreement.** Retries, ServerHellos, the first ratcheted datagram, cooldowns,
  timeouts, server restarts and the silence detector interleave; the two ends must end up
  with the same keys, and keep them.
* **Shared files.** Whole-file writes from stale copies, a shared temporary file, in-place
  truncation and restarts.
* **Pages and requests.** A request takes effect at the server at one time and its answer
  arrives at another, in any order with polls, clicks and navigation; code after an `await`
  runs although its page is gone; timers are seldom cleared.
* **Renders and effects.** Between an event, the render it causes and the effects of that
  render, buttons and listeners act on different versions of the state. Layers opened above
  each other close together or one by one, depending on what each is made of.

What makes each component correct:

* receive window: at-most-once decoding, no false replay;
* session window: no datagram processed twice, headroom of the fast path, fresh datagrams
  recognised after refresh, ratchet and clock ticks, whichever workers they are at;
* session table: the return route of a VPN IP points to the session that owns it, failed
  attempts disappear, a handshake touches no other client's session;
* tunnel: the server switches only to keys the client has, a retry does not replace a
  session, the tunnel comes back after any finite number of faults;
* client database: unique addresses and ids, no lost client, no lost statistics, a file
  that parses, additions reach the running server;
* admin panel: no double submission, nothing deleted that was not confirmed, what is shown
  agrees with the database once nothing is under way and in the end in any case, a tab
  without token gets back to the login form;
* mobile application: a screen waits only for timers that exist, and connecting ends;
* component kit: shortcuts do what buttons do, buttons tell the state, errors and headings
  are shown once and where they belong, presses close the layers they should.

## 2 Plan

Done, in this order: `RecvWindow` and `ClientReceive`; `SessionWindow`; `Bitset256`;
`SessionTable`; `Tunnel`; `ClientDb`; the proofs of `ClientReceive`, `Tunnel`, `ClientDb`;
`MobileApp`; `PanelApi` and the pages composed in `AdminPanel`; the parts composed in `UiKit`;
the proofs of `SessionWindow`, `SessionTable`, `MobileApp`, `AdminPanel` and `UiKit`.

To do, the most important first:

1. `MaskRotation`: the catalogue, `resonance_check_loop` and `update_session_mask`
   against `handle_server_control` (MaskUpdate): after a rotation both ends use the same
   mask, a compromised mask is never chosen again, an update lost or sent under keys the
   client has dropped does not separate the ends for ever.
2. `AndroidSession`: the `ACTIVE_SESSION` slot (`android_tunnel.rs:69`) with the service's
   start, stop and network callbacks: at most one tunnel runs, a stop always ends it.
3. `ClientLifecycle`: the reconnect loop of the command-line client with backoff.
4. `UploadPipeline`: queue, bursts, transient send errors, keepalive starvation under the
   biased select.
5. The panel's SQL database beside `clients.json` in one model (the file is written before the
   commit, which may fail), and the delta tracking of the traffic collector across server
   restarts.
6. Framing over TLS and the UDP relay; the key rotator; the Windows child process.
7. Abstract specifications: an at-most-once channel implemented by `ClientReceive` and (in
   its window) by `SessionWindow`; `Tunnel` refined by counters, for the hazard that all 256 ratcheted tags are
   lost.
8. Proofs: the refinements, once they are stated.

## 3 Modules and the code

Cryptography is ideal everywhere: a tag matches only the key, counter and time window it
was computed from; decryption succeeds only under the right key.

**RecvWindow** – the record `highest`, `bitmap` of `client_wire.rs`; the bitmap is the set
of positions of its 1 bits. `Finds` is `find_counter` (which searches
`SearchStart .. SearchEnd - 1` in three time windows), `IsNew` is `is_new`, `Mark` is `mark`.
No variables: `ClientReceive` uses it for two windows.

**Bitset256** – the two implementations of the 256-bit bitmap (`Bitset256` and the server's
`u256`) as pairs of words of `Half` bits with their shifts, run beside the set of positions
that the other modules use. It justifies that abstraction.

**ClientReceive** – the command-line client's inbound path. Keys are positions in the chain
of ratchets: key 0 comes from the static DH, each ServerHello derives the next. `win` and
`trans` are the two windows, `deadline` the two seconds of `transition_recv_deadline`
("passed" until the next receive drops the keys, as in the code). `ReceivePrimary`,
`ReceiveFallback` and `ReceiveInvalid` are the three outcomes of
`receive_and_write_packet_with_mdh`; `HandleServerHello` is the corresponding arm of
`handle_server_control`. The server appears only as far as it decides under which key and
counter datagrams exist. `sent` is never emptied: any datagram may arrive any number of
times, at any moment, or never. `accepted` and `duplicated` are history.

**SessionWindow** – one session of the server. Precomputed tags are a range of counters
around `base` in time window `expTw`, so the model keeps those two numbers and not the tags;
likewise `ratTw` for the ratcheted tags, and `ratInMap` because `recover_session_by_tag` puts
only `expected_tags` back. `handle_packet` locks the session several times, and each section
under the lock is a step of a worker, which keeps the datagram and what it found in `job`:
`LookupFast` or `LookupRefreshing` (`validate_tag`), `Search` and `Recover`
(`recover_session_by_tag`, which gives the lock up in between), `Decrypt`, `Ratchet`,
`MarkReceived`. `Dispatch` chooses the worker as `worker_index_for_packet` does, by the
session's address if the tag is known and by the datagram's own if not, so after an endpoint
change (`ClientMoves`) two workers can hold datagrams of one session. "misparsed" datagrams
are those whose first 32 bytes are taken for an ephemeral key before the ratchet.
`exact` is history: it says that no recovery has moved the counter under the bitmap and nothing
was marked with a counter of a key replaced meanwhile.

**SessionTable** – `sessions` (`live`, `info`), `vpn_ip_map` (`route`), `next_ip_octet`,
cooldowns, and a program counter per receive worker. Each step is one operation on a
concurrent map: `Create` (limits), `Insert`, `Assign`, `Route`, `Validate`, the four steps of
`rollback_failed_session`, `Collect`, `Remove`, `Unroute`. `cleanup_expired` is a process of
its own. `TakeOut` and `TakeOutRoute` are the two map operations of `remove_session`, which workers
and the clean-up task share; `sweeping` holds, for each of these tasks, the session it has taken
out of the table and whose route it has yet to delete. Session ids are reused only when nothing
refers to them, which keeps the model finite without confusing sessions. `useDb` is the
configuration a server is started with: with a client database or, `FALSE`, without. `Migrate` is
the endpoint update that any validated datagram may bring.

**Tunnel** – one Android client and the server over UDP: any datagram in flight may arrive next
(`Arrives`) or be lost; an overtaking and a loss are a fault each. A connection number stands for
its initial keys, `<<connection, session>>` for the ratcheted ones. `ReceiveHandshake` and `ReceiveUp` are
the two receive loops of `run_tunnel_android`; `HandleInit` and `HandleData` what
`handle_packet` makes of a handshake and of a datagram under ratcheted keys, including the
cooldown that a datagram of a forgotten session causes. Timers fire only when the time they
measure exceeds any round trip (`NothingInFlight`): `HANDSHAKE_TIMEOUT`, `RX_SILENCE` and
`TX_WITHOUT_RX_TIMEOUT` are seconds to minutes.

**ClientDb** – memory, `clients.json` and `clients.tmp` with inodes: opening for writing
truncates the inode, renaming moves the name and not an open inode. Requests (`CliAdd`,
`CliRemove`, `PanelToggle`, `PanelRename`, `PanelDelete`) load the file; their `Open`, `Write`,
`Rename` and `Restart` steps interleave with the server's `Flush*`, `Reload*` and `Record`.
Octets start at 1 in the model and at 2 in the code, where 10.0.0.1 is the server. The file
system is external: it is modelled as the code uses it.

**MobileApp** – the phone application's prototype. `hist`, `at` are the browser's history,
`local` the React state of the screen shown (made by `Fresh` when it is shown, dropped when it
is left), `key` the stored key, `timers` the pending `setTimeout`s by kind. A connect timer
whose screen is left becomes an `"orphan"`, which sets nothing; a timer that navigates does so
wherever the user is. `*View` operators say what a screen offers for given state; the actions
take their guards from them. Intervals (`Tick`) end with their screen, as the code clears them.

**PanelApi** – each endpoint the pages call, as a function from the database to the new
database, a status code and an answer. **AdminCore** – the tab: `reqs` are requests in flight with
the token they were sent with and, after `Serve`, the answer; `live` says whether the page that
sent them is still mounted ("page"), left ("left"), or whether the document itself has been
loaded anew ("gone"); of the latter only changes are kept that the server may still carry out, in
any order. **UsersPage, GroupsPage, ListPages, SettingsPage** – the pages: their
state `st`, one action per event handler (named after it), and a `*Then` operator for the code
after the handler's `await`. **AdminPanel** composes them with the login form, the router, the
fetch wrapper of `config.ts` (`Unauthorized`) and other tabs. `Serve`, `Arrive` and `Fail` take any
request in flight, so effects and answers come in any order. `confirmed` and `skew` are history.
A `Tour` bounds one session: the pages it visits and how much happens there.

**KitCore** and, on it, **KitSidebar** (`sidebar.tsx`, `use-mobile.ts`), **KitParts**
(`carousel.tsx`, `form.tsx`, the search box), **KitChart** (`chart.tsx`) and
**KitOverlays** (dialogs, sheets, drawers, menus, popovers, tooltips), composed in **UiKit**, in
which a page has one of them (`Absent` stands for the rest: they share no state). Events, renders and
effects are separate steps: `shown` is what the last render saw, `listener` what the last effect
closed over. In `KitOverlays` a page is a sequence of components with their triggers on the page or
inside each other, `open` the set of those that are open and `order` the order they opened in; the
kit's files contribute primitive and buttons of each (`Contents`), and what the primitives do is
external (Radix), written as the kit relies on it.

**MCSessionTable, MCClientDb** – symmetry sets for TLC and, for the table, a bound on the handshakes
begun since it was empty. The symmetries are used where only
invariants and action properties are checked; the liveness run of `ClientDb` uses no symmetry.

**MCWindows** – `ClientReceive`, `SessionWindow` and `Bitset256` in one run. They share no
variable, so a behaviour is of one of the three. **MCFrontend** – `MobileApp` and `UiKit` in the
same way, with the payloads and layouts that TLC goes through. **MCAdminPanel** – the tours.

**ClientReceiveProofs, TunnelProofs, ClientDbProofs, SessionWindowProofs, SessionTableProofs,
MobileAppProofs, AdminPanelProofs, UiKitProofs** – see section 6.

An operator called "Mutant of X" in a module is a wrong version of X. Substituted for X, it
makes TLC refute the property it is listed with in `PROJECT.json`; no specification uses it.

## 4 Runs

Passing runs:

| Run | Bounds | Shows |
|---|---|---|
| `windows` | client: window 2, search 2, counters 0–3 per key, 3 time windows; server: 2 workers, window 3, refresh every 2, recovery 3, counters 0–1 of the initial key and 0–3 of the ratcheted one, 2 time windows, 2 endpoints at different workers, 1 move; words of 4 bits | Client: `AtMostOnce`, `NoFalseReplay` and the invariant of the proof; datagrams leave the window, jumps exceed it, and all three keys of the chain are reached. Server: `ReplayRefused`, `FastPathHeadroom`, `FreshAccepted` and the invariant of the proof (`SessInv`); refresh, recovery and ratchet happen before, after and between the check and the mark of a datagram at the other worker. `BitsExact`: both bitmaps equal the set of positions for all 256 values and all shifts from 0 to beyond the width |
| `session_table_workers` | 2 workers, clean-up task, 2 clients, 2 addresses, limit 2, 3 session ids, at most 3 handshakes between two empty tables, with and without a database, migration | `NoLeakedAttempt`, `RoutedToOwner`, `OtherClientsUntouched` and the invariant of the proof under every interleaving of map operations. With a database client 2 always goes through a failed attempt with client 1's VPN IP; without, addresses are reused or run out (2 of them stand for 253). Three handshakes are two that collide and one after them |
| `tunnel` | 7 connections, 4 faults (losses, overtakings, restarts, rekeys), packets from the network | `RatchetAgreement`, `Recovery` and the invariant of the proof. Four faults may each cost a connection or two; 7 connections and 16 sessions are more than any behaviour needs (TLC would report a behaviour stuck at the bound as a violation of `Recovery`) |
| `client_db` | 1 panel request at a time with its restart, 2 names, 2 octets, 2 ids, traffic 0 or 1 | `UniqueAddresses`, `StatsKept` and the invariant of the proof, file operation by file operation beside flush and reload. The server's save and a process's save already collide in `clients.tmp`; the proof covers any number of processes |
| `client_db_reload` | 1 command-line process, 2 names, 2 ids | `HotReload` (liveness) |
| `admin_panel` | eight tours of one or two pages, 1–2 changes, 0–1 failures, 2–6 requests in flight; 2 clients, groups and items | `OneSubmission`, `EditFormSettles`, `QuietMeansFresh`, `DeleteOnlyConfirmed`; `TypeOK`, which a late answer to a page that is gone would break. Two changes let one overtake the other; two clients make a selection and its complement; pages are paired where one's changes show on the other |
| `admin_live` | the two pages with a timer, 1–2 changes, 1 failure | `Converges`, `ExpiredLeavesPanel` (liveness) |
| `frontend` | phone: 2 servers, 2 apps, 3 history entries, 2 timers of a kind, 2 seconds; kit: 2 resizes, 3 slides, 2 fields, 2 series keys, overlays alone, in all pairs and in threes of seven kinds | `ConnectionIsOwn`, `GreenMeansStored`, `ConnectingEnds`: two timers of a kind are one of this visit and one left over; three entries let the user go back and forth around a navigation. `ShortcutAgrees`, `LayoutSettles` for the sidebar in every way a page may use it; `ButtonsMatch` (carousel), `ErrorsAnnounced` (form), `HeadingOnce` (chart), `MenuKeepsDialog` (overlays). Two resizes go there and back; three slides have one in the middle; with three layers one press can close two and keep one |

Runs that refute a sentence of the repository (section 5): `client_db_lost`, `replay`,
`session_routes`, `tunnel_retry`.

Deadlock is checked except in `client_db`, where the server really may stay down: it does not
start from a file that does not parse.

Fairness. `Tunnel`: the client's loops and the network are weakly fair (a datagram that is
not lost arrives; `MaxFaults` bounds losses and overtakings), a cooldown ends; `Retry`, `SendData` and
`Silence` are strongly fair because their timers keep running while datagrams come and go, so
that being disabled for a moment does not reset them. No fault, push or rekey is ever forced.
`ClientDb`: the reload task is a loop with an interval and retries for ever (strong fairness,
because the file is unreadable or the lock is held now and then); a save or a request that has
begun goes on (weak); systemd starts the server (strong). A flush is never forced. `MobileApp`: the browser runs
timers that are due (weak). `AdminPanel`: the oldest request in flight is served and answered
(weak; those behind it become the oldest), and the poll timers go on for ever (strong, because
the bound on requests in flight disables them now and then). `UiKit`: React renders what has
changed and runs its effects, the browser delivers the media query's event (weak). No click is
ever forced.

## 5 Where code and comments disagree

Four runs check a sentence of the repository each, and TLC refutes it; the sentences are quoted
in `PROJECT.json` under `findings`.

* `client_db_lost`, `AddedClientKept`: a flush of the statistics between an addition and the next
  reload writes the old list over it.
* `replay`, `NoReplay`: "Replay must be rejected" (`battle_tests.rs:212`). It holds for
  `validate_tag`, which the test calls (`ReplayRefused`). But `handle_packet` goes on to
  `recover_session_by_tag` when no lookup accepts the tag, and that search begins with the highest
  counter itself and does not look at the bitmap (`session.rs:711-716`). In the trace a datagram is
  processed and refreshes the tags in a new time window, its tag leaves `tag_map`, and its
  duplicate, refused by `validate_tag`, is processed again. One worker is enough. `NoReplay` fails in
  other ways too: a duplicate `TAG_WINDOW_SIZE` or more behind has no bit, while its tag may still be
  precomputed; a recovery moves the counter and not the bitmap; and two workers that hold the
  same datagram after an endpoint change both check it before either marks it.
  "Packets for the same session stay on the same worker" (`gateway.rs:863`) does not hold then.
* `session_routes`, `OwnersRouted`: a rollback "Restores vpn_ip_map to the old session that still owns
  that IP" (`session.rs:598`). In the trace an attempt with another client's VPN IP is taken out
  of the table by that client's own clean-up before it has written its route. It then writes the
  route; its rollback finds no session in the table, so no VPN IP to restore; the established client
  keeps a session that nothing is routed to.
* `tunnel_retry`, `RetryKeepsSession`: handshake retries "validate against the existing tag window"
  once a session exists (`gateway.rs:1148`). A retry that the connection's first data overtook
  matches no tag any more, creates a new session and removes the one in use, which the client
  believes in until its silence detector fires; that it does recover is `Recovery`, on the same
  network.

Other limits of the code are written into the passing properties and show where they end:

* `NoFalseReplay` promises old-key traffic only until the two-second deadline: after it the
  command-line client drops the old keys whether the server has switched or not.
* `ReplayRefused` and `FreshAccepted` are about `validate_tag` while the bitmap is `exact`; `NoReplay`
  says what happens otherwise.
* The limit of sessions per address (`session.rs:454`) is no property: the count precedes the
  insertion, so each worker can add one, and an endpoint update moves a session to another address
  without counting. `SessionTable` models both.
* `OtherClientsUntouched` and `RoutedToOwner` are about a server with a client database. Without one,
  a second client behind a public address inherits the VPN IP of the first.
* `Recovery` excepts packets from the network that never stop. They reset the silence detector
  even if the client cannot decode them, and only the rekey interval then ends the connection.
* `QuietMeansFresh` excepts reads that overlapped, failed or were overtaken by a change of an
  earlier visit: nothing orders the answers. On the polled pages `Converges` says that this does
  not last; on the others it lasts until the page is opened again.
* `DeleteOnlyConfirmed` counts as confirmed what was selected, rows hidden by a group filter
  included.
* `MenuKeepsDialog` rests almost entirely on Radix' rules for layers, written as external; the kit
  only names the primitive of each component.
* `ErrorsAnnounced` is about fields in items of their own, `HeadingOnce` about tooltips without
  formatter: outside these the kit's code does otherwise.

## 6 Proofs

The theorems hold for every value of the constants that satisfies the named assumptions
of the modules: positive window sizes, natural bounds, `None` different from the values it
stands beside, finitely many processes, workers and clients, a refresh distance within the
window, at least one group name, tours over pages that exist. The bounds on counters,
connections, ids, requests in flight, timers and history entries are constants too, so nothing
in the proofs depends on their size. No theorem has a hypothesis on top.

**ClientReceiveProofs** – `Invariance`, `ClientAtMostOnce`, `ClientNoFalseReplay`.
"Never decoded twice" is not inductive: whether the next datagram is refused depends on what
the bitmap says. `IInv` adds `WindowExact`: within the window a bit is set exactly when its
counter has been decoded under that key, and no decoded counter lies above the highest; for
the current window and, while there is one, for the transition window, whose key is the
predecessor of the current one (so the two windows never answer for the same key). A key not
derived yet has decoded nothing, which is why starting with an empty window is right; that in
turn needs `HelloUnderInitialKey`, which bounds the chain. The central lemma is `MarkExact`:
shifting and marking keeps a window exact for each of the cases first datagram, jump beyond
the window, advance within it, and late arrival. `CoveredDecodes` turns exactness into
`NoFalseReplay` for both windows.

**TunnelProofs** – `TunnelInvariance`, `RatchetsAgree`, for any number of connections,
sessions and faults, over a network that loses and reorders, with and without downlink. `IInv`
says that nothing in flight or at the server is ahead of the client's connection, and that data of
the current connection in flight is under the keys the client adopted: without it the server
could be switched by a datagram of unknown origin. `WithoutElements` states what removing an
element from anywhere in a queue leaves.

**ClientDbProofs** – `DbInvariance`, `AddressesStayUnique`, `StatsNeverLost`, for any finite
number of concurrent processes. Uniqueness in memory and in the file does not follow from
itself, because what will be there next is in the hands of some process, in the other file or
in a reload that has not been merged. `IInv` says that *every* version of the database
anywhere is well formed: its octets are distinct and below its own `next`. A version replaces
another only as a whole or takes all of a file's clients together with the file's `next`, and so
the property survives every lost update. `RelabelGood` covers rename, toggle, statistics and
merge in one argument. `StatsNeverLost` is an action property proved from `IInv`: a merge
finds the statistics of the right client because ids are unique (`StatInExact`).

**SessionWindowProofs** – `WindowInvariant`, `ReplaysRefused`, `HeadroomKept`, `FreshRecognised`, for
any workers and endpoints. `SessInv` says that while `exact` the bitmap holds exactly the
processed counters of the current key (`BitmapExact`), always that the base of the precomputed
tags is at most `RefreshEvery - 1` behind the highest counter (`BaseBehind`), from which the
headroom follows by arithmetic, and that no datagram of the next key is at the mark before the
session has switched to it (`RatchetFirst`), without which a ratchet could not start with an empty
bitmap. Each step of a worker has a lemma (`LookupFastKeeps` … `MarkKeeps`). `MarkExact` is the
heart: `mark_tag_received` keeps an exact bitmap exact, whether the counter is ahead, within the
window or behind it, and also if another worker has moved the counter since the check.

**SessionTableProofs** – `TableInvariant`, `AttemptsRolledBack`, `RoutesToOwners`,
`OthersUntouched`, for any finite number of workers, clients, addresses and session ids, with every
map operation a step of its own and endpoints migrating. `IInv` describes each worker's local
variables step by step (`JobOK`), says that no two workers hold the same session, that what is being
removed is still referred to and gone from the table (`TableOK`), and, with a database
(`OwnerOK`), that a validated session has its own client's VPN IP, that a route leads to a session
that has that VPN IP, and that a worker collects only sessions with its client's. The route's
part needs `WorkerOwnerOK`: a worker about to write a route holds a session with that VPN IP.
`WorkersFramed` reduces each step to its effect on its own worker. Both properties about
databases say so themselves (`useDb`): without one the code reuses the VPN IP of a session at the
same public address, whoever its client is.

**MobileAppProofs** – `AppInvariant`, `ConnectionStaysOwn`, `GreenIsStored`. `IInv` adds to the two
properties what each screen's state may be, and that success is shown only with a stored key. The
router either keeps the screen with its state and timers or shows a fresh one whose connect
timer has become an orphan (`ShowKeeps`); every other handler changes its own screen only.

**AdminPanelProofs** – `PanelInvariant`, `StateOfThePage`, `OneAtATime`, `FormSettles`,
`OnlyConfirmedDeleted`, `PagesFollow`, `QuietPagesFresh`, for any number of clients, groups, items, requests in flight, changes and
failures, and any tours. `IInv` has a part for each of the things a late answer could disturb:

* `ScreenOK`: the state is one the mounted page can have;
* `RequestsOK`: every request holds what its operation needs, ids to be deleted are confirmed
  ones (the rest of a bulk deletion included), an answer has the shape its operation promises,
  a request of the mounted page is one that this page makes, and a login is under way only
  while the form waits for it. Without the last two, code after an `await` could be applied to
  the state of another page;
* `IdsLeft`: the ids given out and those the requests in flight will use up stay within the
  bounds. Counting requests that wait needs an injection between the requests before and after
  each step (`KeptFrom`, `KeptWaiting`, `Fewer`);
* `SubmitOK`: at most one creation or change is under way, and exactly while `loading`;
* `FormOK`: the last timer pending, or the input if there is none, holds the edited name.

The steps have few shapes, each with a lemma of its own: the page changes its own state
(`LocalStep`), reads (`FetchStep`), asks for a change (`SubmitStep`), is mounted (`MountStep`), code
runs after an `await` (`ResumeStep`), the server carries out a request (`ServeStep`). What the
pages do after an `await` is shown once per page (`UsersFits`, `GroupsFits`, `ListFits`, `SaveFits`,
`ReadFits`), and what the endpoints make of a database once for all of them (`HandleOK`).
`OnlyConfirmedDeleted` is an action property: only `Serve` changes the database (`DbServed`), and
`HandleOK` bounds what it removes.

`QuietPagesFresh` needs more: that a page shows what the server holds while nothing of it is
under way does not follow from a step before, when something was. `FreshInv` (`PagesFollow`) says for
each list of the page that it is what the server holds (`Holds`) and no read of it is under way, or
that some request of the page under way will bring what the server holds (`Brings`): the one read of
the list, waiting or answered with the present state of the server; a change that has succeeded and
after which the page reads again; a bulk deletion, whose last step reads; or an answer 401, which
ends in the login form. There is never more than one read of a list unless the reads are marked as
having overlapped (`skew`), and the requests of a list page are about its own list (`KindOK`). A step
can disturb this in three ways, each with a lemma: the server carries out a request
(`ServedFresh`: a change of another list leaves this one alone, and one of this list is a request
that brings it), an answer comes (`ArrivedFresh`: what it is replaced by brings what it brought),
requests are added (`GrownFresh`). The last part of the proof is about the views, which count and
filter what the lists hold: the pie chart's two numbers add up to the header's because the clients
split into enabled and disabled ones, and every client has at least two lines in the log, in
whatever order the answer lists the clients.

**UiKitProofs** – `ShortcutsAgreeAlways`, `ButtonsMatchAlways`, `ErrorsAnnouncedAlways`,
`HeadingOnceAlways`, `MenuKeepsDialogAlways`. Each component has an invariant of its own, since no
step touches two:
a listener with no effect outstanding was made in the last render (`SidebarOK`, `BoxOK`); the
carousel listens only to an embla that is there, and its buttons are up to date since
(`CarouselOK`); the remembered heading is the one for the values it is remembered for, and these
are the present ones (`ChartOK`, `MemoOK`). For the overlays it is `Stack`: the open components are
in one order, and each opened after what it is inside of. `Within`, the least set that holds a
component and what is inside its members, then lies above it (`WithinAbove`), so a press closes
at most one layer that blocks (`PressMenu`).

## 7 Only model-checked, not modelled

Only model-checked: liveness (`Recovery`, `HotReload`, `ConnectingEnds`, `Converges`,
`ExpiredLeavesPanel`, `LayoutSettles`), which is outside the prover's reach; and `BitsExact`, which is about
bitwise operators that the provers do not know.

Abstracted: payloads, lengths, masks and headers of datagrams (except "misparsed"); wall-clock
time (time windows are a counter, deadlines an event); the count of failed handshakes in a
cooldown entry (cooling or not); `last_seen` (any established session may expire); traffic
statistics (one number per client).

In the web models: texts, layout and colours; of a client only its group and whether it is
enabled; the inputs of forms that no property tells apart; the lists of groups and templates
that only fill the sidebar's menus.

Not modelled: TLS and QUIC variants of the Android tunnel, mask updates, command-line
lifecycle, Kotlin services, Windows and macOS clients, the panel's subscriptions and traffic
collector, its database and `clients.json` in one model – planned above; components of the kit
that only style an element of a library, its chart legend and its sidebar's menu entries, which
keep no state; key derivation, AEAD and the codec – ideal; mimicry and
neural scoring – floating-point
statistics; NAT, TUN and deployment scripts – pure input/output without state of their own.
