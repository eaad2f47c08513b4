# TLA+ models of go-hauk

go-hauk is a server for live location sharing. A phone creates a *session*, posts
its locations to it and hands out *links*; whoever opens a link in a browser sees
the locations until the session ends or is stopped. A link leads to a *share*,
either **solo** (one session) or **group** (several sessions under nicknames, which
others enter with a PIN). Sessions and shares are records in a key-value store in
which every key expires by itself.

This directory holds the TLA+ specification of that server and of the page it serves:
what the handlers do to the store, step by step, what the page does with the answers,
what must hold however requests overlap, fail or run into the end of a session, the
TLC runs that check it on small instances, and TLAPS proofs for all instances. File names below are relative to the repository root.

Contents

1. The system
2. The modules and how they correspond to the code
3. What is checked
4. What is proved
5. Where code and documentation or tests disagree
6. Abstractions and what is not modelled
7. Plan

## 1. The system

| component | state | operations | needed for it to be correct |
| --- | --- | --- | --- |
| writing handlers: `api/create.go`, `api/post.go`, `api/newlink.go`, `api/adopt.go`, `api/stop.go` | none between requests; while a request runs, the handler's local copies of a session and a share | create (solo, group, join), post, new-link, adopt, stop one link, stop all | nobody appears under a link without having asked for it; encrypted sessions stay out of groups; solo shares end with their session; stop removes all of the session and nothing of others |
| viewer endpoint: `api/fetch.go` | none | fetch | a viewer sees only sessions that were put under the link, never cipher text as plain locations, nothing of a session stopped or ended before |
| records: `model/session.go`, `model/share.go` | the JSON records under `session-`, `locdata-`, `groupid-` keys | load, save, delete, targets, points, hosts | a PIN leads to its group; a group that is stored has members; the target list of a session covers the shares it is in |
| stores: `store/redis.go`, `store/memory.go` | keys with an expiry time | Get, Set, Delete, Exists | nothing outlives its deadline; the two implementations agree |
| link generator: `linkgen/linkgen.go` | none | Generate | identifiers that are free, in every style; ends |
| rate limiter: `ratelimit/ratelimit.go` | a bounded table of clients with counters | Allow, Middleware, WrapFunc | limit per client; table never above its cap; a full table does not lock clients out for ever |
| authentication: `auth/` | a password hash, an htpasswd file or an LDAP directory | Authenticate | one answer per call |
| configuration: `config/config.go` | read once at start | Load | defaults and allowed values |
| server and start: `api/server.go`, `main.go` | the routes | start, routing | limiter in front of create and adopt only |
| viewer page: `frontend/main.js` | timers, known points per user, a key, answers waiting for it, the prompt; markers, whom the map follows, open dialogs, the viewer's own marker | poll, process an answer, ask for a password, derive, decrypt, time out; click, drag, locate | polls once per interval, stops at the end, shows points in order and without gaps; a wrong password can be made up for; markers, map and dialogs agree with the locations |
| page configuration: `api/dynamic.go` | none | writes the page's constants | |

**How they interact.** A request to create or adopt passes the limiter. The Go HTTP
server runs each handler in a goroutine of its own. Handlers share nothing but the
store: they load records (Get), change their own copies and save them (Set), key by
key. No lock and no transaction spans two store operations, so requests of one
session, of members of one group and of viewers interleave between any two of them.
The store's clock takes part too: a record may expire between two operations of one
handler. A group is two keys, the share and its PIN; a session and its shares are
different keys that refer to each other (`targets` one way, `host`/`hosts` the
other). The browser page polls fetch at the interval a share is answered with. Its
callbacks (timers, answers, WebCrypto, clicks, positions of the device) share the page's
global variables and come in any order.

**What makes it hard.**

- Copies go stale: each handler is a load, some checks and one or more saves.
- Records that refer to each other are written by separate operations, any of which
  may fail (connection, cancelled request, a record that cannot be encoded) or be
  the last before the process is restarted. Some handlers stop at a failure,
  stop.go ignores every one and goes on.
- The type of a share is read first and the share afterwards (`LoadShareType`, then
  `LoadSoloShare`/`LoadGroupShare`), and records are decoded as whatever type is asked for.
- A link may be given to a new share once the old one has ended, while an old
  session still lists it.
- Expiry is compared in seconds against a clock that moves while a handler works,
  and Redis treats a remaining time that is not positive as "no expiry".
- Go iterates maps in any order, which decides what `RemoveHost` removes.
- The page sends a request per interval whether or not the last one was answered, so that
  answers overtake each other, and each may replace the timer or end the polling.
- Decryption runs in the background. Answers that wait for a key add their handlers to one
  button, and a handler removes the newest of them rather than itself (`frontend/main.js:560`).
- A wrong password is noticed only when an answer fails to decrypt, maybe several polls later.

The hazards list in `PROJECT.json` names each of these at its line, with the
properties meant to catch it, or why none does.

## 2. The modules

```
HaukStore   HaukModel -- Selection -- SelectionProofs (used by HaukApiProofs,
      \      /                          ViewerProofs, ViewerKeyProofs, ViewerMapProofs)
      HaukApi ---- HaukSharing ==> Sharing (the promise HaukApi implements)
      /     \          |
     |       \    HaukSequential (what holds one request at a time)
     |        \       |
     |         \  MCHaukApi (api_seq, stop_race, expired_set)
     |          \
HaukFetch   HaukApiProofs -- HaukSeqProofs -- HaukServerProofs
     |                    (also extends       (also extends
MCHaukFetch (api_overlap) HaukSequential)     HaukFetch)

Viewer -- MCViewer (viewer_group, viewer_solo, viewer_lost)
   |
ViewerProofs

ViewerKey (viewer_key, key_timers)    ViewerMap -- MCViewerMap (viewer_map)
    |                                     |
ViewerKeyProofs                       ViewerMapProofs

RateLimit -- MCRateLimit (ratelimit, limit_span)
     |
RateLimitProofs
```

**HaukStore**: one key of the store. A key is `Absent` or an entry with an expiry.
`Write` is what Set leaves behind, `Live` what Get and Exists answer. `Backend`
chooses between the two implementations: the memory store keeps the deadline and is
alive up to and including it; Redis is alive up to but excluding it, and `Set` with
a deadline that has passed stores the key *without* expiry, because the client
library leaves out the expiry option when the duration is not positive.

**HaukModel**: sessions, shares and the functions of package `model` that touch no
store. One record type stands for both kinds of share, because both are kept under
the same key and decoded without a check of the type; the fields of the other kind
have JSON's zero values. `RemoveHost` is the *set* of its possible results.

**Selection** has the loop that keeps some entries of a list, in their order: `GetPoints` in the server, and what the models of the page make
of it. The entries to keep are given as a set of places, where `SelectSeq` takes a test: the provers cannot reason about an operator that takes another.

**HaukApi**: the writing handlers.

| in the model | in the code |
| --- | --- |
| `sessionKV`, `locdataKV`, `groupidKV` | the keys with these prefixes |
| `rq[r]`, a frame | the local variables of the handler of request `r`: `op` and `pc` say which handler it is and where, `sess` and `share` are its copies, `link`, `pin`, `nick`, `lid` its parameters and results, `todo` what is left of the target loop in stop.go |
| `now` | the clock, in seconds |
| `BeginX(r)` | arrival of a request, the checks on its parameters, and its first load. A request refused there changes nothing and is left out |
| `GenLink`, `TryLink` | `linkgen.Generate`, `tryCustomLink` in create.go |
| `GetPin`, `GetGroup` | `LoadGroupShareByPin`, then AddHost |
| `AdoptType`, `AdoptShare` | the two loads of adopt.go with the checks after each |
| `SetShare`, `SetPin`, `SaveSession` | Save of a share (two operations for a group), AddTarget, Save of the session |
| `StopType`, `StopShare`, `DelPin`, `DelShare`, `DelSession` | stop.go and the Delete methods |
| `Abort` | the handler returns before its next operation: error, cancelled request, restart |
| `StopSkip` | the same failure in stop.go, which goes on with its next operation |
| `Tick` | a second passes, with requests in flight if `TickBusy` |

Each action is exactly one store operation together with the computation up to the
next one, the finest interleaving the store can tell apart. Three history variables
record what no record says: `born` (the end and the encryption a session was created
with), `granted` (pairs of a link and a session that asked to be under it) and
`stopped` (sessions whose stop was answered).

**Sharing** is what the server promises to its clients, without a store, records or
requests: a session is open until it is closed or its end has come, and an *entry* puts a
session under a link, with a nickname in a group, until the link's own end. **HaukSharing**
says how HaukApi keeps that promise:

| in Sharing | in HaukApi |
| --- | --- |
| `ends[s]` | `OpenUntil`: the deadline of the session's key while it is live |
| `over` | `Ended`: sessions stopped, or stored and past their deadline |
| `board` | `Entries`: what the live shares under `locdataKV` show, with the share's deadline |
| `Put` | `SetShare`: create, join, new-link and adopt save a share with one more entry, or with another session under a nickname that is taken |
| `Open` | the first `SaveSession` of create. The share is saved before the session, so an entry is there before its session is open |
| `Take` | `StopShare` with other members left, which saves the group with one entry fewer; `DelShare`, when the last one goes |
| `Close` | `DelSession`, when none of the entries is left |
| `Tick` | `Tick` |
| a stutter | loads, PINs, target lists, posts |

Two guards of Sharing hold most of the promise: a solo link has one entry which ends with its
session, and a session closes only when it is under no link any more. Sharing leaves out
PINs and who may ask for what (`Consent` says that of HaukApi). The refinement holds for
requests that do not overlap and do not fail, on Redis; the runs of section 5 show why it
cannot hold beyond that. The memory store differs by one instant: a key is alive at its
deadline.

**HaukSequential** says what a handler may rely on when nothing moves between its store operations: that the
requests have one slot, none fails and the clock waits (`OneAtATime`; `SingleSpec` has the steps there are then and is what `api_seq` runs, `SingleSteps` in HaukSeqProofs says that they are all), and `SeqInv`, the inductive invariant behind the properties of quiet
moments and the refinement. `RequestSeq` is its part about the request in flight: what the handler's copies have to do with what is stored, at
each `pc`.

**HaukFetch** adds viewers: frames `fq[v]`, and an action for the load of the type,
the share, each session for its points and each session again for its interval.
Fetch changes no record, so its steps leave the variables of HaukApi unchanged; they
run among the steps of the writers.

**Viewer**: the page, for shares that are not encrypted.

| in the model | in the code |
| --- | --- |
| `reqs[q]` | an XMLHttpRequest in flight, with the variables its callbacks close over: the expiry and the interval of the timer that sent it. `first` is the request of `init()` |
| `timers`, `fetchIntv` | the intervals the browser has set, with their closures, and the handle the page keeps of the last one |
| `shown[u]` | `shares[user].points`, by their times |
| `message` | nothing, "not found", or the dialog that says the share has ended |
| `Fire(t)` | the callback of `setInterval`: the test of the end, and the request for what is newer than `getOldestPointTime()`, which is sent even after the end |
| `Deliver(q)` | the callbacks of `getJSON`: the first answer, a later one, one that makes `processUpdate` throw, one that is not a share |
| `Fail(q)` | no answer within REQUEST_TIMEOUT, no connection, a status other than 200 and 404: no callback runs |
| `Serve(q)` | fetch.go computes the answer |
| `members`, `cache`, `closed`, `Post`, `Join`, `Leave`, `Stop` | what the other requests of HaukApi do to one share |
| `Skew` | the clock of the page minus the clock of the server |

`Serve` is one step, since HaukFetch is about what may happen within a fetch. A timer
may fire at any moment, so a run of the model covers every speed of the network relative to the
interval. The clock of a phone does not go back. The callbacks of JavaScript run one
after another, hence each is one action.

**ViewerKey**: the page with an encrypted share, which has one user. What Viewer is about (locations and
their times, clocks) is reduced to the number of the last location; the asynchronous part is added.

| in the model | in the code |
| --- | --- |
| `docs[d]` | a request, then its answer: the object the callbacks close over, kept while a handler or a promise refers to it. `plain` is `!data.encrypted`, which `processUpdate` resets in place |
| `aesKey` | the variable of this name, named by the password it was derived from |
| `listeners` | the click handlers of the prompt's button, in order, each closing over the arguments of its `processUpdate` |
| `prompt` | the prompt is visible |
| `jobs` | a bag, because the same answer may be under way twice: `deriveKey` and the `Promise.all` of `decrypt` |
| `Process` | `processUpdate`: draw if it can be read, else ask, else decrypt |
| `Enter`, `Cancel` | the two buttons. All handlers run and each removes `acceptKeyFunc`, the newest |
| `Derived` | the key is kept, the answer processed once more |
| `Decrypted`, `Rejected` | the two ends of a decryption; a failure drops the key, clears the timer and processes the answer as if it were the first, so that a new timer is set in the end |
| `piled` | history: an answer came in while another waited for the right key, that is while a handler was on the button, a key was derived or a decryption under a wrong key was on its way |
| `Fire`, `Serve`, `Deliver`, `Fail`, `timers`, `fetchIntv` | as in Viewer: a timer fires whatever else the page is at, and any request may fail |

**ViewerMap**: what becomes of the answers on the screen. Which answers come is the matter of Viewer; here *any* answer may come at any
time (`Answer`): any users, any of the lists of locations, older than what is drawn or newer, any time of the server, so also one that was overtaken.
`Update` is one call of `processUpdate` with both of its loops; `UpdateThrows` one that stops at a member answered with null, with what it has done by then.

| in the model | in the code |
| --- | --- |
| `marks[u]` | `shares[u]`: the time of the last location, how many (0, 1, more), `state`, and the classes of the two parts of the marker, which are set under different conditions |
| `heard` | history: the server's time in the last answer that was processed to its end, 0 after one that was not |
| `only` | whose share a solo share is; `Nobody` for a group (`multiUser`) |
| `listed`, `userList` | the entries of the list of users, and whether it is open |
| `following`, `view` | whom the map follows, and what moved the map last, with whom it followed then and the time of that user's last location |
| `details` | the user whose details are open |
| `self`, `ClickLocate`, `Position` | `locateBtn` and its classes, the watch of the device's position, and the marker made by the first position |
| `MoveMap` | the map's own wheel, keyboard and touch handlers, which move it without a `mousedown` (`L.map` has them by default) |
| `ClickMarker`, `MouseDown`, `ClickRadar`, `ClickEntry`, `ShowAll`, `ClickFollow`, `CloseList`, `CloseDetails` | the handlers of the map and of the dialogs, possible when what they belong to is visible |

**RateLimit**: the limiter. `Allow` holds a mutex from reading the clock to its answer, so a
call is one action. The history variable `passed` has the times at which each client
was let through. The two limiters of the server share nothing; one is modelled. With
a limit that is not positive the code lets everything pass and keeps no state: this
is excluded by `LimitAssumption`.

## 3. What is checked

| run | question | instance |
| --- | --- | --- |
| `api_seq` | Between requests that do not overlap: does the target list cover every entry that shows a session, is all of a session gone after stop and after its end, does every PIN lead to its group, does stop take off nobody else, does a solo share end with its session? Does HaukApi implement Sharing? All eight requests, custom links included. | 1 slot, 2 sessions, 3 links, 2 nicknames, 1 PIN, 3 seconds, up to 3 targets, links not reused |
| `api_overlap` | Consent, plain and non-empty groups, the ends of sessions and shares, and the inductive invariant of the proofs, when create, join, adopt and stop-all overlap and fail and links are given out again; and what a viewer is shown meanwhile. | 2 slots, 1 viewer, 2 sessions, 2 links, 1 nickname, 1 PIN, 2 seconds, up to 2 targets |
| `viewer_group` | Do overlapping answers to a page leave it with exactly one timer while the interval of the group changes? | 2 users with intervals 1 and 2, 2 requests in flight, 1 second |
| `viewer_solo` | Does the page draw one user's trail without a step back or a gap, and does it stop at the end and not before, when requests overlap and fail? | 1 user, 2 requests in flight, 5 seconds, the end at 3, the page's clock 1 behind |
| `viewer_key` | Does the page of an encrypted share keep one timer through wrong passwords, stale handlers, overlapping and failing requests and decryptions that fail late, does the right password in the end show everything, and does the page notice the end? | 3 answers at a time, 2 requests in flight, 2 operations of WebCrypto, 1 wrong password, 1 location, fairness |
| `viewer_map` | Do markers, the followed user, the map, the dialogs and the viewer's own marker agree, in whatever order answers, clicks and positions come? | 2 users, 2 times of the server, OFFLINE_TIMEOUT 1, 6 lists of locations |
| `ratelimit` | Limit, table and reasons of refusals. | 3 clients, a table of 2, limit 2, window 2, 7 instants |
| `stop_race`, `expired_set`, `viewer_lost`, `key_timers`, `limit_span` | see section 5; violations are expected | `stop_race` on the memory store, the others on Redis or without a store |

The properties, and what it would take to break them:

- `Consent`: a share shows, and a session lists, only what the session's own holder
  put there. At risk from the check of ownership in adopt, from stale groups saved
  over newer ones, from reused links and from colliding PINs.
- `KeepsPromise`: HaukApi implements Sharing. An entry goes only while its session is open or at its end, no session is
  closed while an entry shows it, and no solo link outlives its session. Broken, for instance, by a new-link that gives a share an end of its own
  or by a stop that deletes the session before its shares.
- `PlaintextGroups`: the ban on encrypted group members sits in two handlers.
- `SoloExpiry`: every solo share, also one made by new-link, ends with its session. TLC
  checks it request by request; that it also holds when requests overlap and fail is proved (section 4).
- `GroupNonEmpty`: the last to leave deletes the group; stale saves do not bring back an empty one.
- `StopIsLocal`: a stop takes no member but its own session off a group, and touches no link that session was never under. A link
  is not for ever: once its share has ended it may be given to a solo share of someone else, by chance or as a custom link, and stop
  deletes a solo share under a link on the caller's list without a look at its host (`api/stop.go:48`). The property leaves just that out.
- `SeqInv`: the inductive invariant of the sequential properties (section 4).
- `TargetsCover`: the target list names a link as often as the session is in the group there. `api_seq` lets a session have a group, a solo share and, by adopting that, the group
  a second time under another nickname; a removal that takes out all places of the list at once breaks it.
- `TargetsCover`, `StoppedIsGone`, `PinResolves`, `StopIsLocal`, `SeqInv`: hold only one request at a time, which here always means that requests do
  not overlap, do not fail, and are served within one second of the clock (`Reqs` of one element, `CanFail = FALSE`, `TickBusy = FALSE`). They are
  what the code promises to one client after another; `stop_race` shows one of them fail otherwise.
- `ExpiredIsGone`: at every state, with requests in flight, overlapping and failing. It needs the clock to stand still while one is in flight, on Redis; `expired_set` shows it fail otherwise.
- `FetchConsent`, `FetchPlain`, `FetchNotGone`: an answer is built from records read at different times.
- `OneTimer`, `KeepsPolling`: a changed interval replaces the timer, in a callback that may run
  after another one that did the same. A second timer nobody has a handle of would poll for ever; none would freeze the map.
- `TrailAscends`, `TrailHasNoGap`: answers may arrive in another order than they were
  sent, each computed from a different `since`. The second is claimed for one user only: with several,
  `since` is the oldest of the users' last times, and a user the page knows nothing of yet may first
  be drawn from an answer that leaves its older locations out.
- `NoEarlyEnd`, `OverIsFinal`, `EndIsNoticed`: the page says that the share is over only when it is,
  does not come back to life on an answer still under way, and stops polling even without a connection.
  All three are claimed for a solo share; in a group `viewer_lost` breaks the first, and an answer with a
  new interval that arrives after the page gave up starts the polling again.
- In ViewerKey, `OneTimerUnlessPiled` and `KeepsPolling`: a decryption that fails drops the key, whatever it is by then, clears the timer the page knows and starts the polling anew, and a handler that an
  older answer left on the button derives a key for that answer at the next prompt. `Recovers`: each location of a share that stays live is drawn in the end, unless the prompt is dismissed or the first
  request got no answer. `EndIsNoticed`: an operation that ends after the share did may set a timer again; it does not stay.
  All four are claimed as long as no answer came in while another waited for the right key (`piled`): beyond that the page may have two timers (`key_timers`) or none. `TypeOK` is claimed without that: with stacked handlers,
  of which each takes the newest off the button, the prompt is never open without a handler.
- `FollowHasLocation`: the details of a user without a location cannot be opened; `follow` would throw on the button there. At risk because the radar control
  clicks an only entry without looking whether it is visible.
- `FollowedInView`: since the last location of a followed user came nothing has moved the map but that user, the showing of all users and the viewer's hand. It breaks when something else that moves the
  map forgets to end the following, or the map is moved before the location is there. It does not say that the user is in view: the viewer may have moved the map without ending the following (section 5).
- `SelfAgrees`: the viewer's marker and the state of the control survive any number of clicks before, between and after positions.
- `MarksAgree`: after a complete update, whichever answers overtook each other, every label is grey for exactly those who were not heard of for OFFLINE_TIMEOUT and else in the colour of the user's
  state; the arrow is grey exactly when the label is, and has the label's colour from the second location on. The arrow of an only location may differ (section 5).
- `SpanLimit`, `WindowCounts`, `TableBounded`, `RefusedForCause`: the limiter. `SpanLimit`, twice the limit in the length of a window, is what the code keeps however sweeps, a full table and the
  ends of windows fall; `PerWindow` is what the documents promise (section 5).
- `TypeOK`, `FetchTypeOK`: the type invariants (that of HaukApi is a part of `IInv` and so of `SeqInv`).

**Bounds.** `MaxTime` bounds the clock: a share lives one or two seconds and every
comparison with the clock is reached before, at and after the deadline. `MaxTargets` bounds the targets of a
session (new-link and adopt could add without end; three make the difference between first, last
and other, and let a link be listed twice). `Sids`, `Links`, `Nicks`, `Pins` and `Reqs` are the sizes of the instance: a conflict
has two parties, two requests, and one link, PIN or nickname they fight over. In
`api_seq`, three links and three targets let a session be in a group twice, by create and by adopting its own solo share into it under the
second nickname, and keep the solo share. `Adoptable` is TRUE in `api_seq` and `api_overlap`: a share that
may not be adopted only takes steps away. `Points` has one element
in most runs, because no property depends on which location a session holds.
`ReuseLinks` says whether Generate may return the id of a dead share: with random ids
of eight or more characters it practically does not, so the sequential properties
assume it does not, while `api_overlap`, whose properties hold regardless, is
checked with reuse. `Slots` of the viewer is the number of its requests in flight at once: two are
enough for answers that overtake each other. `TimerIds` are the handles setInterval returns; two allow a
second timer beside the first, and `NewTimer` takes one that is not in use. `MaxCachedPts` and
`MaxPoints` of one to three let both the server and the page drop locations. In ViewerKey `Docs` bounds the requests and answers the page has at a time, `Overlap` the
requests in flight, `MaxJobs` the operations of WebCrypto under way, `MaxWrong` and `MaxPosts` what the viewer and the client enter. Three answers let one wait for the prompt while two are
in flight or decrypted, which is enough for stacked handlers and for both violations. In ViewerMap `ServerTimes` and `Lists` are the server's times and the lists of locations an answer may have for a user: the empty
list, one location of either time and of different states, and two; two times with an OFFLINE_TIMEOUT of one let a user be heard of, go grey
and come back. Sets of model values that only appear in equalities are declared symmetric; no run
with a liveness property uses symmetry.

**Deadlock** checking is off: the server never has to do anything, clients may stop
sending requests, and at the bound of the clock, with every session identifier used, nothing is left to do.

**Fairness.** `viewer_solo` assumes that time passes, that the browser runs a timer that is set, and that a request ends:
answered, or given up at REQUEST_TIMEOUT. It does not assume that any request succeeds.
`viewer_key` assumes that the browser runs timers and finishes what WebCrypto was asked for (weak fairness), that of requests sent again and again some are answered and arrive (strong
fairness of `Serve` and `Deliver`, since any request may fail), and that someone who knows the password enters it if the prompt stays open; `Recovers` says nothing of a viewer who cancels the prompt.
Nothing is assumed of the order, nor of how often wrong passwords are entered before. The other runs check safety only.

## 4. What is proved

All theorems are about the specifications of the modules without any bound on the sets of sessions, links,
nicknames, requests, viewers, users and clients; those of HaukApiProofs, and of HaukServerProofs about HaukFetch, for both stores, with failures, reuse of links
and any number of requests in flight. Those of HaukSeqProofs and `KeepsPromiseCorrect` have the hypothesis
`OneAtATime`. It is meant wherever this file says "one request at a time": one slot for requests that write, no failures, *and* a request that takes less than a second of the clock. Without it they are false of the code, as `stop_race` shows.
`ExpiredIsGoneCorrect` and `FetchNotGoneCorrect` have the weaker hypothesis `ClockWaits`: on Redis no second passes while a writing request is in flight, which `expired_set` shows to be needed; requests may overlap and
fail, and in memory nothing is assumed. Everything else is as general: any number of sessions, links, nicknames and PINs, links reused or asked for by name, PINs drawn twice, and, but for
`KeepsPromise`, either store. `NoEarlyEnd`, `OverIsFinal` and `TrailHasNoGap` are about shares of one user. The theorems of ViewerKeyProofs and ViewerMapProofs have no hypothesis: requests and answers overlap, overtake each other and fail. They all
assume the ASSUMEs of the modules, which TLC evaluates in the runs: numbers are
numbers, the users of a share are finitely many, and the "none" values differ from the values they stand beside.

| theorem | module | says |
| --- | --- | --- |
| `TypeCorrect` | HaukApiProofs | `TypeOK` is an invariant of HaukApi |
| `Soundness` | HaukApiProofs | `IInv` is an invariant of HaukApi |
| `ConsentCorrect` | HaukApiProofs | `Consent` |
| `PlaintextGroupsCorrect` | HaukApiProofs | `PlaintextGroups` |
| `SoloExpiryCorrect` | HaukApiProofs | `SoloExpiry` |
| `SessionFixedCorrect` | HaukApiProofs | no save from a stale copy changes a session's end or encryption |
| `GroupNonEmptyCorrect` | HaukApiProofs | `GroupNonEmpty` |
| `SeqSoundness` | HaukSeqProofs | `SeqInv` is an invariant of HaukApi, one request at a time (`OneAtATime`) |
| `TargetsCoverCorrect` | HaukSeqProofs | `TargetsCover`, one request at a time |
| `StoppedIsGoneCorrect` | HaukSeqProofs | `StoppedIsGone`, one request at a time |
| `PinResolvesCorrect` | HaukSeqProofs | `PinResolves`, one request at a time |
| `StopIsLocalCorrect` | HaukSeqProofs | `StopIsLocal`, one request at a time |
| `ExpiredIsGoneCorrect` | HaukServerProofs | `ExpiredIsGone`, for requests that overlap and fail, under `ClockWaits` |
| `KeepsPromiseCorrect` | HaukServerProofs | HaukApi implements Sharing, one request at a time and on Redis |
| `FetchSoundness` | HaukServerProofs | `FetchInv` is an invariant of HaukFetch |
| `FetchTypeCorrect` | HaukServerProofs | `FetchTypeOK` |
| `FetchConsentCorrect` | HaukServerProofs | `FetchConsent` |
| `FetchPlainCorrect` | HaukServerProofs | `FetchPlain` |
| `FetchNotGoneCorrect` | HaukServerProofs | `FetchNotGone`, for any number of viewers and of writing requests that overlap and fail, under `ClockWaits` |
| `OneTimerCorrect` | ViewerProofs | `OneTimer`, for solo shares and groups |
| `KeepsPollingCorrect` | ViewerProofs | `KeepsPolling`, for solo shares and groups |
| `NoEarlyEndCorrect` | ViewerProofs | `NoEarlyEnd`, for a share of one user and a clock that is not ahead |
| `OverIsFinalCorrect` | ViewerProofs | `OverIsFinal`, for the same |
| `TypeCorrect` | ViewerProofs | `TypeOK` of the page |
| `TrailAscendsCorrect` | ViewerProofs | `TrailAscends`, for solo shares and groups |
| `TrailHasNoGapCorrect` | ViewerProofs | `TrailHasNoGap`, for a share of one user |
| `TypeCorrect` | ViewerKeyProofs | `TypeOK` of the page of an encrypted share: the prompt has a handler |
| `OneTimerCorrect` | ViewerKeyProofs | `OneTimerUnlessPiled`, for any number of passwords, requests and operations |
| `KeepsPollingCorrect` | ViewerKeyProofs | `KeepsPolling`, for the same |
| `TypeCorrect` | ViewerMapProofs | `TypeOK` of the map |
| `FollowHasLocationCorrect` | ViewerMapProofs | `FollowHasLocation` |
| `FollowedInViewCorrect` | ViewerMapProofs | `FollowedInView` |
| `SelfAgreesCorrect` | ViewerMapProofs | `SelfAgrees` |
| `MarksAgreeCorrect` | ViewerMapProofs | `MarksAgree` |
| `LimiterTypeCorrect` | RateLimitProofs | `TypeOK` of the limiter |
| `TableBoundedCorrect` | RateLimitProofs | `TableBounded`, for any set of clients |
| `SpanLimitCorrect` | RateLimitProofs | `SpanLimit` |
| `WindowCountsCorrect` | RateLimitProofs | `WindowCounts` |
| `RefusedForCauseCorrect` | RateLimitProofs | `RefusedForCause` |

*The argument for HaukApi.* `TypeOK` alone is not inductive: that SaveSession writes a
session needs to know that `sid` is set at that point. `WellFormed` says for each
`pc` which handler may be there and which fields are set; `TypeInv` adds it. HaukApiProofs has
one lemma per action. It rests on the lemmas on sequences and
records before them (what RemoveTarget keeps, that AddPoint stays within a sequence of points, what RemoveHost returns).

The safety properties need more: a record about to be written is a local copy made
earlier, so the invariant must speak of copies. It cannot compare a copy with the
stored record, which may have changed or gone. Instead both are compared with the
*histories* `born` and `granted`, which only grow (`Grows`), so whatever was true of a
copy when it was made stays true (`FrameGrows`, `StoresGrow`). `IInv` is `TypeInv`, `StoresOK` (each
stored record agrees with the histories) and `FramesOK` (each copy does). `FramesStep`
reduces an action of one request to its new frame. TLC checks `IInv` in `api_overlap`.
`ShareSound`, the part of it about one share, says that a group has a member and no host and a solo share the reverse. That
does hold of copies as well, whichever record was decoded as whichever type, and gives `GroupNonEmpty`.

*The argument for the sequential properties.* `TargetsCover` speaks of quiet moments, and most of the work of a request goes on between them: a share is saved before
the list that names it, and a stop takes entries off a list of its own. `SeqInv` therefore counts. `Listed(f, l)` is how often the request
of frame `f` still has link `l` on its list, counting the target it is at; `FrameCovers` says that this is at least the number of entries
the caller's session has there, and `StoredCover` says the same of every other session and its stored targets. Each step of a handler moves one entry and one place on
the list together: AddTarget after a save, RemoveHost with NextTarget or RemoveTarget. That an entry more or less changes a count by one rests on lemmas about `Count`,
`RemoveFirst` and the names of a group (`CountRemoveFirst`, `CountTail`, `AddHostNames`, `RemoveHostNames`); the targets left after `RemoveFirst` come from
`RemoveAtPlaces` in HaukApiProofs. When stop-all has nothing left on its list no entry is left, which gives `StoppedIsGone`, and then `ShownKnown` (what is shown has been saved and not deleted) is kept.
`ExpiryKept` says that a record is kept until its own end and never longer than MaxDuration from now; it rests on the clock
standing still while a request is served. `PinsLead` says that a live PIN leads to a live group with that PIN *and the same end*, without which the group could end first; `ShareFits` says for each
`pc` what the handler's copy of the share has to do with the stored one. `StopIsLocal` needs `ListGranted` besides: a stop works through links its session was put under.

*The argument for the ends.* `ExpiredIsGone` does not need that requests wait for each other. `EndsKept` says that a stored session has the deadline its creator set, and that a request in flight has not
come to that of its own session on Redis; the latter is what `ClockWaits` gives and what a save with a deadline that has passed would break. `SoloKept` says the same of solo shares, and that a handler about to save one saves that of its own session
(`OwnShare`): a stop that read the type of one share and the hosts of another never comes to the save with a solo share (`StepOwn`), because what is left of one is abandoned.

*The argument for the refinement.* HaukServerProofs maps each store operation to an action of Sharing: loads, PINs and targets to a stutter (`SameView`), `SetShare` to `Put` (`PromiseNew`,
`PromiseJoin`) or `Take` (`PromiseLeave`), `DelShare` to `Take`, `SaveSession` to `Open` (`PromiseOpen`), `DelSession` to `Close`, `Tick` to `Tick`. What the guards of Sharing ask for comes from `SeqInv`: a session about to be saved for the first time has
exactly one entry (`OneEntry`, since its list has one link and each entry needs one), a group that is deleted showed one entry only (`LastShown`), and a solo share ends with its session.
The lemmas in between (`EntriesChange`, `EntriesLess`, `EntriesMore`) say how the board changes with one key of the store.

*The argument for HaukFetch.* A fetch is a reader with a copy of the share, so its copy is compared with the same histories:
`FetchOK` says that the copy agrees with them, that whatever was shown was granted under the link asked for, and that what is shown of a group is plain. The
steps of the writers keep it because the histories only grow; the steps of a fetch rest on `IInv` for what they load. That what is shown are locations, for
`FetchTypeOK`, follows from what `Selected` returns (`GetPointsType`). For `FetchNotGone` the sessions a fetch found gone on its arrival are compared with those gone now (`FreshInv`). `GoneSids` has the sessions whose end
has passed and those that were stopped and deleted with no other request of theirs in flight; it only
grows (`GoneGrows`), because only such a request could save the session again; the store finds none of them (by `EndsKept`), and a fetch shows nothing but what the store had when it loaded it (`FetchAdds`), however
long it is under way. The exception is needed: a new-link that loaded the session before a stop
saves a share and the session again after it (the race of `stop_race`), and a viewer of the new link gets its locations.

*The argument for the page.* `OneTimer` and `KeepsPolling` together are almost inductive. What is missing is that the answer of `init()`, which sets a timer without clearing
one, meets none: `FirstAlone` says that its request is alone while it is in flight. Clearing the known timer then clears all. `NoEarlyEnd` needs what the timers
and answers know: with one user every answer that is a share carries the same end and interval (`AnswerOK`), hence no answer replaces the first timer; a refusal means that the share was
over when it was computed, and it stays over (`OverStays`); and no timer believes the server's clock to be further than it is (`SoloTimer`), where `Skew <= 0` comes in. In a group both fail (sections 3 and 5).

*The argument for the trails.* What is drawn is the result of two loops: the server selects what is newer than `since` (`Selected`), and the page
adds what is newer than its last (`Longer`). The library's induction theorems cannot be used here, since they take an operator. `UpTo` takes their place for a set of
numbers: if it has 0 and the successor of each of its numbers below n, it has all up to n, because the least one missing has no
predecessor in it (`NatMin`). With it `RecursExists` shows that such a loop defines a function, and `SelectedSteps` and `LongerSteps` what it is at
each place. `SelectedProperties` and `LongerProperties` say what comes out: the entries at the chosen places in their order, and the trail with the locations newer than it behind.
`TrailAscends` needs nothing else, whatever an answer holds: the loop looks at the last location each time, hence it is true of groups and of answers that overtake each other.
`TrailHasNoGap` speaks of locations that were *not* drawn. `GapInv` says of each request that its `since` is not after the last location drawn, and of
each answer that it is `Whole`: from its `since` to its own last it lacks nothing the server still has. A new location does not make an answer less whole, because clients post
ascending times; an answer that comes late is whole still, and what it has beyond the trail starts within the trail (`DrawsNoGap`).
With one user `since` is the last time drawn (`OldestOfOne`). With more it is the oldest of their last times, which need not be below the
last time of a user drawn for the first time by another answer: there the invariant, and the property, fail.

*The argument for encrypted shares.* The timers depend on what is under way, and `KeyInv` says what that can be unless answers have piled up (`OneByOne`). As long as the
page has not got the right key one answer at most waits for it: nothing does, or the prompt is open with one handler, or one operation is at work on it
(`Idle`, `Prompted`, `Working`), beside any number of requests in flight. With the right key (`Opened`) there are no handlers, answers are decrypted in any number and none fails. What is to start the polling, a
first answer or one that failed to decrypt, finds no timer in either phase. `Starting` says that something is to start the polling when there is no timer, nothing is said of the end, and the
prompt was not dismissed; at rest nothing is under way, hence `KeepsPolling`. Once an answer has come in while another waits the history `piled` is set for good, and of the page only `TypeOK` is claimed, which is inductive by itself: that there is a
handler while the prompt is open holds because both buttons hide the prompt and take off one handler, the newest, which was added last. Bags and sequences of any length are handled by `BagSteps` and `BagOfSeq`.

*The argument for the map.* `MarksAgree` compares two parts of a
marker that are set under different conditions with a state that is set under a third; `MarkOK` is what of it survives a drawing, before the second loop has run: from the second location on the arrow is grey or has the colour of the state, since the loop that sets the state also gives the arrow its class anew. `GreyedOK` says
what the second loop makes of any such marker. Neither asks for an order of answers. `DrawnOK` rests on what `Selected` returns. `FollowedInView` holds the view against a marker that every answer may move: a marker of a followed user moves in the loop that moves the map. `ListInv` has
that a marker is in the list, and that somebody is on the map once it was shown, so that its bounds exist. `SelfInv` ties the state of the control to the watch of the position,
through clicks before the first position. Each action of the page has one lemma.

*The argument for the limiter.* An entry is added only below the cap, and a sweep never
adds one; the cardinality needs the table to be finite, which the strengthened invariant
carries along. For `SpanLimit` and `WindowCounts` the history `passed` is cut into windows: `Counted` says that the last requests of a client, as many as its
entry counts, came from the opening to the end of its window, that all others came before, and that all but fewer than a limit's worth of those came more than a window before
the opening. When the entry is gone, `Over` says the same of the present instead, so that neither a sweep nor a window that is replaced loses anything
(`StaleIsOver`). `RefusedForCause` follows from `TableBounded`: a full table has just been swept.

**Only model-checked.** `Recovers` and `EndIsNoticed` (of both pages): liveness is out of the prover's reach. `SeqInv` is proved and checked as well. Of the other inductive
invariants, `FetchInv`, `KeyInv`, `MapInv`, `GapInv`, `SoloInv` and that of the limiter are not listed by the runs, since the theorems make them true of every instance.

## 5. Where code and documentation or tests disagree

Each is a run in which TLC finds the property violated.

- `stop_race`: post loads a session, stop deletes it and answers OK, post saves it:
  the session is back (`api/post.go:87`). `api/api_test.go:466` and 469 expect it to be
  gone after stop, with requests that do not overlap, where `api_seq` agrees.
- `expired_set`: a record loaded just before its end and saved just after is stored in
  Redis without an expiry and stays for ever (`store/redis.go:82`);
  `store/memory_test.go:83` expects an expired key not to exist.
- `viewer_lost`: a member of a group who has sent nothing newer than `since` is answered with
  `null` rather than an empty list (`model/share.go:174`; `api/fetch.go:81` makes it a list for a solo share only). `processUpdate` throws on its
  length, and the page stops polling and says that the share has ended while it has not.
- `key_timers`: a wrong password is accepted while there is no location to decrypt, and the polling starts. Two answers that overlap are then decrypted under the wrong key; the first fails, clears the timer and
  asks for the password, the second fails and does the same, and now both are to start the polling anew: each sets a timer, of which the page knows one (`frontend/main.js:649`). It fetches twice per
  interval, and at the end clears one timer only. `frontend/main.js:429` says that the task fetches once per interval time. In the same way a late failure can clear the timer another answer has just set, and leave the page with none (`KeepsPolling` without its `piled`).
- `limit_span`: the limiter's windows are fixed and start with a client's first request (`ratelimit/ratelimit.go:59`), so that up to twice the limit gets through
  within a minute that spans two of them; `README.md:50` and 51 and `config/config.go:89` promise a maximum per minute. `SpanLimit` states the limit that does hold.

One disagreement has no run of its own, as it needs no interleaving: `frontend/main.js:236` says "Unfollow the user when the map is panned", but listens to `mousedown` only, so that a map moved by the wheel, the keyboard
or a pinch (`MoveMap`) goes on following, and jumps back with the user's next location.

Some observations contradict no text and are no runs.

- A group none of whose sessions can be loaded is answered with interval 0, below the minimum create insists on
  (`model/share.go:180`, `api/create.go:71`), and the page then calls setInterval with 0.
- The page keeps the offset between the clocks in seconds and takes it off a number of milliseconds (`frontend/main.js:404`, `:433`), so that it
  corrects next to nothing: with `Skew = 2`, a clock that is ahead, `NoEarlyEnd` fails.
- The state of a user is set by every location of an answer, also by one too old to be added (`frontend/main.js:713`). An answer overtaken by a newer
  one sets it back until the next, and the label with it (`:878`); the arrow of a marker with one location keeps its class (`:815`), so that the two may disagree.

## 6. Abstractions and what is not modelled

- Passwords and users: the outcome of authentication is folded into Begin (a request
  that fails it changes nothing). `Users` matters for reserved links only.
- Session identifiers are 32 random bytes and never repeat; links are drawn from
  `Links` as long as they are free; PINs from `Pins` without a look at those in use,
  as the code does.
- Intervals are whole numbers. Fractions would change no decision; the not-a-number
  values ParseFloat accepts pass the comparisons and make the record impossible to encode,
  which is the failure `Abort` before the first save of the session.
- Locations are named by their timestamp; the other fields are passed through untouched.
- Texts of answers, headers, JSON and form encoding are left out.
- Not modelled: authentication backends (external libraries and files), configuration (read once),
  dynamic.js and the assets (pure output), and the inside of the link generator (the choice among random characters).
- Of the page, speeds, angles, accuracy circles, lines, the countdown, the banner of a page that is offline and all texts are left out: they follow from
  one location or one clock and are read by nothing else.
- ViewerKey: an answer decrypted with a wrong key is taken to fail; by chance one in 256 has padding that looks right, and then fails to parse or shows
  nonsense. A browser without WebCrypto is left out. When the first request gets no answer (`frontend/main.js:91`) the page waits for good: `Stranded`.
- ViewerMap: the map is reduced to what it was last moved to, and which answers come is not tied to a server: any may come.
- The length of the store's key prefix and connection handling of the Redis client are left out.

## 7. Plan

Done: HaukStore, HaukModel, HaukApi, HaukFetch, Sharing with the refinement, RateLimit, Viewer, ViewerKey, ViewerMap, and the proofs of section 4:
every invariant and action property the runs check is stated by a theorem.

Next, in this order:

1. `TrailHasNoGap` for groups with one request in flight, where the oldest of the last locations is asked for.
2. **LinkGen**: rejection sampling in randInt over all byte values and alphabets; of little weight, since every link the model
   draws may be any free one.
