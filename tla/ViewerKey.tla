------------------------------- MODULE ViewerKey -------------------------------
(***************************************************************************)
(* The page that shows an encrypted share (frontend/main.js).  Such a      *)
(* share has one user.  What the server answers is cipher text; the page   *)
(* asks for a password, derives a key from it and decrypts each answer     *)
(* before it draws it.  Deriving and decrypting run in the background: an  *)
(* answer is put aside meanwhile, and more answers, prompts and passwords  *)
(* come in between.  Viewer has the order of locations and the clocks;     *)
(* here a location is a number, the first posted being 1.                  *)
(***************************************************************************)
EXTENDS Integers, Bags, SequencesExt

CONSTANTS Docs,        \* bound: requests and answers the page has at a time
          Overlap,     \* bound: requests in flight together
          MaxJobs,     \* bound: operations of WebCrypto under way together
          TimerIds,    \* what setInterval returns
          NoTimer,     \* fetchIntv before the first setInterval
          NoKey,       \* aesKey is null
          MaxPosts,    \* bound: locations the client posts
          MaxWrong     \* bound: wrong passwords that are entered

ASSUME BoundsAssumption == {Overlap, MaxJobs, MaxPosts, MaxWrong} \subseteq Nat
ASSUME DocsAssumption == Docs # {}
ASSUME NoTimerAssumption == NoTimer \notin TimerIds

VARIABLES share,       \* whether the share is live, or how it ended
          newest,      \* the last location the server has, 0 for none
          docs,        \* requests, and answers that are not done with
          aesKey,      \* the key, named by the password it is derived from
          listeners,   \* the click handlers of the button of the prompt
          prompt,      \* the prompt is open
          wrongs,      \* wrong passwords entered
          dismissed,   \* the prompt was cancelled
          piled,       \* history: an answer met another that waits for the key
          jobs,        \* what WebCrypto is at work on
          timers,      \* the intervals that are set
          fetchIntv,   \* the one the page knows
          drawn,       \* the last location drawn, 0 for none
          message      \* what the page says of the share

server == <<share, newest>>
dialog == <<listeners, prompt, wrongs, dismissed, piled>>
polling == <<timers, fetchIntv>>
vars == <<server, docs, aesKey, dialog, jobs, polling, drawn, message>>

------------------------------------------------------------------------------

Passwords == {"right", "wrong"}

ASSUME NoKeyAssumption == NoKey \notin Passwords

\* A request, later its answer: the locations up to upto, all of them, because the
\* times of encrypted locations cannot be compared with since.  plain is the answer's
\* flag "encrypted", reset once it is decrypted.  An answer is kept for as long as a
\* click handler or an operation refers to it.
Doc == [st : {"free", "sent", "answered", "kept"}, first : BOOLEAN, ok : BOOLEAN,
        upto : 0..MaxPosts, plain : BOOLEAN]

Free == [st |-> "free", first |-> FALSE, ok |-> FALSE, upto |-> 0, plain |-> FALSE]

\* Which of the free ids or documents is used makes no difference.
Some(S) == CHOOSE x \in S : TRUE

\* The handler acceptKeyFunc made by a call of processUpdate, with the arguments
\* of that call.  acceptKeyFunc, a global variable, is the last that was added.
Listener == [doc : Docs, init : BOOLEAN]

Job == [what : {"derive", "decrypt"}, doc : Docs, init : BOOLEAN, key : Passwords]

TypeOK ==
  /\ share \in {"live", "stopped", "expired"} /\ newest \in 0..MaxPosts
  /\ docs \in [Docs -> Doc]
  /\ aesKey \in Passwords \cup {NoKey}
  /\ listeners \in Seq(Listener) /\ prompt \in BOOLEAN /\ wrongs \in 0..MaxWrong
  /\ dismissed \in BOOLEAN /\ piled \in BOOLEAN
  /\ prompt => listeners # <<>>
  /\ IsABag(jobs) /\ BagToSet(jobs) \subseteq Job
  /\ timers \subseteq TimerIds /\ fetchIntv \in TimerIds \cup {NoTimer}
  /\ drawn \in 0..MaxPosts
  /\ message \in {"none", "notfound", "expired"}

Init ==
  /\ share = "live" /\ newest = 0
  /\ docs = [x \in Docs |-> IF x = Some(Docs) THEN [Free EXCEPT !.st = "sent", !.first = TRUE]
                                             ELSE Free]
  /\ aesKey = NoKey
  /\ listeners = <<>> /\ prompt = FALSE /\ wrongs = 0
  /\ dismissed = FALSE /\ piled = FALSE
  /\ jobs = EmptyBag
  /\ timers = {} /\ fetchIntv = NoTimer
  /\ drawn = 0 /\ message = "none"

InFlight == {d \in Docs : docs[d].st \in {"sent", "answered"}}

\* The documents ds once the answers nothing refers to any more are dropped.
Kept(ds, ls, js) ==
  LET used == {l.doc : l \in Range(ls)} \cup {j.doc : j \in BagToSet(js)}
  IN  [d \in Docs |-> IF ds[d].st = "kept" /\ d \notin used THEN Free ELSE ds[d]]

\* Mutant: nothing is cleared.
Cleared_Nothing == timers

\* clearInterval(fetchIntv)
Cleared == timers \ {fetchIntv}

\* setNewInterval, beside the timers in ts.
SetNewInterval(ts) ==
  /\ TimerIds \ ts # {}
  /\ fetchIntv' = Some(TimerIds \ ts) /\ timers' = ts \cup {fetchIntv'}

------------------------------------------------------------------------------
(* processUpdate *)

\* Without locations Promise.all has nothing to wait for: any key will do.
Readable(doc, key) == doc.plain \/ (key # NoKey /\ doc.upto = 0)

\* The answer ds[d] is plain: it is drawn, and a timer set if this is to start
\* the polling.
Show(d, init, ds, ls, js, ts) ==
  /\ docs' = Kept([ds EXCEPT ![d].plain = TRUE], ls, js)
  /\ drawn' = Max({drawn, ds[d].upto})
  /\ IF init THEN SetNewInterval(ts) ELSE timers' = ts /\ UNCHANGED fetchIntv
  /\ listeners' = ls /\ jobs' = js
  /\ UNCHANGED prompt

\* Mutant: the handler is added for the first answer only.
Ask_FirstOnly(d, init, ds, ls, js, ts) ==
  /\ listeners' = IF ds[d].first THEN Append(ls, [doc |-> d, init |-> init]) ELSE ls
  /\ prompt' = TRUE
  /\ docs' = Kept(ds, listeners', js)
  /\ jobs' = js /\ timers' = ts
  /\ UNCHANGED <<fetchIntv, drawn>>

\* There is no key: one more handler is added to the button, and the prompt opened.
Ask(d, init, ds, ls, js, ts) ==
  /\ listeners' = Append(ls, [doc |-> d, init |-> init])
  /\ prompt' = TRUE
  /\ docs' = Kept(ds, listeners', js)
  /\ jobs' = js /\ timers' = ts
  /\ UNCHANGED <<fetchIntv, drawn>>

\* There is a key: the locations are decrypted with it.
Decrypt(d, init, key, ds, ls, js, ts) ==
  /\ BagCardinality(js) < MaxJobs
  /\ jobs' = js (+) SetToBag({[what |-> "decrypt", doc |-> d, init |-> init, key |-> key]})
  /\ docs' = Kept(ds, ls, jobs')
  /\ listeners' = ls /\ timers' = ts
  /\ UNCHANGED <<prompt, fetchIntv, drawn>>

\* processUpdate for the answer ds[d] while aesKey is key; ls are the handlers, js
\* the operations and ts the timers there are at that time.
Process(d, init, key, ds, ls, js, ts) ==
  \/ Readable(ds[d], key) /\ Show(d, init, ds, ls, js, ts)
  \/ ~Readable(ds[d], key) /\ key = NoKey /\ Ask(d, init, ds, ls, js, ts)
  \/ ~Readable(ds[d], key) /\ key # NoKey /\ Decrypt(d, init, key, ds, ls, js, ts)

------------------------------------------------------------------------------
(* Requests and answers *)

\* The callback of a timer.  It clears the one the page knows once the share has
\* expired, and sends its request all the same.
Fire(t) ==
  /\ t \in timers
  /\ Cardinality(InFlight) < Overlap
  /\ LET free == {d \in Docs : docs[d].st = "free"}
     IN  free # {} /\ docs' = [docs EXCEPT ![Some(free)] = [Free EXCEPT !.st = "sent"]]
  /\ IF share = "expired" THEN timers' = Cleared /\ message' = "expired"
                          ELSE UNCHANGED <<timers, message>>
  /\ UNCHANGED <<server, aesKey, dialog, jobs, fetchIntv, drawn>>

Serve(d) ==
  /\ docs[d].st = "sent"
  /\ docs' = [docs EXCEPT ![d].st = "answered", ![d].ok = share = "live", ![d].upto = newest]
  /\ UNCHANGED <<server, aesKey, dialog, jobs, polling, drawn, message>>

\* Without the right key, an answer waits for the viewer or for WebCrypto.
Waiting == aesKey # "right" /\ (listeners # <<>> \/ jobs # EmptyBag)

\* An answer that is a share is processed, a 404 is the end.
Deliver(d) ==
  /\ docs[d].st = "answered"
  /\ \/ /\ docs[d].ok
        /\ Process(d, docs[d].first, aesKey, [docs EXCEPT ![d].st = "kept"],
                   listeners, jobs, timers)
        /\ piled' = (piled \/ Waiting)
        /\ UNCHANGED message
     \/ /\ ~docs[d].ok
        /\ docs' = [docs EXCEPT ![d] = Free]
        /\ IF docs[d].first THEN message' = "notfound" /\ UNCHANGED timers
                            ELSE message' = "expired" /\ timers' = Cleared
        /\ UNCHANGED <<listeners, prompt, piled, jobs, fetchIntv, drawn>>
  /\ UNCHANGED <<server, aesKey, wrongs, dismissed>>

\* Another status, a timeout or no connection: no callback is called.
Fail(d) ==
  /\ docs[d].st \in {"sent", "answered"}
  /\ docs' = [docs EXCEPT ![d] = Free]
  /\ UNCHANGED <<server, aesKey, dialog, jobs, polling, drawn, message>>

------------------------------------------------------------------------------
(* The prompt *)

\* Handlers run in the order they were added, and each removes acceptKeyFunc from
\* the button, not itself.  A handler removed by an earlier one does not run.
Running == IF Len(listeners) = 1 THEN listeners ELSE Front(listeners)

\* The operation handler l starts.
Deriving(l, pw) == [what |-> "derive", doc |-> l.doc, init |-> l.init, key |-> pw]

\* The button: every handler that runs derives a key for its answer.
Enter(pw) ==
  /\ prompt
  /\ pw = "wrong" => wrongs < MaxWrong
  /\ BagCardinality(jobs) + Len(Running) <= MaxJobs
  /\ jobs' = jobs (+) ToBag([i \in DOMAIN Running |-> Deriving(Running[i], pw)])
  /\ listeners' = Front(listeners)
  /\ prompt' = FALSE
  /\ wrongs' = IF pw = "wrong" THEN wrongs + 1 ELSE wrongs
  /\ docs' = Kept(docs, listeners', jobs')
  /\ UNCHANGED <<server, aesKey, dismissed, piled, polling, drawn, message>>

\* The other button hides the prompt and removes acceptKeyFunc.
Cancel ==
  /\ prompt
  /\ listeners' = Front(listeners)
  /\ prompt' = FALSE /\ dismissed' = TRUE
  /\ docs' = Kept(docs, listeners', jobs)
  /\ UNCHANGED <<server, aesKey, wrongs, piled, jobs, polling, drawn, message>>

Without(j) == jobs (-) SetToBag({j})

\* deriveKey is done: the key is kept and the answer processed once more.
Derived(j) ==
  /\ BagIn(j, jobs) /\ j.what = "derive"
  /\ aesKey' = j.key
  /\ Process(j.doc, j.init, j.key, docs, listeners, Without(j), timers)
  /\ UNCHANGED <<server, wrongs, dismissed, piled, message>>

\* Every location is decrypted.
Decrypted(j) ==
  /\ BagIn(j, jobs) /\ j.what = "decrypt" /\ j.key = "right"
  /\ Show(j.doc, j.init, docs, listeners, Without(j), timers)
  /\ UNCHANGED <<server, aesKey, wrongs, dismissed, piled, message>>

\* Mutants: the timer runs on; the answer is processed as what it was; the key is kept.
Remaining_All(j) == timers

Rejected_KeepsInit(j) ==
  /\ BagIn(j, jobs) /\ j.what = "decrypt" /\ j.key = "wrong"
  /\ aesKey' = NoKey
  /\ Process(j.doc, j.init, NoKey, docs, listeners, Without(j),
             IF j.init THEN timers ELSE Cleared)
  /\ UNCHANGED <<server, wrongs, dismissed, piled, message>>

Rejected_KeepsKey(j) ==
  /\ BagIn(j, jobs) /\ j.what = "decrypt" /\ j.key = "wrong"
  /\ Process(j.doc, TRUE, aesKey, docs, listeners, Without(j),
             IF j.init THEN timers ELSE Cleared)
  /\ UNCHANGED <<server, aesKey, wrongs, dismissed, piled, message>>

\* The timers there are after a failed decryption.
Remaining(j) == IF j.init THEN timers ELSE Cleared

\* Under a wrong key the padding is wrong.  The key is dropped, whatever it is by
\* now, and the answer processed as if it were the first.
Rejected(j) ==
  /\ BagIn(j, jobs) /\ j.what = "decrypt" /\ j.key = "wrong"
  /\ aesKey' = NoKey
  /\ Process(j.doc, TRUE, NoKey, docs, listeners, Without(j), Remaining(j))
  /\ UNCHANGED <<server, wrongs, dismissed, piled, message>>

------------------------------------------------------------------------------
(* The share *)

Post ==
  /\ share = "live" /\ newest < MaxPosts
  /\ newest' = newest + 1
  /\ UNCHANGED <<share, docs, aesKey, dialog, jobs, polling, drawn, message>>

End ==
  /\ share = "live"
  /\ share' \in {"stopped", "expired"}
  /\ UNCHANGED <<newest, docs, aesKey, dialog, jobs, polling, drawn, message>>

Next ==
  \/ \E t \in timers : Fire(t)
  \/ \E d \in Docs : Serve(d) \/ Deliver(d) \/ Fail(d)
  \/ \E pw \in Passwords : Enter(pw)
  \/ Cancel
  \/ \E j \in BagToSet(jobs) : Derived(j) \/ Decrypted(j) \/ Rejected(j)
  \/ Post \/ End

Spec == Init /\ [][Next]_vars

\* The browser runs timers and operations, of requests sent again and again some get
\* through, and someone who knows the password enters it when asked often enough.
Fairness ==
  /\ WF_vars(\E t \in timers : Fire(t))
  /\ SF_vars(\E d \in Docs : Serve(d)) /\ SF_vars(\E d \in Docs : Deliver(d))
  /\ WF_vars(\E j \in BagToSet(jobs) : Derived(j) \/ Decrypted(j) \/ Rejected(j))
  /\ WF_vars(Enter("right"))

LiveSpec == Spec /\ Fairness

------------------------------------------------------------------------------

\* "Schedule a task that fetches data once per interval time": no timer runs
\* beside the one the page knows and can clear.
OneTimer == timers \subseteq {fetchIntv}

\* However often a failed decryption starts the polling anew, there is one timer, as
\* long as no answer comes in while another waits for the right key.
OneTimerUnlessPiled == ~piled => OneTimer

\* The page is at work on something, or waits for the viewer.
Busy == prompt \/ BagToSet(jobs) # {} \/ InFlight # {}

\* The first request got no answer: nothing will happen any more.
Stranded == fetchIntv = NoTimer /\ ~Busy

\* As long as answers do not pile up, a page that had its first answer, was not left
\* without a password and does not say that the share is over keeps polling: what a
\* failed decryption clears is made up for.
KeepsPolling ==
  message = "none" /\ ~Busy => timers # {} \/ dismissed \/ Stranded \/ piled

\* A viewer who enters the right password in the end is shown every location of a
\* share that stays live, whatever wrong ones were entered and accepted before.
Recovers ==
  \A n \in 1..MaxPosts :
     newest >= n ~> drawn >= n \/ dismissed \/ share # "live" \/ Stranded \/ piled

\* Once the share is over, a page on which no answers pile up stops polling for good.
EndIsNoticed == share # "live" ~> [](timers = {} \/ piled)
==============================================================================
