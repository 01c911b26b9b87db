---------------------------- MODULE ClientProofs ----------------------------
(***************************************************************************)
(* What join() means and that a promise is kept once, for any number of    *)
(* clients, workers and messages.                                          *)
(*                                                                         *)
(* A step works for one client at most, and nothing changes for the others *)
(* (Acts, Elsewhere); so the invariant is stated client by client          *)
(* (Session), next to what main()'s loops say of all of them (Starting,    *)
(* Joining).                                                               *)
(***************************************************************************)
EXTENDS Client, TLAPS

\* A worker from the task it takes to the one it posts, others when they look for a message
\* and when they post
RequestLabels(t) ==
    IF t \in Workers THEN {"close"} \cup CloseLabels \cup MessageLabels ELSE {"post", "confirm"}

Owns(t, c) == on[t] = c /\ at[t] \in RequestLabels(t)
Queued(c) == \E i \in 1 .. Len(queue) : queue[i] = c

\* No session is queued twice.
QueuedOnce == \A i, j \in 1 .. Len(queue) : queue[i] = queue[j] => i = j

\* One request for the session, queued or in a thread's hands, which has the token. After
\* handle_error that thread, if it is a worker, only closes, and there is no other request.
FailLabels == {"close", "closing", "gobad"}

Requests(c) ==
    /\ \A t, u \in Threads : Owns(t, c) /\ Owns(u, c) => t = u
    /\ \A t \in Threads : Owns(t, c) => token[c] /\ ~Queued(c)
    /\ Queued(c) => token[c]
    /\ failed[c] => token[c] /\ ~Queued(c)
    /\ failed[c] => \A t \in Threads : Owns(t, c) => at[t] \in FailLabels

\* One thread closes the session, and leaves it closed.
Closing(t, c) == on[t] = c /\ at[t] \in {"closing", "gobad"}

Closes(c) ==
    /\ \A t, u \in Threads : Closing(t, c) /\ Closing(u, c) => t = u
    /\ \A t \in Threads : Closing(t, c) =>
          good[c] /\ state[c] = (IF at[t] = "closing" THEN "closing" ELSE "none")
    /\ state[c] = "none" => ~tracked[c]
    /\ ~good[c] => state[c] = "none"

\* A request stands for a message, unless the session has gone bad; so does a worker's close,
\* unless it is handle_error's.
Asks(t, c) == on[t] = c /\ at[t] \in {"post", "check"}
Handles(t, c) == t \in Workers /\ on[t] = c /\ at[t] \in {"handle", "close", "closing", "gobad", "commit"}

Messages(c) ==
    /\ good[c] /\ (Queued(c) \/ \E t \in Threads : Asks(t, c)) => unread[c] >= 1
    /\ \A t \in Threads : Handles(t, c) /\ ~failed[c] => unread[c] >= 1

\* The close callback comes last, and the promise says that it came.
Keeps(c) ==
    /\ \A t \in Threads : on[t] = c /\ at[t] = "release" => ~good[c]
    /\ promise[c] # "broken"
    /\ closes[c] = (IF promise[c] \in {"old", "new"} THEN 0 ELSE 1)
    /\ closes[c] = 1 =>
          ~good[c] /\ token[c] /\ ~Queued(c) /\ \A t \in Threads : ~Owns(t, c)

Session(c) == Requests(c) /\ Closes(c) /\ Messages(c) /\ Keeps(c)

\* A client main() has not started is untouched.
Fresh(c) ==
    /\ ~tracked[c] /\ good[c] /\ ~token[c] /\ promise[c] = "old"
    /\ \A t \in Threads \ {"main"} : on[t] = c => at[t] \in {"idle", "exited"}

Unstarted(c) ==
    \/ at["main"] = "promise" /\ on["main"] = c
    \/ at["main"] = "track" /\ on["main"] = c /\ Fresh(c) /\ state[c] = "connected"
    \/ (at["main"] # "idle" => on["main"] # c) /\ Fresh(c) /\ state[c] = "none"

Starting ==
    /\ at["main"] \in {"track", "promise"} => stage = "start" /\ on["main"] \in todo
    /\ at["main"] = "promise" => promise[on["main"]] \in {"old", "oldSet"}
    /\ stage = "start" => at["main"] \in {"idle", "track", "promise"}
    /\ stage = "start" => \A c \in todo : Unstarted(c)

\* Who was joined has its promise kept.
Joining == \A c \in Clients : Joined(c) => promise[c] = "set"

IInv ==
    /\ TypeOK /\ QueuedOnce
    /\ \A c \in Clients : Session(c)
    /\ Starting /\ Joining

-----------------------------------------------------------------------------
(* Steps of one thread, for one client *)

LEMMA ThreadNames ==
    /\ "main" \in Threads /\ "io" \in Threads /\ Workers \subseteq Threads
    /\ "main" \notin Workers /\ "io" \notin Workers
    /\ \A t \in Threads : t \in Workers \/ t = "main" \/ t = "io"
    /\ LabelsOf("main") = MainLabels /\ LabelsOf("io") = IoLabels
    /\ \A w \in Workers : LabelsOf(w) = WorkerLabels
<1>1. /\ "main" \in Threads /\ "io" \in Threads /\ Workers \subseteq Threads
      /\ "main" \notin Workers /\ "io" \notin Workers
      /\ \A t \in Threads : t \in Workers \/ t = "main" \/ t = "io"
  BY ClientAssumption DEF Threads
<1> QED BY <1>1 DEF LabelsOf

Same(c) ==
    /\ state'[c] = state[c] /\ tracked'[c] = tracked[c] /\ good'[c] = good[c]
    /\ token'[c] = token[c] /\ unread'[c] = unread[c] /\ failed'[c] = failed[c]
    /\ promise'[c] = promise[c] /\ closes'[c] = closes[c]

(***************************************************************************)
(* Thread s works for client d and is then at label l: nothing changes for *)
(* the other threads and the other clients.                                *)
(***************************************************************************)
Acts(s, d, l) ==
    /\ on[s] = d \/ at[s] = "idle"
    /\ on'[s] = d /\ at'[s] = l
    /\ \A t \in Threads \ {s} : on'[t] = on[t] /\ at'[t] = at[t]
    /\ \A c \in Clients \ {d} : Same(c) /\ (Queued(c)' <=> Queued(c))

LEMMA ActsFrame ==
    ASSUME NEW s \in Threads, NEW d \in Clients, NEW l, Acts(s, d, l)
    PROVE  /\ \A t \in Threads \ {s}, c \in Clients :
                 /\ Owns(t, c)' <=> Owns(t, c)
                 /\ Closing(t, c)' <=> Closing(t, c)
                 /\ Asks(t, c)' <=> Asks(t, c)
                 /\ Handles(t, c)' <=> Handles(t, c)
           /\ \A c \in Clients \ {d} :
                 /\ ~Owns(s, c)' /\ ~Closing(s, c)' /\ ~Asks(s, c)' /\ ~Handles(s, c)'
                 /\ ~Owns(s, c) /\ ~Closing(s, c) /\ ~Asks(s, c) /\ ~Handles(s, c)
           /\ Owns(s, d)' <=> l \in RequestLabels(s)
           /\ Closing(s, d)' <=> l \in {"closing", "gobad"}
           /\ Asks(s, d)' <=> l \in {"post", "check"}
           /\ Handles(s, d)' <=>
                 s \in Workers /\ l \in {"handle", "close", "closing", "gobad", "commit"}
BY DEF Acts, Owns, Closing, Asks, Handles, RequestLabels, CloseLabels, MessageLabels

LEMMA Elsewhere ==
    ASSUME NEW s \in Threads, NEW d \in Clients, NEW l, Acts(s, d, l),
           NEW c \in Clients \ {d}, Session(c)
    PROVE  Session(c)'
<1>1. \A t \in Threads :
         /\ Owns(t, c)' <=> Owns(t, c)
         /\ Closing(t, c)' <=> Closing(t, c)
         /\ Asks(t, c)' <=> Asks(t, c)
         /\ Handles(t, c)' <=> Handles(t, c)
  BY ActsFrame
<1>2. Same(c) /\ (Queued(c)' <=> Queued(c))
  BY DEF Acts
<1>3. \A t \in Threads : Closing(t, c) \/ Owns(t, c) => at'[t] = at[t]
  BY ActsFrame DEF Acts
<1>4. \A t \in Threads : on'[t] = c => on[t] = c /\ at'[t] = at[t]
  BY DEF Acts
<1>5. Requests(c)'
  BY <1>1, <1>2, <1>3 DEF Session, Requests, Same
<1>6. Closes(c)'
  BY <1>1, <1>2, <1>3 DEF Session, Closes, Same
<1>7. Messages(c)'
  BY <1>1, <1>2 DEF Session, Messages, Same
<1>8. Keeps(c)'
  BY <1>1, <1>2, <1>4 DEF Session, Keeps, Same
<1> QED BY <1>5, <1>6, <1>7, <1>8 DEF Session

(***************************************************************************)
(* The request of d is taken, kept, passed on or given back.               *)
(***************************************************************************)
Passes(s, d, l) ==
    /\ l \in RequestLabels(s) => Owns(s, d) \/ ~token[d] \/ (Queued(d) /\ ~Queued(d)')
    /\ Queued(d)' => Queued(d) \/ (Owns(s, d) /\ l \notin RequestLabels(s))
    /\ l \in RequestLabels(s) \/ Queued(d)' => token'[d]
    /\ token[d] /\ ~token'[d] => Owns(s, d)
    /\ failed'[d] =>
          /\ token'[d] /\ ~Queued(d)' /\ (failed[d] \/ Owns(s, d))
          /\ l \in RequestLabels(s) => l \in FailLabels

LEMMA RequestPasses ==
    ASSUME NEW s \in Threads, NEW d \in Clients, NEW l, Acts(s, d, l),
           Requests(d), Passes(s, d, l)
    PROVE  Requests(d)'
<1>1. /\ \A t \in Threads \ {s} : (Owns(t, d)' <=> Owns(t, d)) /\ at'[t] = at[t]
      /\ Owns(s, d)' <=> l \in RequestLabels(s)
      /\ at'[s] = l
  BY ActsFrame DEF Acts
<1>2. /\ \A t, u \in Threads : Owns(t, d)' /\ Owns(u, d)' => t = u
      /\ \A t \in Threads : Owns(t, d)' => token'[d] /\ ~Queued(d)'
      /\ Queued(d)' => token'[d]
  BY <1>1 DEF Requests, Passes
<1>3. failed'[d] => \A t \in Threads : Owns(t, d)' => at'[t] \in FailLabels
  BY <1>1 DEF Requests, Passes
<1> QED BY <1>2, <1>3 DEF Requests, Passes

LEMMA ClosesSame ==
    ASSUME NEW s \in Threads, NEW d \in Clients, NEW l, Acts(s, d, l), Closes(d),
           state'[d] = state[d], tracked'[d] = tracked[d], good'[d] = good[d],
           l \notin {"closing", "gobad"}
    PROVE  Closes(d)'
<1>1. /\ \A t \in Threads \ {s} : (Closing(t, d)' <=> Closing(t, d)) /\ at'[t] = at[t]
      /\ ~Closing(s, d)'
  BY ActsFrame DEF Acts
<1> QED BY <1>1 DEF Closes

LEMMA MessagesKept ==
    ASSUME NEW s \in Threads, NEW d \in Clients, NEW l, Acts(s, d, l), Messages(d),
           unread[d] \in Nat, unread'[d] \in Nat, unread'[d] >= unread[d], good'[d] => good[d],
           good'[d] /\ l \in {"post", "check"} => unread'[d] >= 1,
           s \in Workers /\ l \in {"handle", "close", "closing", "gobad", "commit"}
               => failed'[d] \/ unread'[d] >= 1,
           failed[d] => failed'[d],
           Queued(d)' => Queued(d) \/ Asks(s, d)
    PROVE  Messages(d)'
<1>1. /\ \A t \in Threads \ {s} :
            (Asks(t, d)' <=> Asks(t, d)) /\ (Handles(t, d)' <=> Handles(t, d))
      /\ Asks(s, d)' <=> l \in {"post", "check"}
      /\ Handles(s, d)' <=> s \in Workers /\ l \in {"handle", "close", "closing", "gobad", "commit"}
  BY ActsFrame
<1>2. good'[d] /\ Queued(d)' => unread'[d] >= 1
  BY DEF Messages
<1>3. good'[d] /\ (\E t \in Threads : Asks(t, d)') => unread'[d] >= 1
  BY <1>1 DEF Messages
<1>4. \A t \in Threads : Handles(t, d)' /\ ~failed'[d] => unread'[d] >= 1
  BY <1>1 DEF Messages
<1> QED BY <1>2, <1>3, <1>4 DEF Messages

LEMMA KeepsOn ==
    ASSUME NEW s \in Threads, NEW d \in Clients, NEW l, Acts(s, d, l),
           Keeps(d), Requests(d), Passes(s, d, l),
           good'[d] => good[d], promise'[d] = promise[d], closes'[d] = closes[d],
           token'[d] \in BOOLEAN, l = "release" => ~good'[d]
    PROVE  Keeps(d)'
<1>1. /\ \A t \in Threads \ {s} : Owns(t, d)' <=> Owns(t, d)
      /\ Owns(s, d)' <=> l \in RequestLabels(s)
  BY ActsFrame
<1>2. \A t \in Threads : on'[t] = d /\ at'[t] = "release" => ~good'[d]
  BY DEF Acts, Keeps
<1>3. closes[d] = 1 => token'[d] /\ ~Queued(d)' /\ \A t \in Threads : ~Owns(t, d)'
  BY <1>1 DEF Keeps, Passes
<1> QED BY <1>2, <1>3 DEF Keeps

LEMMA QueueAppend ==
    ASSUME MainTypes, NEW d \in Clients, queue' = Append(queue, d)
    PROVE  /\ queue' \in Seq(Clients)
           /\ \A c \in Clients : Queued(c)' <=> Queued(c) \/ c = d
           /\ QueuedOnce /\ ~Queued(d) => QueuedOnce'
<1>. queue \in Seq(Clients)
  BY DEF MainTypes
<1>1. /\ Len(queue) \in Nat /\ Len(queue') = Len(queue) + 1 /\ queue'[Len(queue) + 1] = d
      /\ \A i \in 1 .. Len(queue) : queue'[i] = queue[i] /\ queue[i] \in Clients
      /\ queue' \in Seq(Clients)
  OBVIOUS
<1>2. \A i \in 1 .. Len(queue') : i \in 1 .. Len(queue) \/ i = Len(queue) + 1
  BY <1>1
<1>3. \A c \in Clients : Queued(c)' <=> Queued(c) \/ c = d
  BY <1>1, <1>2 DEF Queued
<1>4. QueuedOnce /\ ~Queued(d) => QueuedOnce'
  BY <1>1, <1>2 DEF Queued, QueuedOnce
<1> QED BY <1>1, <1>3, <1>4

LEMMA QueueTail ==
    ASSUME MainTypes, QueuedOnce, queue # <<>>, queue' = Tail(queue)
    PROVE  /\ queue' \in Seq(Clients) /\ Head(queue) \in Clients /\ Queued(Head(queue))
           /\ \A c \in Clients : Queued(c)' <=> Queued(c) /\ c # Head(queue)
           /\ QueuedOnce'
<1>0. queue \in Seq(Clients) /\ queue # <<>>
  BY DEF MainTypes
<1>1. /\ Len(queue) \in Nat /\ Len(queue) >= 1 /\ Len(queue') = Len(queue) - 1
      /\ \A i \in 1 .. Len(queue') : queue'[i] = queue[i + 1]
      /\ \A i \in 1 .. Len(queue) : queue[i] \in Clients
      /\ Head(queue) = queue[1] /\ queue' \in Seq(Clients)
  BY <1>0
<1>2. \A i \in 1 .. Len(queue) : i = 1 \/ (i - 1 \in 1 .. Len(queue') /\ queue'[i - 1] = queue[i])
  BY <1>1
<1>3. ASSUME NEW c \in Clients PROVE Queued(c)' <=> Queued(c) /\ c # Head(queue)
  <2>1. Queued(c)' => Queued(c) /\ c # Head(queue)
    BY <1>1 DEF Queued, QueuedOnce
  <2>2. Queued(c) /\ c # Head(queue) => Queued(c)'
    BY <1>1, <1>2 DEF Queued
  <2> QED BY <2>1, <2>2
<1>4. QueuedOnce'
  BY <1>1 DEF QueuedOnce
<1>5. Head(queue) \in Clients /\ Queued(Head(queue))
  BY <1>1 DEF Queued
<1> QED BY <1>1, <1>3, <1>4, <1>5

LEMMA SameQueue ==
    ASSUME UNCHANGED queue
    PROVE  (QueuedOnce => QueuedOnce') /\ \A c \in Clients : Queued(c)' <=> Queued(c)
BY DEF Queued, QueuedOnce

LEMMA ByGoto ==
    ASSUME TypeOK, NEW s \in Threads, NEW l, NEW k, Goto(s, k), l = at'[s]
    PROVE  /\ on'[s] = on[s] /\ l = k
           /\ \A t \in Threads \ {s} : on'[t] = on[t] /\ at'[t] = at[t]
BY DEF Goto, TypeOK, ThreadTypes

LEMMA ByCall ==
    ASSUME TypeOK, NEW s \in Threads, NEW l, NEW d \in Clients, Call(s, l, d)
    PROVE  /\ on'[s] = d /\ at'[s] = l
           /\ \A t \in Threads \ {s} : on'[t] = on[t] /\ at'[t] = at[t]
BY DEF Call, TypeOK, ThreadTypes

\* What every step may assume, and what it establishes for its own client
Sound == TypeOK /\ QueuedOnce /\ \A c \in Clients : Session(c)
Works(s, d, l) == Acts(s, d, l) /\ QueuedOnce' /\ Session(d)'

LEMMA SoundOf ==
    ASSUME Sound, NEW d \in Clients
    PROVE  /\ Requests(d) /\ Closes(d) /\ Messages(d) /\ Keeps(d)
           /\ unread[d] \in Nat /\ token[d] \in BOOLEAN /\ good[d] \in BOOLEAN
           /\ promise[d] \in {"old", "oldSet", "new", "set", "lost", "broken"}
BY DEF Sound, Session, TypeOK, SessionTypes

LEMMA SessionsOf ==
    ASSUME Sound, NEW s \in Threads, NEW d \in Clients, NEW l, Works(s, d, l)
    PROVE  \A c \in Clients : Session(c)'
BY Elsewhere DEF Works, Sound

\* The labels at which a thread must have a message to its name
Justified(s, d, l) ==
    /\ good'[d] /\ l \in {"post", "check"} => unread'[d] >= 1
    /\ s \in Workers /\ l \in {"handle", "close", "closing", "gobad", "commit"}
          => failed'[d] \/ unread'[d] >= 1
    /\ l = "release" => ~good'[d]

LEMMA SessionKept ==
    ASSUME Sound, NEW s \in Threads, NEW d \in Clients, NEW l, Acts(s, d, l),
           Passes(s, d, l), Closes(d)', Justified(s, d, l),
           good'[d] => good[d], token'[d] \in BOOLEAN,
           unread'[d] \in Nat, unread'[d] >= unread[d],
           promise'[d] = promise[d], closes'[d] = closes[d],
           failed[d] => failed'[d],
           Queued(d)' => Queued(d) \/ Asks(s, d)
    PROVE  Session(d)'
<1>1. /\ Requests(d) /\ Closes(d) /\ Messages(d) /\ Keeps(d)
      /\ unread[d] \in Nat /\ token[d] \in BOOLEAN
  BY SoundOf
<1>2. Requests(d)'
  BY <1>1, RequestPasses
<1>3. Messages(d)'
  BY <1>1, MessagesKept DEF Justified
<1>4. Keeps(d)'
  BY <1>1, KeepsOn DEF Justified
<1> QED BY <1>2, <1>3, <1>4 DEF Session

(***************************************************************************)
(* A step that changes nothing but where its thread is.                    *)
(***************************************************************************)
LEMMA QuietStep ==
    ASSUME Sound, NEW s \in Threads, NEW d \in Clients, NEW l,
           (Goto(s, l) /\ d = on[s]) \/ (Call(s, l, d) /\ at[s] = "idle"),
           UNCHANGED <<queue, state, tracked, good, token, unread, failed, promise, closes>>,
           l \in RequestLabels(s) => Owns(s, d) /\ ~failed[d], l \notin {"closing", "gobad"},
           Justified(s, d, l)
    PROVE  Works(s, d, l)
<1>1. /\ on'[s] = d /\ at'[s] = l /\ (on[s] = d \/ at[s] = "idle")
      /\ \A t \in Threads \ {s} : on'[t] = on[t] /\ at'[t] = at[t]
  BY DEF Goto, Call, Sound, TypeOK, ThreadTypes
<1>2. QueuedOnce' /\ \A c \in Clients : Queued(c)' <=> Queued(c)
  BY SameQueue DEF Sound
<1>3. Acts(s, d, l)
  BY <1>1, <1>2 DEF Acts, Same
<1>4. /\ Requests(d) /\ Closes(d) /\ Messages(d) /\ Keeps(d)
      /\ unread[d] \in Nat /\ token[d] \in BOOLEAN
  BY SoundOf
<1>5. Passes(s, d, l)
  BY <1>2, <1>4 DEF Passes, Requests, FailLabels
<1>6. Closes(d)'
  BY <1>3, <1>4, ClosesSame
<1>7. /\ good'[d] => good[d]
      /\ token'[d] \in BOOLEAN
      /\ unread'[d] \in Nat /\ unread'[d] >= unread[d]
      /\ promise'[d] = promise[d] /\ closes'[d] = closes[d]
      /\ Queued(d)' => Queued(d)
  BY <1>2, <1>4
<1>8. Session(d)'
  BY <1>3, <1>5, <1>6, <1>7, SessionKept
<1> QED BY <1>2, <1>3, <1>8 DEF Works

-----------------------------------------------------------------------------
(* The IO thread *)

LEMMA ReceiveStep ==
    ASSUME Sound, NEW d \in Clients, Receive(d)
    PROVE  Works("io", d, "recv")
<1>1. "io" \in Threads /\ "recv" \notin RequestLabels("io") /\ Justified("io", d, "recv")
  BY ThreadNames DEF RequestLabels, Justified
<1> QED BY <1>1, QuietStep DEF Receive, poolVars, bufferVars

LEMMA PeerCloseStep ==
    ASSUME Sound, NEW d \in Clients, PeerClose(d)
    PROVE  Works("io", d, "close")
<1>1. "io" \in Threads /\ "close" \notin RequestLabels("io") /\ Justified("io", d, "close")
  BY ThreadNames DEF RequestLabels, Justified
<1> QED BY <1>1, QuietStep DEF PeerClose, poolVars, sessionVars, bufferVars

LEMMA IoExitsStep ==
    ASSUME Sound, NEW d \in Clients, d = on["io"], IoExits
    PROVE  Works("io", d, "exited")
<1>1. "io" \in Threads /\ "exited" \notin RequestLabels("io") /\ Justified("io", d, "exited")
  BY ThreadNames DEF RequestLabels, Justified
<1> QED BY <1>1, QuietStep DEF IoExits, poolVars, sessionVars, bufferVars

LEMMA CommitRecvStep ==
    ASSUME Sound, NEW d \in Clients, d = on["io"], NEW l, l = at'["io"], CommitRecv
    PROVE  Works("io", d, l)
<1>1. /\ "io" \in Threads /\ "io" \notin Workers
      /\ \A k : k \in RequestLabels("io") <=> k \in {"post", "confirm"}
  BY ThreadNames DEF RequestLabels
<1>2. /\ Requests(d) /\ Closes(d) /\ Messages(d) /\ Keeps(d)
      /\ unread[d] \in Nat /\ token[d] \in BOOLEAN
  BY SoundOf
<1>3. QueuedOnce' /\ \A c \in Clients : Queued(c)' <=> Queued(c)
  BY SameQueue DEF Sound, CommitRecv, poolVars
<1>4. /\ at["io"] = "recv" /\ on'["io"] = d
      /\ \A t \in Threads \ {"io"} : on'[t] = on[t] /\ at'[t] = at[t]
      /\ IF good[d] THEN l = (IF token[d] THEN "guard" ELSE "confirm") ELSE l = "guard"
  BY <1>1 DEF CommitRecv, Goto, Sound, TypeOK, ThreadTypes
<1>5. UNCHANGED <<state, tracked, good, failed, promise, closes>>
  BY DEF CommitRecv
<1>6. /\ \A c \in Clients \ {d} : token'[c] = token[c] /\ unread'[c] = unread[c]
      /\ IF good[d] THEN token'[d] ELSE token'[d] = token[d]
      /\ unread'[d] \in {unread[d], unread[d] + 1}
      /\ token'[d] \in BOOLEAN
  BY DEF CommitRecv, Sound, TypeOK, SessionTypes
<1>7. Acts("io", d, l)
  BY <1>3, <1>4, <1>5, <1>6 DEF Acts, Same
<1>8. Passes("io", d, l)
  BY <1>1, <1>2, <1>3, <1>4, <1>5, <1>6 DEF Passes, Requests, FailLabels
<1>9. Closes(d)'
  BY <1>1, <1>2, <1>4, <1>5, <1>7, ClosesSame
<1>10. Justified("io", d, l)
  BY <1>1, <1>2, <1>4, <1>5, <1>6 DEF Justified
<1>11. Session(d)'
  BY <1>1, <1>2, <1>3, <1>5, <1>6, <1>7, <1>8, <1>9, <1>10, SessionKept
<1> QED BY <1>3, <1>7, <1>11 DEF Works

-----------------------------------------------------------------------------
(* Any thread *)

LEMMA LetGoStep ==
    ASSUME Sound, NEW s \in Threads, NEW d \in Clients, d = on[s], LetGo(s)
    PROVE  Works(s, d, "idle")
<1>1. "idle" \notin RequestLabels(s) /\ Justified(s, d, "idle")
  BY DEF RequestLabels, Justified, CloseLabels, MessageLabels
<1> QED BY <1>1, QuietStep DEF LetGo, poolVars, sessionVars, bufferVars

\* Where close() returns to: a worker still has its request and its message.
LEMMA ReturnedTo ==
    ASSUME NEW s \in Threads
    PROVE  /\ Returned(s) \in {"idle", "guard", "commit"}
           /\ Returned(s) \in LabelsOf(s)
           /\ s \notin Workers => Returned(s) \in {"idle", "guard"}
           /\ s \in Workers => Returned(s) = (IF failed[on[s]] THEN "guard" ELSE "commit")
BY ThreadNames
   DEF Returned, MainLabels, IoLabels, WorkerLabels, CloseLabels, MessageLabels

LEMMA CloseBeginsStep ==
    ASSUME Sound, NEW s \in Threads, NEW d \in Clients, d = on[s], NEW l, l = at'[s],
           CloseBegins(s)
    PROVE  Works(s, d, l)
<1>1. /\ Requests(d) /\ Closes(d) /\ Messages(d) /\ Keeps(d)
      /\ unread[d] \in Nat /\ token[d] \in BOOLEAN
  BY SoundOf
<1>2. QueuedOnce' /\ \A c \in Clients : Queued(c)' <=> Queued(c)
  BY SameQueue DEF Sound, CloseBegins, poolVars
<1>3. /\ at[s] = "close" /\ on'[s] = d
      /\ \A t \in Threads \ {s} : on'[t] = on[t] /\ at'[t] = at[t]
      /\ l = (IF state[d] = "connected" THEN "closing" ELSE Returned(s))
  BY DEF CloseBegins, Goto, Sound, TypeOK, ThreadTypes
<1>4. /\ \A c \in Clients \ {d} : state'[c] = state[c]
      /\ state'[d] = (IF state[d] = "connected" THEN "closing" ELSE state[d])
  BY DEF CloseBegins, Sound, TypeOK, SessionTypes
<1>5. UNCHANGED <<tracked, good, token, unread, failed, promise, closes>>
  BY DEF CloseBegins, bufferVars
<1>6. Acts(s, d, l)
  BY <1>2, <1>3, <1>4, <1>5 DEF Acts, Same
<1>7. /\ l \in RequestLabels(s) => s \in Workers
      /\ s \in Workers => Owns(s, d) /\ Handles(s, d)
      /\ l \in {"closing", "idle", "guard", "commit"}
      /\ l = "commit" => s \in Workers /\ ~failed[d]
      /\ l \in {"idle", "guard"} => l \notin RequestLabels(s)
  BY <1>3, ReturnedTo DEF RequestLabels, Owns, Handles, CloseLabels, MessageLabels
<1>8. Passes(s, d, l)
  BY <1>1, <1>2, <1>3, <1>5, <1>7 DEF Passes, Requests, FailLabels
<1>9. Closes(d)'
  <2>1. CASE state[d] = "connected"
    <3>1. \A t \in Threads : ~Closing(t, d) 
      BY <2>1, <1>1 DEF Closes
    <3>2. \A t \in Threads : Closing(t, d)' <=> t = s
      BY <2>1, <3>1, <1>3, <1>6, ActsFrame
    <3> QED BY <2>1, <3>2, <1>1, <1>3, <1>4, <1>5 DEF Closes
  <2>2. CASE state[d] # "connected"
    BY <2>2, <1>1, <1>3, <1>4, <1>5, <1>6, <1>7, ReturnedTo, ClosesSame
  <2> QED BY <2>1, <2>2
<1>10. Justified(s, d, l)
  BY <1>1, <1>5, <1>7 DEF Justified, Messages
<1>11. Session(d)'
  BY <1>1, <1>2, <1>5, <1>6, <1>8, <1>9, <1>10, SessionKept
<1> QED BY <1>2, <1>6, <1>11 DEF Works

LEMMA CloseSocketStep ==
    ASSUME Sound, NEW s \in Threads, NEW d \in Clients, d = on[s], CloseSocket(s)
    PROVE  Works(s, d, "gobad")
<1>1. /\ Requests(d) /\ Closes(d) /\ Messages(d) /\ Keeps(d)
      /\ unread[d] \in Nat /\ token[d] \in BOOLEAN
  BY SoundOf
<1>2. QueuedOnce' /\ \A c \in Clients : Queued(c)' <=> Queued(c)
  BY SameQueue DEF Sound, CloseSocket, poolVars
<1>3. /\ at[s] = "closing" /\ on'[s] = d /\ at'[s] = "gobad"
      /\ \A t \in Threads \ {s} : on'[t] = on[t] /\ at'[t] = at[t]
  BY DEF CloseSocket, Goto, Sound, TypeOK, ThreadTypes
<1>4. /\ \A c \in Clients \ {d} : state'[c] = state[c] /\ tracked'[c] = tracked[c]
      /\ state'[d] = "none" /\ ~tracked'[d]
  BY DEF CloseSocket, Sound, TypeOK, SessionTypes
<1>5. UNCHANGED <<good, token, unread, failed, promise, closes>>
  BY DEF CloseSocket, bufferVars
<1>6. Acts(s, d, "gobad")
  BY <1>2, <1>3, <1>4, <1>5 DEF Acts, Same
<1>7. /\ "gobad" \in RequestLabels(s) => s \in Workers
      /\ s \in Workers => Owns(s, d) /\ Handles(s, d)
  BY <1>3 DEF RequestLabels, Owns, Handles, CloseLabels
<1>8. Passes(s, d, "gobad")
  BY <1>1, <1>2, <1>5, <1>7 DEF Passes, Requests, FailLabels
<1>9. Closes(d)'
  <2>1. Closing(s, d) /\ \A t \in Threads : Closing(t, d)' => t = s
    BY <1>1, <1>3, <1>6, ActsFrame DEF Closing, Closes
  <2> QED BY <2>1, <1>1, <1>3, <1>4, <1>5 DEF Closes
<1>10. Justified(s, d, "gobad")
  BY <1>1, <1>5, <1>7 DEF Justified, Messages
<1>11. Session(d)'
  BY <1>1, <1>2, <1>5, <1>6, <1>8, <1>9, <1>10, SessionKept
<1> QED BY <1>2, <1>6, <1>11 DEF Works

LEMMA ProcessCloseStep ==
    ASSUME Sound, NEW s \in Threads, NEW d \in Clients, d = on[s], NEW l, l = at'[s],
           ProcessClose(s)
    PROVE  Works(s, d, l)
<1>1. /\ Requests(d) /\ Closes(d) /\ Messages(d) /\ Keeps(d)
      /\ unread[d] \in Nat /\ token[d] \in BOOLEAN
  BY SoundOf
<1>2. QueuedOnce' /\ \A c \in Clients : Queued(c)' <=> Queued(c)
  BY SameQueue DEF Sound, ProcessClose, poolVars
<1>3. /\ at[s] = "gobad" /\ on'[s] = d
      /\ \A t \in Threads \ {s} : on'[t] = on[t] /\ at'[t] = at[t]
      /\ l = (IF token[d] THEN Returned(s) ELSE "post")
  BY DEF ProcessClose, Goto, Sound, TypeOK, ThreadTypes
<1>4. /\ \A c \in Clients \ {d} : good'[c] = good[c] /\ token'[c] = token[c]
      /\ ~good'[d] /\ token'[d] /\ token'[d] \in BOOLEAN
  BY DEF ProcessClose, Sound, TypeOK, SessionTypes
<1>5. UNCHANGED <<state, tracked, unread, failed, promise, closes>>
  BY DEF ProcessClose
<1>6. Acts(s, d, l)
  BY <1>2, <1>3, <1>4, <1>5 DEF Acts, Same
<1>7. /\ l \in RequestLabels(s) => s \in Workers \/ ~token[d]
      /\ s \in Workers => Owns(s, d) /\ Handles(s, d)
      /\ l \in {"post", "idle", "guard", "commit"}
      /\ l = "commit" => ~failed[d]
      /\ l = "post" => ~token[d] /\ ~failed[d]
      /\ l \in {"idle", "guard"} => l \notin RequestLabels(s)
  BY <1>1, <1>3, ReturnedTo DEF RequestLabels, Owns, Handles, CloseLabels, MessageLabels, Requests
<1>8. Passes(s, d, l)
  BY <1>1, <1>2, <1>4, <1>5, <1>7 DEF Passes, Requests, FailLabels
<1>9. Closes(d)'
  <2>1. Closing(s, d) /\ ~Closing(s, d)' /\ \A t \in Threads : ~Closing(t, d)'
    BY <1>1, <1>3, <1>6, <1>7, ActsFrame DEF Closing, Closes
  <2> QED BY <2>1, <1>1, <1>3, <1>4, <1>5 DEF Closes
<1>10. Justified(s, d, l)
  BY <1>1, <1>4, <1>5, <1>7 DEF Justified, Messages
<1>11. /\ unread'[d] \in Nat /\ unread'[d] >= unread[d]
       /\ promise'[d] = promise[d] /\ closes'[d] = closes[d]
       /\ failed'[d] = failed[d]
       /\ Queued(d)' => Queued(d)
  BY <1>1, <1>2, <1>5
<1>12. Session(d)'
  BY <1>4, <1>6, <1>8, <1>9, <1>10, <1>11, SessionKept
<1> QED BY <1>2, <1>6, <1>12 DEF Works

LEMMA PostStep ==
    ASSUME Sound, NEW s \in Threads, NEW d \in Clients, d = on[s], NEW l, l = at'[s],
           Post(s)
    PROVE  Works(s, d, l)
<1>1. /\ Requests(d) /\ Closes(d) /\ Messages(d) /\ Keeps(d)
      /\ unread[d] \in Nat /\ token[d] \in BOOLEAN
  BY SoundOf
<1>2. /\ at[s] = "post" /\ on'[s] = d
      /\ \A t \in Threads \ {s} : on'[t] = on[t] /\ at'[t] = at[t]
      /\ l = (IF s \in Workers THEN "idle" ELSE Returned(s))
  BY DEF Post, Goto, Sound, TypeOK, ThreadTypes
<1>3. Owns(s, d) /\ Asks(s, d)
  BY <1>2 DEF Owns, Asks, RequestLabels, CloseLabels
<1>4. QueuedOnce' /\ \A c \in Clients : Queued(c)' => Queued(c) \/ c = d
  <2>1. CASE queue' = Append(queue, d)
    BY <2>1, <1>1, <1>3, QueueAppend DEF Sound, TypeOK, Requests
  <2>2. CASE queue' = queue
    BY <2>2, SameQueue DEF Sound
  <2> QED BY <2>1, <2>2 DEF Post
<1>5. \A c \in Clients \ {d} : Queued(c)' <=> Queued(c)
  <2>1. CASE queue' = Append(queue, d)
    BY <2>1, QueueAppend DEF Sound, TypeOK
  <2>2. CASE queue' = queue
    BY <2>2, SameQueue
  <2> QED BY <2>1, <2>2 DEF Post
<1>6. UNCHANGED <<state, tracked, good, token, unread, failed, promise, closes>>
  BY DEF Post, sessionVars, bufferVars
<1>7. Acts(s, d, l)
  BY <1>2, <1>5, <1>6 DEF Acts, Same
<1>8. l \in {"idle", "guard"} /\ l \notin RequestLabels(s)
  BY <1>2, ReturnedTo DEF RequestLabels, CloseLabels, MessageLabels
<1>9. Passes(s, d, l)
  BY <1>1, <1>2, <1>3, <1>6, <1>8 DEF Passes, Requests, FailLabels
<1>10. Closes(d)'
  BY <1>1, <1>6, <1>7, <1>8, ClosesSame
<1>11. Justified(s, d, l)
  BY <1>8 DEF Justified
<1>12. Session(d)'
  BY <1>1, <1>3, <1>6, <1>7, <1>9, <1>10, <1>11, SessionKept
<1> QED BY <1>4, <1>7, <1>12 DEF Works

-----------------------------------------------------------------------------
(* A worker *)

LEMMA TakeStep ==
    ASSUME Sound, NEW w \in Workers, NEW d \in Clients, d = Head(queue), Take(w)
    PROVE  Works(w, d, "check") /\ Queued(d)
<1>1. /\ Queued(d) /\ QueuedOnce'
      /\ \A c \in Clients : Queued(c)' <=> Queued(c) /\ c # d
  BY QueueTail DEF Take, Sound, TypeOK
<1>2. w \in Threads /\ "check" \in RequestLabels(w)
  BY ThreadNames DEF RequestLabels, MessageLabels
<1>3. /\ Requests(d) /\ Closes(d) /\ Messages(d) /\ Keeps(d)
      /\ unread[d] \in Nat /\ token[d] \in BOOLEAN
  BY SoundOf
<1>4. /\ at[w] = "idle" /\ on'[w] = d /\ at'[w] = "check"
      /\ \A t \in Threads \ {w} : on'[t] = on[t] /\ at'[t] = at[t]
  BY <1>2, ByCall DEF Take, Sound
<1>5. UNCHANGED <<state, tracked, good, token, unread, failed, promise, closes>>
  BY DEF Take, sessionVars, bufferVars
<1>6. Acts(w, d, "check")
  BY <1>1, <1>4, <1>5 DEF Acts, Same
<1>7. Passes(w, d, "check")
  BY <1>1, <1>3, <1>5 DEF Passes, Requests, FailLabels
<1>8. Closes(d)'
  BY <1>2, <1>3, <1>5, <1>6, ClosesSame
<1>9. Justified(w, d, "check")
  BY <1>1, <1>3, <1>5 DEF Justified, Messages
<1>10. Session(d)'
  BY <1>1, <1>2, <1>3, <1>5, <1>6, <1>7, <1>8, <1>9, SessionKept
<1> QED BY <1>1, <1>6, <1>10 DEF Works

LEMMA IsGoodStep ==
    ASSUME Sound, NEW w \in Workers, NEW d \in Clients, d = on[w], NEW l, l = at'[w],
           IsGood(w)
    PROVE  Works(w, d, l)
<1>1. w \in Threads /\ Owns(w, d) /\ Asks(w, d)
  BY ThreadNames DEF IsGood, Owns, Asks, RequestLabels, MessageLabels
<1>2. Goto(w, l) /\ l = (IF good[d] THEN "handle" ELSE "release")
  BY <1>1 DEF IsGood, Goto, Sound, TypeOK, ThreadTypes
<1>3. UNCHANGED <<queue, state, tracked, good, token, unread, failed, promise, closes>>
  BY DEF IsGood, poolVars, sessionVars, bufferVars
<1>4. Messages(d)
  BY SoundOf
<1>5. Justified(w, d, l)
  BY <1>1, <1>2, <1>3, <1>4 DEF Justified, Messages
<1>6. ~failed[d]
  <2>1. Requests(d) /\ at[w] = "check"
    BY SoundOf DEF IsGood
  <2> QED BY <1>1, <2>1 DEF Requests, FailLabels
<1> QED BY <1>1, <1>2, <1>3, <1>5, <1>6, QuietStep

LEMMA HandleStep ==
    ASSUME Sound, NEW w \in Workers, NEW d \in Clients, d = on[w], NEW l, l = at'[w],
           Handle(w)
    PROVE  Works(w, d, l)
<1>1. w \in Threads /\ Owns(w, d) /\ Handles(w, d)
  BY ThreadNames DEF Handle, Owns, Handles, RequestLabels, MessageLabels
<1>2. Goto(w, l) /\ l \in {"commit", "close"}
  BY <1>1 DEF Handle, Goto, Sound, TypeOK, ThreadTypes
<1>3. UNCHANGED <<queue, state, tracked, good, token, unread, failed, promise, closes>>
  BY DEF Handle, poolVars, sessionVars, bufferVars
<1>4. Messages(d)
  BY SoundOf
<1>5. Justified(w, d, l)
  BY <1>1, <1>2, <1>3, <1>4 DEF Justified, Messages
<1>6. ~failed[d]
  <2>1. Requests(d) /\ at[w] = "handle"
    BY SoundOf DEF Handle
  <2> QED BY <1>1, <2>1 DEF Requests, FailLabels
<1> QED BY <1>1, <1>2, <1>3, <1>5, <1>6, QuietStep

LEMMA AsksOwns ==
    ASSUME TypeOK, NEW t \in Threads, NEW c, Asks(t, c)
    PROVE  Owns(t, c)
<1>1. t \in Workers \/ at[t] # "check"
  BY ThreadNames DEF TypeOK, ThreadTypes, MainLabels, IoLabels, CloseLabels
<1> QED BY <1>1 DEF Asks, Owns, RequestLabels, CloseLabels, MessageLabels

LEMMA CommitStep ==
    ASSUME Sound, NEW w \in Workers, NEW d \in Clients, d = on[w], Commit(w)
    PROVE  Works(w, d, "confirm") /\ unread[d] >= 1
<1>1. /\ Requests(d) /\ Closes(d) /\ Messages(d) /\ Keeps(d)
      /\ unread[d] \in Nat /\ token[d] \in BOOLEAN
  BY SoundOf
<1>2. QueuedOnce' /\ \A c \in Clients : Queued(c)' <=> Queued(c)
  BY SameQueue DEF Sound, Commit, poolVars
<1>3. /\ w \in Threads /\ Owns(w, d) /\ Handles(w, d)
      /\ \A t \in Threads : Handles(t, d) \/ Asks(t, d) => Owns(t, d)
      /\ "confirm" \in RequestLabels(w) /\ at[w] = "commit"
  BY ThreadNames, AsksOwns DEF Commit, Sound, Owns, Handles, RequestLabels, MessageLabels, CloseLabels
<1>3a. ~failed[d]
  BY <1>1, <1>3 DEF Requests, FailLabels
<1>4. /\ on'[w] = d /\ at'[w] = "confirm"
      /\ \A t \in Threads \ {w} : on'[t] = on[t] /\ at'[t] = at[t]
  BY <1>3 DEF Commit, Goto, Sound, TypeOK, ThreadTypes
<1>5. /\ \A c \in Clients \ {d} : unread'[c] = unread[c]
      /\ UNCHANGED <<state, tracked, good, token, failed, promise, closes>>
  BY DEF Commit, Sound, TypeOK, SessionTypes
<1>6. Acts(w, d, "confirm")
  BY <1>2, <1>4, <1>5 DEF Acts, Same
<1>7. Passes(w, d, "confirm")
  BY <1>1, <1>2, <1>3, <1>3a, <1>5 DEF Passes, Requests
<1>8. Requests(d)'
  BY <1>1, <1>3, <1>6, <1>7, RequestPasses
<1>9. Closes(d)'
  BY <1>1, <1>3, <1>5, <1>6, ClosesSame
<1>10. Messages(d)'
  <2>1. \A t \in Threads \ {w} : ~Handles(t, d) /\ ~Asks(t, d)
    BY <1>1, <1>3 DEF Requests
  <2>2. \A t \in Threads \ {w} : ~Handles(t, d)' /\ ~Asks(t, d)'
    BY <2>1, <1>3, <1>6, ActsFrame
  <2>3. ~Handles(w, d)' /\ ~Asks(w, d)'
    BY <1>3, <1>6, ActsFrame
  <2>4. ~Queued(d)'
    BY <1>1, <1>2, <1>3 DEF Requests
  <2> QED BY <2>2, <2>3, <2>4 DEF Messages
<1>11. Keeps(d)'
  BY <1>1, <1>3, <1>5, <1>6, <1>7, KeepsOn
<1>12. unread[d] >= 1
  BY <1>1, <1>3, <1>3a DEF Messages
<1> QED BY <1>2, <1>6, <1>8, <1>9, <1>10, <1>11, <1>12 DEF Works, Session

LEMMA ConfirmStep ==
    ASSUME Sound, NEW s \in Workers \cup {"io"}, NEW d \in Clients, d = on[s], NEW l, l = at'[s],
           Confirm(s)
    PROVE  Works(s, d, l)
<1>1. /\ Requests(d) /\ Closes(d) /\ Messages(d) /\ Keeps(d)
      /\ unread[d] \in Nat /\ token[d] \in BOOLEAN
  BY SoundOf
<1>2. QueuedOnce' /\ \A c \in Clients : Queued(c)' <=> Queued(c)
  BY SameQueue DEF Sound, Confirm, poolVars
<1>3. s \in Threads /\ Owns(s, d) /\ at[s] = "confirm" /\ (s = "io" => s \notin Workers)
  BY ThreadNames DEF Confirm, Owns, RequestLabels, MessageLabels
<1>4. ~Queued(d) /\ ~failed[d]
  BY <1>1, <1>3 DEF Requests, FailLabels
<1> DEFINE none == good[d] /\ unread[d] = 0
<1>5. /\ on'[s] = d
      /\ \A t \in Threads \ {s} : on'[t] = on[t] /\ at'[t] = at[t]
      /\ l = (IF none THEN IF endless[d] THEN "close" ELSE "guard"
              ELSE IF good[d] \/ s = "io" THEN "post" ELSE "release")
  BY <1>3 DEF Confirm, Goto, Sound, TypeOK, ThreadTypes
<1>6. /\ \A c \in Clients \ {d} : token'[c] = token[c] /\ failed'[c] = failed[c]
      /\ token'[d] <=> (none => endless[d])
      /\ failed'[d] <=> (none /\ endless[d])
      /\ token'[d] \in BOOLEAN
  <2>1. token \in [Clients -> BOOLEAN] /\ failed \in [Clients -> BOOLEAN]
    BY DEF Sound, TypeOK, SessionTypes
  <2>2. /\ token' = [token EXCEPT ![d] = none => endless[d]]
        /\ failed' = [failed EXCEPT ![d] = failed[d] \/ (none /\ endless[d])]
    BY DEF Confirm
  <2> HIDE DEF none
  <2> QED BY <2>1, <2>2, <1>4
<1>7. UNCHANGED <<state, tracked, good, unread, promise, closes>>
  BY DEF Confirm
<1>8. Acts(s, d, l)
  BY <1>2, <1>5, <1>6, <1>7 DEF Acts, Same
<1>9. l \in RequestLabels(s) => token'[d]
  BY <1>5, <1>6 DEF RequestLabels, CloseLabels, MessageLabels
<1>10. failed'[d] => token'[d] /\ l = "close"
  BY <1>5, <1>6
<1>11. Passes(s, d, l)
  BY <1>2, <1>3, <1>4, <1>9, <1>10 DEF Passes, FailLabels
<1>12. l \in {"close", "guard", "post", "release"}
  BY <1>5
<1>13. Closes(d)'
  BY <1>1, <1>3, <1>7, <1>8, <1>12, ClosesSame
<1>14. Justified(s, d, l)
  <2>1. good'[d] /\ l \in {"post", "check"} => unread'[d] >= 1
    BY <1>1, <1>5, <1>7
  <2>2. l = "release" => ~good'[d]
    BY <1>5, <1>7
  <2>3. l \in {"handle", "close", "closing", "gobad", "commit"} => failed'[d]
    BY <1>5, <1>6
  <2> QED BY <2>1, <2>2, <2>3 DEF Justified
<1>15. /\ unread'[d] \in Nat /\ unread'[d] >= unread[d] /\ good'[d] = good[d]
       /\ promise'[d] = promise[d] /\ closes'[d] = closes[d]
  BY <1>1, <1>7
<1>16. Session(d)'
  BY <1>2, <1>3, <1>4, <1>6, <1>8, <1>11, <1>13, <1>14, <1>15, SessionKept
<1> QED BY <1>2, <1>8, <1>16 DEF Works

LEMMA DoCloseStep ==
    ASSUME Sound, NEW w \in Workers, NEW d \in Clients, d = on[w], DoClose(w)
    PROVE  Works(w, d, "guard") /\ promise[d] \in {"old", "new"} /\ closes[d] = 0
<1>1. /\ Requests(d) /\ Closes(d) /\ Messages(d) /\ Keeps(d)
      /\ unread[d] \in Nat /\ token[d] \in BOOLEAN
      /\ promise[d] \in {"old", "oldSet", "new", "set", "lost", "broken"}
  BY SoundOf
<1>2. QueuedOnce' /\ \A c \in Clients : Queued(c)' <=> Queued(c)
  BY SameQueue DEF Sound, DoClose, poolVars
<1>3. w \in Threads /\ Owns(w, d) /\ on[w] = d /\ at[w] = "release"
  BY ThreadNames DEF DoClose, Owns, RequestLabels, MessageLabels
<1>4. /\ on'[w] = d /\ at'[w] = "guard"
      /\ \A t \in Threads \ {w} : on'[t] = on[t] /\ at'[t] = at[t]
  BY <1>3 DEF DoClose, Goto, Sound, TypeOK, ThreadTypes
<1>5. closes[d] = 0 /\ promise[d] \in {"old", "new"} /\ ~good[d] /\ token[d] /\ ~Queued(d)
  BY <1>1, <1>3 DEF Keeps, Requests
<1>6. /\ \A c \in Clients \ {d} : closes'[c] = closes[c] /\ promise'[c] = promise[c]
      /\ closes'[d] = 1 /\ promise'[d] \in {"oldSet", "set"}
  <2>1. closes \in [Clients -> Nat]
        /\ promise \in [Clients -> {"old", "oldSet", "new", "set", "lost", "broken"}]
    BY DEF Sound, TypeOK, SessionTypes
  <2>2. closes' = [closes EXCEPT ![d] = closes[d] + 1]
    BY DEF DoClose
  <2>3. \E v : v = promise'[d] /\ promise' = [promise EXCEPT ![d] = v]
    BY <2>1 DEF DoClose
  <2>4. promise'[d] = (IF promise[d] = "old" THEN "oldSet" ELSE "set")
    BY <1>5, <2>1 DEF DoClose
  <2> QED BY <1>5, <2>1, <2>2, <2>3, <2>4
<1>7. UNCHANGED <<state, tracked, good, token, unread, failed>>
  BY DEF DoClose, bufferVars
<1>8. Acts(w, d, "guard")
  BY <1>2, <1>3, <1>4, <1>6, <1>7 DEF Acts, Same
<1>9. "guard" \notin RequestLabels(w) \cup {"closing", "gobad", "post", "check"}
  BY DEF RequestLabels, MessageLabels, CloseLabels
<1>10. Passes(w, d, "guard")
  BY <1>2, <1>5, <1>7, <1>9 DEF Passes
<1>11. Requests(d)'
  BY <1>1, <1>3, <1>8, <1>10, RequestPasses
<1>12. Closes(d)'
  BY <1>1, <1>3, <1>7, <1>8, ClosesSame
<1>13. Messages(d)'
  <2>1. unread'[d] \in Nat /\ unread'[d] >= unread[d] /\ good'[d] = good[d]
    BY <1>1, <1>7
  <2>2. failed[d] => failed'[d]
    BY <1>7
  <2> QED BY <2>1, <2>2, <1>1, <1>2, <1>3, <1>8, MessagesKept
<1>14. Keeps(d)'
  <2>1. \A t \in Threads : ~Owns(t, d)'
    BY <1>1, <1>3, <1>8, <1>9, ActsFrame DEF Requests
  <2>2. \A t \in Threads : on'[t] = d /\ at'[t] = "release" => ~good'[d]
    BY <1>5, <1>7
  <2> QED BY <2>1, <2>2, <1>2, <1>5, <1>6, <1>7 DEF Keeps
<1> QED BY <1>2, <1>5, <1>8, <1>11, <1>12, <1>13, <1>14 DEF Works, Session

-----------------------------------------------------------------------------
(* main() *)

LEMMA MainLabel ==
    /\ "main" \in Threads /\ "main" \notin Workers
    /\ \A l : l \in RequestLabels("main") <=> l \in {"post", "confirm"}
BY ThreadNames DEF RequestLabels

LEMMA ConnectStep ==
    ASSUME Sound, NEW d \in Clients, Connect(d), Fresh(d)
    PROVE  Works("main", d, "track")
<1>1. /\ Requests(d) /\ Closes(d) /\ Messages(d) /\ Keeps(d)
      /\ unread[d] \in Nat /\ token[d] \in BOOLEAN
  BY SoundOf
<1>2. QueuedOnce' /\ \A c \in Clients : Queued(c)' <=> Queued(c)
  BY SameQueue DEF Sound, Connect, poolVars
<1>3. /\ at["main"] = "idle" /\ on'["main"] = d /\ at'["main"] = "track"
      /\ \A t \in Threads \ {"main"} : on'[t] = on[t] /\ at'[t] = at[t]
  BY MainLabel, ByCall DEF Connect, Visits, Sound
<1>4. /\ \A c \in Clients \ {d} : state'[c] = state[c]
      /\ state'[d] = "connected"
  BY DEF Connect, Sound, TypeOK, SessionTypes
<1>5. UNCHANGED <<tracked, good, token, unread, failed, promise, closes>>
  BY DEF Connect, bufferVars
<1>6. Acts("main", d, "track")
  BY <1>2, <1>3, <1>4, <1>5 DEF Acts, Same
<1>7. Passes("main", d, "track")
  BY <1>1, <1>2, <1>5, MainLabel DEF Passes, Requests, FailLabels
<1>8. Closes(d)'
  <2>1. \A t \in Threads : ~Closing(t, d)'
    BY <1>3 DEF Fresh, Closing
  <2> QED BY <2>1, <1>4, <1>5 DEF Closes, Fresh
<1>9. Justified("main", d, "track")
  BY MainLabel DEF Justified
<1>10. /\ unread'[d] \in Nat /\ unread'[d] >= unread[d] /\ good'[d] = good[d]
       /\ promise'[d] = promise[d] /\ closes'[d] = closes[d] /\ token'[d] = token[d]
       /\ failed'[d] = failed[d]
  BY <1>1, <1>5
<1>11. Session(d)'
  BY <1>1, <1>2, <1>6, <1>7, <1>8, <1>9, <1>10, MainLabel, SessionKept
<1> QED BY <1>2, <1>6, <1>11 DEF Works

LEMMA TrackStep ==
    ASSUME Sound, NEW d \in Clients, d = on["main"], TrackSession,
           Fresh(d), state[d] = "connected"
    PROVE  Works("main", d, "promise")
<1>1. /\ Requests(d) /\ Closes(d) /\ Messages(d) /\ Keeps(d)
      /\ unread[d] \in Nat /\ token[d] \in BOOLEAN
  BY SoundOf
<1>2. QueuedOnce' /\ \A c \in Clients : Queued(c)' <=> Queued(c)
  BY SameQueue DEF Sound, TrackSession, poolVars
<1>3. /\ on'["main"] = d /\ at'["main"] = "promise"
      /\ \A t \in Threads \ {"main"} : on'[t] = on[t] /\ at'[t] = at[t]
  BY MainLabel DEF TrackSession, Goto, Sound, TypeOK, ThreadTypes
<1>4. \A c \in Clients \ {d} : tracked'[c] = tracked[c]
  BY DEF TrackSession, Sound, TypeOK, SessionTypes
<1>5. UNCHANGED <<state, good, token, unread, failed, promise, closes>>
  BY DEF TrackSession, bufferVars
<1>6. Acts("main", d, "promise")
  BY <1>2, <1>3, <1>4, <1>5 DEF Acts, Same
<1>7. Passes("main", d, "promise")
  BY <1>1, <1>2, <1>5, MainLabel DEF Passes, Requests, FailLabels
<1>8. Closes(d)'
  <2>1. \A t \in Threads : ~Closing(t, d)'
    BY <1>3 DEF Fresh, Closing
  <2> QED BY <2>1, <1>5 DEF Closes, Fresh
<1>9. Justified("main", d, "promise")
  BY MainLabel DEF Justified
<1>10. /\ unread'[d] \in Nat /\ unread'[d] >= unread[d] /\ good'[d] = good[d]
       /\ promise'[d] = promise[d] /\ closes'[d] = closes[d] /\ token'[d] = token[d]
       /\ failed'[d] = failed[d]
  BY <1>1, <1>5
<1>11. Session(d)'
  BY <1>1, <1>2, <1>6, <1>7, <1>8, <1>9, <1>10, MainLabel, SessionKept
<1> QED BY <1>2, <1>6, <1>11 DEF Works

LEMMA PromiseStep ==
    ASSUME Sound, NEW d \in Clients, d = on["main"], NewPromise,
           promise[d] \in {"old", "oldSet"}
    PROVE  Works("main", d, "idle")
<1>1. /\ Requests(d) /\ Closes(d) /\ Messages(d) /\ Keeps(d)
      /\ unread[d] \in Nat /\ token[d] \in BOOLEAN
  BY SoundOf
<1>2. QueuedOnce' /\ \A c \in Clients : Queued(c)' <=> Queued(c)
  BY SameQueue DEF Sound, NewPromise, poolVars
<1>3. /\ at["main"] = "promise" /\ on'["main"] = d /\ at'["main"] = "idle"
      /\ \A t \in Threads \ {"main"} : on'[t] = on[t] /\ at'[t] = at[t]
  BY MainLabel DEF NewPromise, Goto, Sound, TypeOK, ThreadTypes
<1>4. /\ \A c \in Clients \ {d} : promise'[c] = promise[c]
      /\ promise'[d] = (IF promise[d] = "old" THEN "new" ELSE "lost")
  BY DEF NewPromise, Sound, TypeOK, SessionTypes
<1>5. UNCHANGED <<state, tracked, good, token, unread, failed, closes>>
  BY DEF NewPromise, bufferVars
<1>6. Acts("main", d, "idle")
  BY <1>2, <1>3, <1>4, <1>5 DEF Acts, Same
<1>7. Passes("main", d, "idle") /\ "idle" \notin RequestLabels("main")
  <2>1. "idle" \notin RequestLabels("main")
    BY MainLabel
  <2> QED BY <2>1, <1>1, <1>2, <1>5 DEF Passes, Requests, FailLabels
<1>8. Requests(d)'
  BY <1>1, <1>6, <1>7, MainLabel, RequestPasses
<1>9. Closes(d)'
  BY <1>1, <1>5, <1>6, MainLabel, ClosesSame
<1>10. Messages(d)'
  <2>1. unread'[d] \in Nat /\ unread'[d] >= unread[d] /\ good'[d] = good[d]
    BY <1>1, <1>5
  <2>2. failed[d] => failed'[d]
    BY <1>5
  <2> QED BY <2>1, <2>2, <1>1, <1>2, <1>6, MainLabel, MessagesKept
<1>11. Keeps(d)'
  <2>1. \A t \in Threads : Owns(t, d)' => Owns(t, d)
    BY <1>6, <1>7, MainLabel, ActsFrame
  <2>2. \A t \in Threads : on'[t] = d /\ at'[t] = "release" => ~good'[d]
    BY <1>1, <1>3, <1>5 DEF Keeps
  <2> QED BY <2>1, <2>2, <1>1, <1>2, <1>4, <1>5 DEF Keeps
<1> QED BY <1>2, <1>6, <1>8, <1>9, <1>10, <1>11 DEF Works, Session

-----------------------------------------------------------------------------
(* The types *)

LEMMA GotoTypes ==
    ASSUME TypeOK, NEW s \in Threads, NEW l \in LabelsOf(s),
           Goto(s, l) \/ \E d \in Clients : Call(s, l, d)
    PROVE  ThreadTypes'
<1>1. at' = [at EXCEPT ![s] = l]
  BY DEF Goto, Call
<1>2. on' \in [Threads -> Clients]
  BY DEF Goto, Call, TypeOK, ThreadTypes
<1>3. l \in MainLabels \cup IoLabels \cup WorkerLabels
  BY ThreadNames
<1>4. at' \in [Threads -> MainLabels \cup IoLabels \cup WorkerLabels]
  BY <1>1, <1>3 DEF TypeOK, ThreadTypes
<1>5. \A t \in Threads : at'[t] \in LabelsOf(t)
  BY <1>1 DEF TypeOK, ThreadTypes
<1> QED BY <1>2, <1>4, <1>5 DEF ThreadTypes

\* The labels a thread goes to are its own.
LEMMA Labels ==
    /\ \A t \in Threads : {"idle", "closing", "gobad", "post", "close"} \subseteq LabelsOf(t)
    /\ \A t \in Workers : {"check", "handle", "commit", "confirm", "release", "guard"} \subseteq LabelsOf(t)
    /\ {"recv", "confirm", "guard", "exited"} \subseteq LabelsOf("io")
    /\ {"track", "promise"} \subseteq LabelsOf("main")
<1>1. \A t \in Threads : LabelsOf(t) \in {MainLabels, IoLabels, WorkerLabels}
  BY ThreadNames
<1>2. \A t \in Threads : {"idle", "closing", "gobad", "post", "close"} \subseteq LabelsOf(t)
  BY <1>1 DEF MainLabels, IoLabels, WorkerLabels, CloseLabels
<1> QED
  BY <1>2, ThreadNames DEF MainLabels, IoLabels, WorkerLabels, CloseLabels, MessageLabels

LEMMA SharedTypes ==
    ASSUME Sound, NEW s \in Threads, SharedStep(s)
    PROVE  TypeOK'
<1>1. PICK d \in Clients : d = on[s]
  BY DEF Sound, TypeOK, ThreadTypes
<1>2. ASSUME UNCHANGED <<stage, todo, list, arrived, service, pool>>
      PROVE  queue' \in Seq(Clients) => MainTypes'
  BY <1>2 DEF MainTypes, Sound, TypeOK
<1>3. Returned(s) \in LabelsOf(s)
  BY ReturnedTo
<1>4. CASE CloseBegins(s)
  <2>1. ThreadTypes'
    BY <1>1, <1>3, <1>4, Labels, GotoTypes DEF CloseBegins, Sound
  <2>2. MainTypes' /\ SessionTypes'
    BY <1>1, <1>2, <1>4
       DEF CloseBegins, Sound, TypeOK, SessionTypes, mainVars, poolVars, bufferVars, MainTypes
  <2> QED BY <2>1, <2>2 DEF TypeOK
<1>5. CASE CloseSocket(s)
  <2>1. ThreadTypes'
    BY <1>5, Labels, GotoTypes DEF CloseSocket, Sound
  <2>2. MainTypes' /\ SessionTypes'
    BY <1>1, <1>2, <1>5
       DEF CloseSocket, Sound, TypeOK, SessionTypes, mainVars, poolVars, bufferVars, MainTypes
  <2> QED BY <2>1, <2>2 DEF TypeOK
<1>6. CASE ProcessClose(s)
  <2>1. ThreadTypes'
    BY <1>1, <1>3, <1>6, Labels, GotoTypes DEF ProcessClose, Sound
  <2>2. MainTypes' /\ SessionTypes'
    BY <1>1, <1>2, <1>6
       DEF ProcessClose, Sound, TypeOK, SessionTypes, mainVars, poolVars, bufferVars, MainTypes
  <2> QED BY <2>1, <2>2 DEF TypeOK
<1>7. CASE Post(s)
  <2>1. ThreadTypes'
    BY <1>3, <1>7, Labels, GotoTypes DEF Post, Sound
  <2>2. queue' \in Seq(Clients)
    BY <1>1, <1>7, QueueAppend DEF Post, Sound, TypeOK, MainTypes
  <2>3. MainTypes' /\ SessionTypes'
    BY <1>2, <1>7, <2>2
       DEF Post, Sound, TypeOK, SessionTypes, mainVars, sessionVars, bufferVars
  <2> QED BY <2>1, <2>3 DEF TypeOK
<1>8. CASE LetGo(s)
  <2>1. ThreadTypes'
    BY <1>8, Labels, GotoTypes DEF LetGo, Sound
  <2>2. MainTypes' /\ SessionTypes'
    BY <1>2, <1>8
       DEF LetGo, Sound, TypeOK, SessionTypes, mainVars, poolVars, sessionVars, bufferVars, MainTypes
  <2> QED BY <2>1, <2>2 DEF TypeOK
<1> QED BY <1>4, <1>5, <1>6, <1>7, <1>8 DEF SharedStep

LEMMA ConfirmTypes ==
    ASSUME Sound, NEW s, NEW d \in Clients, d = on[s], Confirm(s)
    PROVE  token' \in [Clients -> BOOLEAN] /\ failed' \in [Clients -> BOOLEAN]
<1>1. token \in [Clients -> BOOLEAN] /\ failed \in [Clients -> BOOLEAN]
  BY DEF Sound, TypeOK, SessionTypes
<1>2. \E v, u \in BOOLEAN : token' = [token EXCEPT ![d] = v] /\ failed' = [failed EXCEPT ![d] = u]
  <2>1. /\ token' = [token EXCEPT ![d] = (good[d] /\ unread[d] = 0) => endless[d]]
        /\ failed' = [failed EXCEPT ![d] = failed[d] \/ (good[d] /\ unread[d] = 0 /\ endless[d])]
    BY DEF Confirm
  <2>2. /\ ((good[d] /\ unread[d] = 0) => endless[d]) \in BOOLEAN
        /\ (failed[d] \/ (good[d] /\ unread[d] = 0 /\ endless[d])) \in BOOLEAN
    OBVIOUS
  <2> QED BY <2>1, <2>2
<1> QED BY <1>1, <1>2

LEMMA WorkerTypes ==
    ASSUME Sound, NEW w \in Workers, WorkerStep(w)
    PROVE  TypeOK'
<1>1. w \in Threads /\ {"check", "handle", "commit", "confirm", "release", "guard", "close", "post"} \subseteq LabelsOf(w)
  BY ThreadNames, Labels
<1>2. PICK d \in Clients : d = on[w]
  BY <1>1 DEF Sound, TypeOK, ThreadTypes
<1>3. CASE Take(w)
  <2>1. Head(queue) \in Clients /\ queue' \in Seq(Clients)
    BY <1>3, QueueTail DEF Take, Sound, TypeOK
  <2>2. ThreadTypes'
    BY <1>1, <1>3, <2>1, GotoTypes DEF Take, Sound
  <2>3. MainTypes' /\ SessionTypes'
    BY <1>3, <2>1
       DEF Take, Sound, TypeOK, MainTypes, SessionTypes, mainVars, sessionVars, bufferVars
  <2> QED BY <2>2, <2>3 DEF TypeOK
<1>4. CASE IsGood(w) \/ Handle(w)
  <2>1. ThreadTypes'
    BY <1>1, <1>4, GotoTypes DEF IsGood, Handle, Sound
  <2>2. MainTypes' /\ SessionTypes'
    BY <1>4
       DEF IsGood, Handle, Sound, TypeOK, MainTypes, SessionTypes, mainVars, poolVars, sessionVars, bufferVars
  <2> QED BY <2>1, <2>2 DEF TypeOK
<1>5. CASE Commit(w)
  <2>1. ThreadTypes'
    BY <1>1, <1>5, GotoTypes DEF Commit, Sound
  <2>2. unread \in [Clients -> Nat] /\ unread[d] - 1 \in Nat
    BY <1>2, <1>5, CommitStep, SoundOf DEF Sound, TypeOK, SessionTypes
  <2>3. unread' \in [Clients -> Nat]
    BY <1>2, <1>5, <2>2 DEF Commit
  <2>4. MainTypes' /\ SessionTypes'
    BY <1>5, <2>3 DEF Commit, Sound, TypeOK, MainTypes, SessionTypes, mainVars, poolVars
  <2> QED BY <2>1, <2>4 DEF TypeOK
<1>6. CASE Confirm(w)
  <2>1. ThreadTypes'
    BY <1>1, <1>2, <1>6, GotoTypes DEF Confirm, Sound
  <2>2. MainTypes' /\ SessionTypes'
    BY <1>2, <1>6, ConfirmTypes DEF Confirm, Sound, TypeOK, MainTypes, SessionTypes, mainVars, poolVars
  <2> QED BY <2>1, <2>2 DEF TypeOK
<1>7. CASE DoClose(w)
  <2>1. ThreadTypes'
    BY <1>1, <1>7, GotoTypes DEF DoClose, Sound
  <2>2. MainTypes' /\ SessionTypes'
    BY <1>2, <1>7 DEF DoClose, Sound, TypeOK, MainTypes, SessionTypes, mainVars, poolVars, bufferVars
  <2> QED BY <2>1, <2>2 DEF TypeOK
<1> QED BY <1>3, <1>4, <1>5, <1>6, <1>7 DEF WorkerStep

LEMMA IoTypes ==
    ASSUME Sound, IoStep \/ \E c \in Clients : Receive(c) \/ PeerClose(c)
    PROVE  TypeOK'
<1>1. /\ "io" \in Threads
      /\ {"recv", "confirm", "close", "guard", "exited", "post"} \subseteq LabelsOf("io")
  BY ThreadNames, Labels
<1>2. PICK d \in Clients : d = on["io"]
  BY <1>1 DEF Sound, TypeOK, ThreadTypes
<1>3. CASE CommitRecv
  <2>1. ThreadTypes'
    BY <1>1, <1>2, <1>3, GotoTypes DEF CommitRecv, Sound
  <2>2. /\ unread' = unread \/ unread' = [unread EXCEPT ![d] = unread[d] + 1]
        /\ token' = token \/ token' = [token EXCEPT ![d] = TRUE]
        /\ endless' = endless \/ endless' = [endless EXCEPT ![d] = TRUE]
    BY <1>2, <1>3 DEF CommitRecv
  <2>3. /\ unread' \in [Clients -> Nat] /\ token' \in [Clients -> BOOLEAN]
        /\ endless' \in [Clients -> BOOLEAN]
    <3>1. /\ unread \in [Clients -> Nat] /\ token \in [Clients -> BOOLEAN]
          /\ endless \in [Clients -> BOOLEAN]
      BY DEF Sound, TypeOK, SessionTypes
    <3>2. unread' \in [Clients -> Nat]
      BY <2>2, <3>1
    <3>3. token' \in [Clients -> BOOLEAN]
      BY <2>2, <3>1
    <3>4. endless' \in [Clients -> BOOLEAN]
      BY <2>2, <3>1
    <3> QED BY <3>2, <3>3, <3>4
  <2>4. MainTypes' /\ SessionTypes'
    BY <1>3, <2>3 DEF CommitRecv, Sound, TypeOK, MainTypes, SessionTypes, mainVars, poolVars
  <2> QED BY <2>1, <2>4 DEF TypeOK
<1>3a. CASE Confirm("io")
  <2>1. ThreadTypes'
    BY <1>1, <1>2, <1>3a, GotoTypes DEF Confirm, Sound
  <2>2. MainTypes' /\ SessionTypes'
    BY <1>2, <1>3a, ConfirmTypes
       DEF Confirm, Sound, TypeOK, MainTypes, SessionTypes, mainVars, poolVars
  <2> QED BY <2>1, <2>2 DEF TypeOK
<1>4. CASE IoExits
  <2>1. ThreadTypes'
    BY <1>1, <1>4, GotoTypes DEF IoExits, Sound
  <2>2. MainTypes' /\ SessionTypes'
    BY <1>4 DEF IoExits, Sound, TypeOK, MainTypes, SessionTypes, mainVars, poolVars, sessionVars, bufferVars
  <2> QED BY <2>1, <2>2 DEF TypeOK
<1>5. ASSUME NEW c \in Clients, Receive(c) PROVE TypeOK'
  <2>1. ThreadTypes'
    BY <1>1, <1>5, GotoTypes DEF Receive, Sound
  <2>2. arrived' \in 0 .. MaxArrivals
    BY <1>5, ClientAssumption DEF Receive, Sound, TypeOK, MainTypes
  <2>3. MainTypes' /\ SessionTypes'
    BY <1>5, <2>2 DEF Receive, Sound, TypeOK, MainTypes, SessionTypes, mainVars, poolVars, bufferVars
  <2> QED BY <2>1, <2>3 DEF TypeOK
<1>6. ASSUME NEW c \in Clients, PeerClose(c) PROVE TypeOK'
  <2>1. ThreadTypes'
    BY <1>1, <1>6, GotoTypes DEF PeerClose, Sound
  <2>2. MainTypes' /\ SessionTypes'
    BY <1>6 DEF PeerClose, Sound, TypeOK, MainTypes, SessionTypes, mainVars, poolVars, sessionVars, bufferVars
  <2> QED BY <2>1, <2>2 DEF TypeOK
<1> QED BY <1>3, <1>3a, <1>4, <1>5, <1>6 DEF IoStep

LEMMA MainTypesKept ==
    ASSUME Sound, MainStep \/ Prompt
    PROVE  TypeOK'
<1>1. "main" \in Threads /\ {"idle", "track", "promise", "close"} \subseteq LabelsOf("main")
  BY ThreadNames, Labels
<1>2. ASSUME UNCHANGED <<queue, sessionVars, threadVars>>,
             list' \subseteq Clients, todo' \subseteq Clients,
             stage' \in {"start", "prompt", "round", "stop", "join", "clear",
                         "service", "dispatcher", "drain", "done"},
             service' \in {"running", "stopping", "none"},
             pool' \in {"running", "stopping", "none"}
      PROVE  TypeOK'
  BY <1>2 DEF Sound, TypeOK, MainTypes, SessionTypes, ThreadTypes, sessionVars, bufferVars, threadVars
<1>3. CASE \/ \E c \in Clients : ConnectFails(c) \/ Erase(c) \/ Join(c)
           \/ Clear \/ StopService \/ ServiceStopped \/ StopDispatcher \/ DispatcherStopped \/ Prompt
  <2>1. ASSUME NEW c \in Clients, ConnectFails(c) \/ Erase(c) \/ Join(c) PROVE TypeOK'
    BY <1>2, <2>1
       DEF ConnectFails, Erase, Join, Visited, Sound, TypeOK, MainTypes, poolVars
  <2>2. CASE Clear \/ Prompt
    BY <1>2, <2>2 DEF Clear, Prompt, Sound, TypeOK, MainTypes, poolVars
  <2>3. CASE StopService \/ ServiceStopped
    BY <1>2, <2>3 DEF StopService, ServiceStopped, Sound, TypeOK, MainTypes, mainVars
  <2>4. CASE StopDispatcher \/ DispatcherStopped
    BY <1>2, <2>4 DEF StopDispatcher, DispatcherStopped, Sound, TypeOK, MainTypes
  <2> QED BY <1>3, <2>1, <2>2, <2>3, <2>4
<1>4. CASE \/ LoopEnds("start", "prompt", {}) \/ LoopEnds("round", "prompt", {})
           \/ LoopEnds("stop", "join", list) \/ LoopEnds("join", "clear", {})
  BY <1>2, <1>4 DEF LoopEnds, Sound, TypeOK, MainTypes, poolVars
<1>5. ASSUME NEW c \in Clients, Send(c) \/ Stop(c) PROVE TypeOK'
  <2>1. ThreadTypes'
    <3>1. CASE UNCHANGED threadVars
      BY <3>1 DEF threadVars, Sound, TypeOK, ThreadTypes
    <3>2. CASE Call("main", "close", c)
      BY <3>2, <1>1, GotoTypes DEF Sound
    <3> QED BY <1>5, <3>1, <3>2 DEF Send, Stop
  <2>2. MainTypes' /\ SessionTypes'
    BY <1>5 DEF Send, Stop, Visited, Sound, TypeOK, MainTypes, SessionTypes, poolVars, sessionVars, bufferVars
  <2> QED BY <2>1, <2>2 DEF TypeOK
<1>6. ASSUME NEW c \in Clients, Connect(c) PROVE TypeOK'
  <2>1. ThreadTypes'
    BY <1>1, <1>6, GotoTypes DEF Connect, Sound
  <2>2. MainTypes' /\ SessionTypes'
    BY <1>6 DEF Connect, Sound, TypeOK, MainTypes, SessionTypes, mainVars, poolVars, bufferVars
  <2> QED BY <2>1, <2>2 DEF TypeOK
<1>7. PICK d \in Clients : d = on["main"]
  BY <1>1 DEF Sound, TypeOK, ThreadTypes
<1>8. CASE TrackSession
  <2>1. ThreadTypes'
    BY <1>1, <1>8, GotoTypes DEF TrackSession, Sound
  <2>2. MainTypes' /\ SessionTypes'
    BY <1>7, <1>8 DEF TrackSession, Sound, TypeOK, MainTypes, SessionTypes, mainVars, poolVars, bufferVars
  <2> QED BY <2>1, <2>2 DEF TypeOK
<1>9. CASE NewPromise
  <2>1. ThreadTypes'
    BY <1>1, <1>9, GotoTypes DEF NewPromise, Sound
  <2>2. MainTypes' /\ SessionTypes'
    BY <1>7, <1>9 DEF NewPromise, Visited, Sound, TypeOK, MainTypes, SessionTypes, poolVars, bufferVars
  <2> QED BY <2>1, <2>2 DEF TypeOK
<1> QED BY <1>3, <1>4, <1>5, <1>6, <1>8, <1>9 DEF MainStep

-----------------------------------------------------------------------------
(* What main()'s loops say of all the clients *)

LEMMA InUse ==
    ASSUME Sound, NEW s \in Threads \ {"main"}, NEW d \in Clients, d = on[s],
           at[s] \notin {"idle", "exited"}
    PROVE  ~Fresh(d)
BY DEF Fresh

LEMMA LoopsKept ==
    ASSUME Sound, Starting, Joining,
           NEW s \in Threads, NEW d \in Clients, NEW l, Works(s, d, l), UNCHANGED mainVars,
           s = "main" => stage # "start" /\ l \notin {"track", "promise"},
           s # "main" => ~Fresh(d) \/ (Same(d) /\ l \in {"idle", "exited"}),
           promise[d] \in {"old", "oldSet"} => promise'[d] \in {"old", "oldSet"},
           promise[d] = "set" => promise'[d] = "set"
    PROVE  Starting' /\ Joining'
<1>1. /\ stage' = stage /\ todo' = todo /\ list' = list
      /\ on'[s] = d /\ at'[s] = l
      /\ \A t \in Threads \ {s} : on'[t] = on[t] /\ at'[t] = at[t]
      /\ \A c \in Clients \ {d} : Same(c)
  BY DEF mainVars, Works, Acts
<1>2. Joining'
  BY <1>1 DEF Joining, Joined, Same
<1>3. Starting'
  <2>1. CASE s = "main"
    BY <1>1, <2>1 DEF Starting
  <2>2. CASE s # "main"
    <3>1. on'["main"] = on["main"] /\ at'["main"] = at["main"] /\ "main" \in Threads
      BY <1>1, <2>2, ThreadNames
    <3>2. on["main"] \in Clients /\ todo \subseteq Clients
      BY <3>1 DEF Sound, TypeOK, MainTypes, ThreadTypes
    <3>3. at["main"] = "promise" => promise'[on["main"]] \in {"old", "oldSet"}
      BY <1>1, <3>2 DEF Starting, Same
    <3>4. ASSUME NEW c \in Clients, Fresh(c) PROVE Fresh(c)' /\ state'[c] = state[c]
      <4>1. CASE c = d
        BY <1>1, <2>2, <3>4, <4>1 DEF Fresh, Same
      <4>2. CASE c # d
        BY <1>1, <3>4, <4>2 DEF Fresh, Same
      <4> QED BY <4>1, <4>2
    <3>5. ASSUME NEW c \in Clients, Unstarted(c) PROVE Unstarted(c)'
      BY <3>1, <3>4, <3>5 DEF Unstarted
    <3> QED BY <1>1, <3>1, <3>2, <3>3, <3>5 DEF Starting
  <2> QED BY <2>1, <2>2
<1> QED BY <1>2, <1>3

\* A step that leaves the sessions, their queue and the threads alone
LEMMA Silent ==
    ASSUME Sound, UNCHANGED <<queue, sessionVars, threadVars>>
    PROVE  /\ QueuedOnce' /\ \A c \in Clients : Session(c)'
           /\ \A c \in Clients : Fresh(c)' <=> Fresh(c)
           /\ \A c \in Clients : Unstarted(c)' <=> Unstarted(c)
           /\ promise' = promise /\ at' = at /\ on' = on
<1>1. /\ state' = state /\ tracked' = tracked /\ good' = good /\ token' = token
      /\ unread' = unread /\ failed' = failed /\ promise' = promise /\ closes' = closes
      /\ at' = at /\ on' = on /\ queue' = queue
  BY DEF sessionVars, bufferVars, threadVars
<1>2. QueuedOnce' <=> QueuedOnce
  BY <1>1 DEF QueuedOnce
<1>3. ASSUME NEW c \in Clients PROVE Session(c)' <=> Session(c)
  BY <1>1 DEF Session, Requests, Closes, Messages, Keeps, Owns, Queued, Closing, Asks, Handles
<1>4. ASSUME NEW c \in Clients PROVE (Fresh(c)' <=> Fresh(c)) /\ (Unstarted(c)' <=> Unstarted(c))
  BY <1>1 DEF Fresh, Unstarted
<1> QED BY <1>1, <1>2, <1>3, <1>4 DEF Sound

-----------------------------------------------------------------------------
(* The induction *)

LEMMA InitIInv ==
    ASSUME Init
    PROVE  IInv
<1>1. PICK e \in Clients : on = [t \in Threads |-> e]
  BY DEF Init
<1>2. at = [t \in Threads |-> "idle"]
  BY DEF Init
<1>3. TypeOK
  <2>1. ThreadTypes
    BY <1>1, <1>2, Labels DEF ThreadTypes, MainLabels
  <2>2. queue \in Seq(Clients) /\ MainTypes
    BY ClientAssumption DEF Init, MainTypes
  <2>3. SessionTypes
    BY DEF Init, SessionTypes
  <2> QED BY <2>1, <2>2, <2>3 DEF TypeOK
<1>4. Len(queue) = 0 /\ QueuedOnce /\ \A c \in Clients : ~Queued(c)
  BY DEF Init, QueuedOnce, Queued
<1>5. ASSUME NEW c \in Clients
      PROVE  /\ state[c] = "none" /\ ~tracked[c] /\ good[c] /\ ~token[c]
             /\ unread[c] = 0 /\ ~failed[c] /\ promise[c] = "old" /\ closes[c] = 0
             /\ \A t \in Threads : at[t] = "idle"
  BY <1>2 DEF Init
<1>6. ASSUME NEW c \in Clients PROVE Session(c)
  <2>1. \A t \in Threads : ~Owns(t, c) /\ ~Closing(t, c) /\ ~Asks(t, c) /\ ~Handles(t, c)
    BY <1>5 DEF Owns, Closing, Asks, Handles, RequestLabels, CloseLabels, MessageLabels
  <2> QED BY <1>4, <1>5, <2>1 DEF Session, Requests, Closes, Messages, Keeps
<1>7. Starting
  <2>1. \A c \in Clients : Unstarted(c)
    BY <1>5, ThreadNames DEF Unstarted, Fresh
  <2>2. at["main"] = "idle" /\ todo = Clients
    BY <1>2, ThreadNames DEF Init
  <2> QED BY <2>1, <2>2 DEF Starting
<1>8. Joining
  BY DEF Init, Joining, Joined
<1> QED BY <1>3, <1>4, <1>6, <1>7, <1>8 DEF IInv

LEMMA SharedKeeps ==
    ASSUME IInv, NEW s \in Threads, SharedStep(s)
    PROVE  IInv'
<1>1. Sound /\ Starting /\ Joining
  BY DEF IInv, Sound
<1>2. PICK d \in Clients : d = on[s]
  BY <1>1 DEF Sound, TypeOK, ThreadTypes
<1>3. PICK l : l = at'[s]
  OBVIOUS
<1>4. Works(s, d, l)
  <2>1. CASE CloseBegins(s)
    BY <1>1, <1>2, <1>3, <2>1, CloseBeginsStep
  <2>2. CASE CloseSocket(s)
    BY <1>1, <1>2, <1>3, <2>2, CloseSocketStep DEF Works, Acts
  <2>3. CASE ProcessClose(s)
    BY <1>1, <1>2, <1>3, <2>3, ProcessCloseStep
  <2>4. CASE Post(s)
    BY <1>1, <1>2, <1>3, <2>4, PostStep
  <2>5. CASE LetGo(s)
    BY <1>1, <1>2, <1>3, <2>5, LetGoStep DEF Works, Acts
  <2> QED BY <2>1, <2>2, <2>3, <2>4, <2>5 DEF SharedStep
<1>5. UNCHANGED mainVars /\ promise' = promise
  BY DEF SharedStep, CloseBegins, CloseSocket, ProcessClose, Post, LetGo, sessionVars
<1>6. at[s] \in {"close", "closing", "gobad", "post", "guard"}
  BY DEF SharedStep, CloseBegins, CloseSocket, ProcessClose, Post, LetGo
<1>7. s = "main" => stage # "start" /\ l \notin {"track", "promise"}
  <2>1. l \in {"closing", "gobad", "post", "idle", "guard", "commit"}
    BY <1>1, <1>3, ReturnedTo
       DEF SharedStep, CloseBegins, CloseSocket, ProcessClose, Post, LetGo, Goto, Sound, TypeOK, ThreadTypes
  <2> QED BY <1>1, <1>6, <2>1 DEF Starting
<1>8. s # "main" => ~Fresh(d)
  BY <1>1, <1>2, <1>6, InUse
<1>9. Starting' /\ Joining'
  BY <1>1, <1>4, <1>5, <1>7, <1>8, LoopsKept
<1>10. TypeOK'
  BY <1>1, SharedTypes
<1> QED BY <1>1, <1>4, <1>9, <1>10, SessionsOf DEF IInv, Works

LEMMA IoKeeps ==
    ASSUME IInv, IoStep \/ \E c \in Clients : Receive(c) \/ PeerClose(c)
    PROVE  IInv'
<1>1. Sound /\ Starting /\ Joining /\ "io" \in Threads /\ "io" # "main"
  BY ThreadNames DEF IInv, Sound
<1>2. ASSUME NEW d \in Clients, NEW l, Works("io", d, l), UNCHANGED mainVars, promise' = promise,
             ~Fresh(d) \/ (Same(d) /\ l \in {"idle", "exited"})
      PROVE  QueuedOnce' /\ (\A c \in Clients : Session(c)') /\ Starting' /\ Joining'
  <2>1. Starting' /\ Joining'
    BY <1>1, <1>2, LoopsKept
  <2> QED BY <1>1, <1>2, <2>1, SessionsOf DEF Works
<1>3. QueuedOnce' /\ (\A c \in Clients : Session(c)') /\ Starting' /\ Joining'
  <2>1. ASSUME NEW c \in Clients, Receive(c) \/ PeerClose(c)
        PROVE  QueuedOnce' /\ (\A b \in Clients : Session(b)') /\ Starting' /\ Joining'
    <3>1. \E l : Works("io", c, l)
      BY <1>1, <2>1, ReceiveStep, PeerCloseStep
    <3>2. ~Fresh(c) /\ UNCHANGED mainVars /\ promise' = promise
      BY <2>1 DEF Receive, PeerClose, Fresh, sessionVars
    <3> QED BY <1>2, <3>1, <3>2
  <2>2. PICK d \in Clients : d = on["io"]
    BY <1>1 DEF Sound, TypeOK, ThreadTypes
  <2>3. CASE IoExits
    <3>1. Works("io", d, "exited")
      BY <1>1, <2>2, <2>3, IoExitsStep
    <3>2. Same(d) /\ UNCHANGED mainVars /\ promise' = promise
      BY <2>3 DEF IoExits, Same, sessionVars, bufferVars
    <3> QED BY <1>2, <3>1, <3>2
  <2>4. CASE CommitRecv
    <3>1. PICK l : l = at'["io"]
      OBVIOUS
    <3>2. Works("io", d, l)
      BY <1>1, <2>2, <2>4, <3>1, CommitRecvStep
    <3>3. ~Fresh(d)
      BY <1>1, <2>2, <2>4, InUse DEF CommitRecv
    <3>4. UNCHANGED mainVars /\ promise' = promise
      BY <2>4 DEF CommitRecv
    <3> QED BY <1>2, <3>2, <3>3, <3>4
  <2>5. CASE Confirm("io")
    <3>1. PICK l : l = at'["io"]
      OBVIOUS
    <3>2. Works("io", d, l)
      BY <1>1, <2>2, <2>5, <3>1, ConfirmStep
    <3>3. ~Fresh(d)
      BY <1>1, <2>2, <2>5, InUse DEF Confirm
    <3>4. UNCHANGED mainVars /\ promise' = promise
      BY <2>5 DEF Confirm
    <3> QED BY <1>2, <3>2, <3>3, <3>4
  <2> QED BY <2>1, <2>3, <2>4, <2>5 DEF IoStep
<1>4. TypeOK'
  BY <1>1, IoTypes
<1> QED BY <1>3, <1>4 DEF IInv

LEMMA WorkerKeeps ==
    ASSUME IInv, NEW w \in Workers, WorkerStep(w)
    PROVE  IInv'
<1>1. Sound /\ Starting /\ Joining /\ w \in Threads /\ w # "main"
  BY ThreadNames DEF IInv, Sound
<1>2. ASSUME NEW d \in Clients, NEW l, Works(w, d, l), UNCHANGED mainVars, ~Fresh(d),
             promise[d] \in {"old", "oldSet"} => promise'[d] \in {"old", "oldSet"},
             promise[d] = "set" => promise'[d] = "set"
      PROVE  QueuedOnce' /\ (\A c \in Clients : Session(c)') /\ Starting' /\ Joining'
  <2>1. Starting' /\ Joining'
    BY <1>1, <1>2, LoopsKept
  <2> QED BY <1>1, <1>2, <2>1, SessionsOf DEF Works
<1>3. UNCHANGED mainVars
  BY DEF WorkerStep, Take, IsGood, Handle, Commit, Confirm, DoClose
<1>4. CASE Take(w)
  <2>1. PICK d \in Clients : d = Head(queue)
    BY <1>1, <1>4, QueueTail DEF Take, Sound, TypeOK
  <2>2. Works(w, d, "check") /\ Queued(d)
    BY <1>1, <1>4, <2>1, TakeStep
  <2>3. ~Fresh(d) /\ promise' = promise
    BY <1>1, <1>4, <2>2, SoundOf DEF Take, Fresh, Requests, sessionVars
  <2> QED BY <1>1, <1>2, <1>3, <2>2, <2>3, WorkerTypes DEF IInv
<1>5. PICK d \in Clients : d = on[w]
  BY <1>1 DEF Sound, TypeOK, ThreadTypes
<1>6. PICK l : l = at'[w]
  OBVIOUS
<1>7. CASE IsGood(w) \/ Handle(w) \/ Commit(w) \/ Confirm(w)
  <2>1. Works(w, d, l)
    BY <1>1, <1>5, <1>6, <1>7, IsGoodStep, HandleStep, CommitStep, ConfirmStep DEF Works, Acts
  <2>2. ~Fresh(d)
    BY <1>1, <1>5, <1>7, InUse DEF IsGood, Handle, Commit, Confirm
  <2>3. promise' = promise
    BY <1>7 DEF IsGood, Handle, Commit, Confirm, sessionVars
  <2> QED BY <1>1, <1>2, <1>3, <1>7, <2>1, <2>2, <2>3, WorkerTypes DEF IInv, WorkerStep
<1>8. CASE DoClose(w)
  <2>1. Works(w, d, "guard") /\ promise[d] \in {"old", "new"}
    BY <1>1, <1>5, <1>8, DoCloseStep
  <2>2. ~Fresh(d)
    BY <1>1, <1>5, <1>8, InUse DEF DoClose
  <2>3. promise[d] = "old" => promise'[d] = "oldSet"
    BY <1>1, <1>5, <1>8 DEF DoClose, Sound, TypeOK, SessionTypes
  <2> QED BY <1>1, <1>2, <1>3, <1>8, <2>1, <2>2, <2>3, WorkerTypes DEF IInv, WorkerStep
<1> QED BY <1>4, <1>7, <1>8 DEF WorkerStep

LEMMA MainKeeps ==
    ASSUME IInv, MainStep \/ Prompt
    PROVE  IInv'
<1>1. Sound /\ Starting /\ Joining /\ "main" \in Threads
  BY ThreadNames DEF IInv, Sound
<1>2. TypeOK'
  BY <1>1, MainTypesKept
<1>3. todo \subseteq Clients
  BY <1>1 DEF Sound, TypeOK, MainTypes
<1>4. ASSUME UNCHANGED <<queue, sessionVars, threadVars>>,
             \/ stage' \notin {"start", "join", "clear"} /\ at["main"] \notin {"track", "promise"}
             \/ \E c \in Clients : ConnectFails(c) \/ Join(c)
             \/ LoopEnds("stop", "join", list) \/ LoopEnds("join", "clear", {})
      PROVE  IInv'
  <2>1. /\ QueuedOnce' /\ \A c \in Clients : Session(c)'
        /\ \A c \in Clients : Unstarted(c)' <=> Unstarted(c)
        /\ promise' = promise /\ at' = at /\ on' = on
    BY <1>1, <1>4, Silent
  <2>2. CASE stage' \notin {"start", "join", "clear"} /\ at["main"] \notin {"track", "promise"}
    BY <1>2, <2>1, <2>2 DEF IInv, Starting, Joining, Joined
  <2>3. ASSUME NEW c \in Clients, ConnectFails(c) \/ Join(c) PROVE Starting' /\ Joining'
    <3>1. at["main"] = "idle" /\ stage' = stage /\ todo' = todo \ {c} /\ list' = list
      BY <2>3 DEF ConnectFails, Join, Visits, Visited
    <3>2. Starting'
      BY <1>1, <1>3, <2>1, <3>1 DEF Starting
    <3>3. Joining'
      BY <1>1, <2>1, <2>3, <3>1 DEF Joining, Joined, ConnectFails, Join, Visits
    <3> QED BY <3>2, <3>3
  <2>4. ASSUME LoopEnds("stop", "join", list) \/ LoopEnds("join", "clear", {})
        PROVE  Starting' /\ Joining'
    <3>1. Starting'
      BY <2>1, <2>4 DEF Starting, LoopEnds
    <3>2. Joining'
      BY <1>1, <2>1, <2>4 DEF Joining, Joined, LoopEnds
    <3> QED BY <3>1, <3>2
  <2>5. CASE \E c \in Clients : ConnectFails(c) \/ Join(c)
    BY <1>2, <2>1, <2>3, <2>5 DEF IInv
  <2>6. CASE LoopEnds("stop", "join", list) \/ LoopEnds("join", "clear", {})
    BY <1>2, <2>1, <2>4, <2>6 DEF IInv
  <2> QED BY <1>4, <2>2, <2>5, <2>6
<1>5. ASSUME NEW c \in Clients, (Send(c) \/ Stop(c)) /\ Call("main", "close", c) PROVE IInv'
  <2>1. "close" \notin RequestLabels("main") /\ Justified("main", c, "close")
    BY MainLabel DEF Justified
  <2>2. Works("main", c, "close")
    BY <1>1, <1>5, <2>1, QuietStep DEF Send, Stop, Visits, poolVars, sessionVars, bufferVars
  <2>3. at'["main"] = "close" /\ stage' \in {"round", "stop"}
    BY <1>5, <2>2 DEF Send, Stop, Visits, Works, Acts
  <2>4. Starting' /\ Joining'
    BY <2>3 DEF Starting, Joining, Joined
  <2> QED BY <1>1, <1>2, <2>2, <2>4, SessionsOf DEF IInv, Works
<1>6. ASSUME NEW c \in Clients, Connect(c) PROVE IInv'
  <2>1. Fresh(c) /\ stage = "start" /\ at["main"] = "idle" /\ c \in todo
    BY <1>1, <1>6 DEF Connect, Visits, Starting, Unstarted
  <2>2. Works("main", c, "track") /\ UNCHANGED mainVars /\ state'[c] = "connected"
    BY <1>1, <1>6, <2>1, ConnectStep DEF Connect, Sound, TypeOK, SessionTypes
  <2>3. Starting'
    BY <1>1, <1>3, <1>6, <2>1, <2>2
       DEF Starting, Unstarted, Fresh, Works, Acts, Same, Connect, mainVars, bufferVars
  <2>4. Joining'
    BY <2>1, <2>2 DEF Joining, Joined, mainVars
  <2> QED BY <1>1, <1>2, <2>2, <2>3, <2>4, SessionsOf DEF IInv, Works
<1>7. PICK d \in Clients : d = on["main"]
  BY <1>1 DEF Sound, TypeOK, ThreadTypes
<1>8. CASE TrackSession
  <2>1. Fresh(d) /\ stage = "start" /\ at["main"] = "track" /\ d \in todo /\ state[d] = "connected"
    BY <1>1, <1>7, <1>8 DEF TrackSession, Starting, Unstarted
  <2>2. Works("main", d, "promise") /\ UNCHANGED mainVars /\ promise'[d] = "old"
    BY <1>1, <1>7, <1>8, <2>1, TrackStep DEF TrackSession, Fresh
  <2>3. Starting'
    BY <1>1, <1>3, <1>7, <2>1, <2>2
       DEF Starting, Unstarted, Fresh, Works, Acts, Same, mainVars
  <2>4. Joining'
    BY <2>1, <2>2 DEF Joining, Joined, mainVars
  <2> QED BY <1>1, <1>2, <2>2, <2>3, <2>4, SessionsOf DEF IInv, Works
<1>9. CASE NewPromise
  <2>1. stage = "start" /\ at["main"] = "promise" /\ promise[d] \in {"old", "oldSet"}
    BY <1>1, <1>7, <1>9 DEF NewPromise, Starting
  <2>2. Works("main", d, "idle") /\ stage' = stage /\ todo' = todo \ {d}
    BY <1>1, <1>7, <1>9, <2>1, PromiseStep DEF NewPromise, Visited
  <2>3. Starting'
    BY <1>1, <1>3, <1>7, <2>1, <2>2
       DEF Starting, Unstarted, Fresh, Works, Acts, Same
  <2>4. Joining'
    BY <2>1, <2>2 DEF Joining, Joined
  <2> QED BY <1>1, <1>2, <2>2, <2>3, <2>4, SessionsOf DEF IInv, Works
<1>10. ASSUME \/ \E c \in Clients : Erase(c) \/ (Send(c) /\ UNCHANGED threadVars)
              \/ LoopEnds("start", "prompt", {}) \/ LoopEnds("round", "prompt", {})
              \/ Clear \/ StopService \/ ServiceStopped \/ StopDispatcher
              \/ DispatcherStopped \/ Prompt
       PROVE  IInv'
  <2>1. UNCHANGED <<queue, sessionVars, threadVars>>
    BY <1>10 DEF Erase, Send, LoopEnds, Clear, StopService, ServiceStopped, StopDispatcher,
                 DispatcherStopped, Prompt, poolVars
  <2>2. stage' \notin {"start", "join", "clear"}
    BY <1>10 DEF Erase, Send, LoopEnds, Clear, StopService, ServiceStopped, StopDispatcher,
                 DispatcherStopped, Prompt, Visits, mainVars
  <2>3. at["main"] \notin {"track", "promise"}
    BY <1>1, <1>10 DEF Erase, Send, LoopEnds, Clear, StopService, ServiceStopped,
                       StopDispatcher, DispatcherStopped, Prompt, Visits, Starting
  <2> QED BY <1>4, <2>1, <2>2, <2>3
<1>11. ASSUME \/ \E c \in Clients : ConnectFails(c) \/ Join(c)
              \/ LoopEnds("stop", "join", list) \/ LoopEnds("join", "clear", {})
       PROVE  IInv'
  <2>1. UNCHANGED <<queue, sessionVars, threadVars>>
    BY <1>11 DEF ConnectFails, Join, LoopEnds, poolVars
  <2> QED BY <1>4, <1>11, <2>1
<1>12. ASSUME NEW c \in Clients, Send(c) \/ Stop(c) PROVE IInv'
  BY <1>5, <1>10, <1>12 DEF Send, Stop
<1> QED BY <1>6, <1>8, <1>9, <1>10, <1>11, <1>12 DEF MainStep

LEMMA NextIInv ==
    ASSUME IInv, [Next]_vars
    PROVE  IInv'
<1>1. CASE Next
  BY <1>1, MainKeeps, IoKeeps, WorkerKeeps, SharedKeeps DEF Next
<1>2. CASE UNCHANGED vars
  <2>1. Sound /\ UNCHANGED <<queue, sessionVars, threadVars>> /\ UNCHANGED <<mainVars, poolVars>>
    BY <1>2 DEF vars, poolVars, IInv, Sound
  <2>2. QueuedOnce' /\ (\A c \in Clients : Session(c)') /\ (Starting' <=> Starting) /\ (Joining' <=> Joining)
    BY <2>1, Silent DEF Starting, Joining, Joined, mainVars, Sound, TypeOK, MainTypes
  <2>3. TypeOK'
    BY <2>1 DEF Sound, TypeOK, MainTypes, SessionTypes, ThreadTypes, mainVars, poolVars, sessionVars, bufferVars, threadVars
  <2> QED BY <2>2, <2>3 DEF IInv
<1> QED BY <1>1, <1>2

\* The invariant the theorems rest on.
THEOREM Invariant == Spec => []IInv
<1>1. Init => IInv
  BY InitIInv
<1>2. IInv /\ [Next]_vars => IInv'
  BY NextIInv
<1> QED BY <1>1, <1>2, PTL DEF Spec

\* Every variable has its type: no more messages are committed than came.
THEOREM TypeCorrect == Spec => []TypeOK
<1>1. IInv => TypeOK
  BY DEF IInv
<1> QED BY <1>1, Invariant, PTL

\* A requester's promise is kept at most once, whoever closes its session.
THEOREM PromiseIsKeptOnce == Spec => []PromiseKeptOnce
<1>1. IInv => PromiseKeptOnce
  BY DEF IInv, Session, Keeps, PromiseKeptOnce
<1> QED BY <1>1, Invariant, PTL

\* When join() has returned, the close of the session is complete.
THEOREM JoinIsCorrect == Spec => []JoinMeansClosed
<1>1. ASSUME IInv, NEW c \in Clients, Joined(c)
      PROVE  /\ closes[c] = 1 /\ state[c] = "none" /\ ~tracked[c]
             /\ \A i \in 1 .. Len(queue) : queue[i] # c
             /\ \A t \in Threads : on[t] = c => at[t] \notin CloseLabels \cup MessageLabels
  <2>1. TypeOK /\ Requests(c) /\ Closes(c) /\ Keeps(c) /\ promise[c] = "set"
    BY <1>1 DEF IInv, Session, Joining
  <2>2. closes[c] = 1 /\ ~good[c] /\ ~Queued(c) /\ \A t \in Threads : ~Owns(t, c)
    BY <2>1 DEF Keeps
  <2>3. state[c] = "none" /\ ~tracked[c] /\ \A t \in Threads : ~Closing(t, c)
    BY <2>1, <2>2 DEF Closes
  <2>4. ASSUME NEW t \in Threads, on[t] = c
        PROVE  at[t] \notin CloseLabels \cup MessageLabels
    <3>1. t \in Workers \/ at[t] \notin MessageLabels \ {"confirm"}
      BY <2>1, ThreadNames DEF TypeOK, ThreadTypes, MainLabels, IoLabels, CloseLabels, MessageLabels
    <3> QED BY <2>2, <2>3, <2>4, <3>1 DEF Owns, Closing, RequestLabels, CloseLabels
  <2> QED BY <2>2, <2>3, <2>4 DEF Queued
<1>2. IInv => JoinMeansClosed
  BY <1>1 DEF JoinMeansClosed
<1> QED BY <1>2, Invariant, PTL
=============================================================================
