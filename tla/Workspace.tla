----------------------------- MODULE Workspace -----------------------------
(* The page of the desktop application: MindCoreWorkspace (App.tsx) with the
   ChatWindow it mounts and the cache of chatHistory.ts.  The page is one
   thread, but everything it knows comes from answers that arrive later: of
   the native commands (start, switch, save, list), which run one at a time,
   and of HTTP calls to whichever backend the sidecar runs when they are
   served.  An action is one event handler together with the effects React
   runs after its commit (Render).  The native side is PersonaRegistry and
   SidecarLifecycle cut down to what a page can tell. *)
EXTENDS Naturals, Sequences, FiniteSets

CONSTANTS
  Personas,      \* registered personas, each with a database of its own
  First,         \* the one active when the application starts
  None,          \* no value
  MaxCommands,   \* bound: switches, saves and manager changes
  MaxSends,      \* bound: messages sent
  MaxDeletes,    \* bound: messages deleted
  MaxEvents,     \* bound: proactive messages
  MaxViews,      \* bound: changes of section
  MaxTroubles,   \* bound: failed commands and calls
  MaxMoves       \* bound: all of these together

Conversations == Personas \X {1, 2}

ASSUME FirstAssumption == First \in Personas /\ None \notin Personas \cup Conversations

VARIABLES
  native,   \* the registry's active persona, the sidecar, the command queue
  open,     \* the conversations that exist
  store,    \* their durable messages
  news,     \* per persona, the conversation of each proactive message
  stored,   \* localStorage: the main conversation per persona
  ui,       \* the state and refs of the page, and two auxiliary fields:
            \* `received`, the sends whose answer this session has merged, and
            \* `guessed`, that it once took its persona from a list
  calls,    \* HTTP calls whose handler has not run
  poll,     \* the poll for proactive events
  spent     \* what the bounds count

vars == <<native, open, store, news, stored, ui, calls, poll, spent>>

Of(p) == {c \in open : c[1] = p}

Message(kind, n) == [kind |-> kind, n |-> n]

Spend(what) == spent' = [spent EXCEPT ![what] = @ + 1]
Moves == spent.commands + spent.sends + spent.deletes + spent.events + spent.views
         + spent.troubles
Left(what, bound) == spent[what] < bound /\ Moves < MaxMoves

(***************************************************************************)
(* chatHistory.ts.  The cache holds, per conversation, the messages shown  *)
(* (their order is left out) and a revision.                               *)
(***************************************************************************)
EmptyHistory == [c \in Conversations |-> [messages |-> {}, revision |-> 0]]

updateChatHistory(history, c, messages) ==
  [history EXCEPT ![c] = [messages |-> messages, revision |-> @.revision + 1]]

\* Mutant of replaceDurableChatHistory: a load replaces what was merged since it began.
ReplaceUnchecked(history, c, messages, expected) ==
  [history EXCEPT ![c].messages = messages]

\* Only a load that began at the current revision replaces the messages.
replaceDurableChatHistory(history, c, messages, expected) ==
  IF history[c].revision = expected
  THEN [history EXCEPT ![c].messages = messages] ELSE history

reconcileChatResponse(messages, n) ==
  (messages \ {Message("temp", n)}) \cup {Message("user", n), Message("reply", n)}

(***************************************************************************)
(* What is on the screen.                                                  *)
(***************************************************************************)
Shell(u) == u.backend = "connected" /\ u.auth = "authenticated"
ChatMounted(u) == Shell(u) /\ u.section = "chat" /\ u.main # None

HistoryCall(c, revision) ==
  [kind |-> "history", conv |-> c, revision |-> revision, n |-> 0,
   status |-> "asked", messages |-> {}]
LoadCall(u) ==
  [kind |-> "load", gen |-> u.gen, key |-> u.persona, status |-> "asked", list |-> {}]
AuthCall(gen) == [kind |-> "auth", gen |-> gen, status |-> "asked", persona |-> None]

\* `mark` is the attempt or the generation the command belongs to.
Command(name, to, seen, mark) ==
  [name |-> name, to |-> to, seen |-> seen, mark |-> mark, done |-> "no", listed |-> None]
Enqueue(command) == native' = [native EXCEPT !.queue = Append(@, command)]

(* One commit of the page: the state `next` the handler set and the effects
   whose dependencies it changed.  `kept` are the calls and `queue` the native
   commands still open.  The start effect sets the backend status itself, so a
   second commit follows at once; the authentication effect of the first one
   still saw the old status.  A cancelled fetch is a call taken away: nothing
   but its answer was left of it. *)
Render(next, kept, queue) ==
  LET restarted == next.attempt # ui.attempt
      shown == IF restarted THEN [next EXCEPT !.backend = "checking"] ELSE next
      polled == <<shown.persona, shown.section, shown.auth, shown.backend, shown.main>>
                # <<ui.persona, ui.section, ui.auth, ui.backend, ui.main>>
      remounted == <<ChatMounted(shown), shown.main>> # <<ChatMounted(ui), ui.main>>
      cancelled == {c \in kept : \/ remounted /\ c.kind = "history"
                                 \/ polled /\ c.kind = "news"}
      authenticate == /\ next.backend = "connected"
                      /\ restarted \/ ui.backend # "connected"
      load == /\ shown.auth = "authenticated"
              /\ <<shown.auth, shown.persona>> # <<ui.auth, ui.persona>>
  IN /\ ui' = IF polled /\ (~Shell(shown) \/ shown.persona # ui.persona)
              THEN [shown EXCEPT !.cursor = None] ELSE shown
     /\ calls' = (kept \ cancelled)
                 \cup (IF load THEN {LoadCall(shown)} ELSE {})
                 \cup (IF remounted /\ ChatMounted(shown)
                       THEN {HistoryCall(shown.main, shown.history[shown.main].revision)} ELSE {})
     /\ native' = [native EXCEPT !.queue =
          queue \o (IF authenticate THEN <<Command("session", None, None, next.gen)>> ELSE <<>>)
                \o (IF restarted THEN <<Command("start", None, None, next.attempt)>> ELSE <<>>)]
     /\ poll' = IF polled THEN [poll EXCEPT !.live = FALSE] ELSE poll

\* A session ends: nothing asked for it may show any more.
Forget(u) ==
  [u EXCEPT !.gen = @ + 1, !.main = None, !.history = EmptyHistory,
            !.pending = [c \in Conversations |-> 0], !.received = {}, !.guessed = FALSE]

(***************************************************************************)
(* The native side: synchronous commands, one at a time, in the order the  *)
(* page called them.  A restart of the sidecar breaks the calls it has not *)
(* answered.                                                               *)
(***************************************************************************)
Broken(cs) == {IF c.status \in {"asked", "thinking"}
               THEN [c EXCEPT !.status = "failed"] ELSE c : c \in cs}
Waiting == native.queue # <<>> /\ Head(native.queue).done = "no"
Finish(outcome, active, running) ==
  native' = [active |-> active, running |-> running,
             queue |-> <<[Head(native.queue) EXCEPT !.done = outcome, !.listed = active]>>
                       \o Tail(native.queue)]
Restarts == calls' = Broken(calls) /\ UNCHANGED poll

\* list_personas and get_desktop_session; and start, switch and save where
\* there is nothing to restart.
ExecutePlainly ==
  /\ Waiting
  /\ LET command == Head(native.queue) IN
       \/ command.name \in {"list", "session"}
       \/ command.name = "start" /\ native.running
       \/ command.name = "switch" /\ command.to = native.active
       \/ command.name = "save" /\ command.to # native.active
  /\ Finish(IF Head(native.queue).name = "session" /\ ~native.running THEN "failed" ELSE "ok",
            native.active, native.running)
  /\ UNCHANGED <<open, store, news, stored, ui, calls, poll, spent>>

\* The sidecar is stopped and started for the persona that is to be active.
ExecuteRestart ==
  /\ Waiting
  /\ LET command == Head(native.queue) IN
       \/ command.name = "start" /\ ~native.running /\ Finish("ok", native.active, TRUE)
       \/ /\ command.name = "switch" /\ command.to # native.active
          /\ Finish("ok", command.to, TRUE)
       \/ /\ command.name = "save" /\ command.to = native.active
          /\ Finish("ok", native.active, TRUE)
  /\ Restarts
  /\ UNCHANGED <<open, store, news, stored, ui, spent>>

\* The start fails; switch and save put the old registry or profile back and
\* start once more, which may fail too.
ExecuteFails ==
  /\ Waiting /\ Left("troubles", MaxTroubles)
  /\ LET command == Head(native.queue) IN
       \/ command.name = "start" /\ ~native.running /\ Finish("failed", native.active, FALSE)
       \/ /\ \/ command.name = "switch" /\ command.to # native.active
             \/ command.name = "save" /\ command.to = native.active
          /\ \E running \in BOOLEAN : Finish("failed", native.active, running)
  /\ Restarts /\ Spend("troubles")
  /\ UNCHANGED <<open, store, news, stored, ui>>

(***************************************************************************)
(* What runs in the page when a command is done.                           *)
(***************************************************************************)
Done(name) == native.queue # <<>> /\ Head(native.queue).done # "no"
              /\ Head(native.queue).name = name
Rest == Tail(native.queue)
Kept == <<open, store, news, stored, spent>>

\* checkHealth, ignored once a later attempt has begun.
StartAnswered ==
  /\ Done("start")
  /\ LET command == Head(native.queue)
         backend == IF command.done = "ok" THEN "connected" ELSE "error"
     IN Render(IF command.mark = ui.attempt THEN [ui EXCEPT !.backend = backend] ELSE ui,
               calls, Rest)
  /\ UNCHANGED Kept

\* switchPersona from its await on: the persona changes only on success, the
\* page starts again either way.
SwitchAnswered ==
  /\ Done("switch")
  /\ LET command == Head(native.queue)
         persona == IF command.done = "ok" THEN command.listed ELSE ui.persona
     IN Render([ui EXCEPT !.persona = persona, !.attempt = @ + 1], calls, Rest)
  /\ UNCHANGED Kept

\* switchPersona up to its await.
Leaving(u) ==
  [Forget(u) EXCEPT !.backend = "checking", !.auth = "checking", !.section = "chat"]

\* The panel is unmounted by a switch: it then ignores the answer.  Otherwise
\* it calls handlePersonasChanged, which first asks for the list.
SaveAnswered ==
  /\ Done("save")
  /\ LET command == Head(native.queue)
         goesOn == command.done = "ok" /\ Shell(ui) /\ ui.persona = command.to
                   /\ ui.attempt = command.mark
     IN Render(ui, calls,
               IF goesOn THEN Append(Rest, Command("list", command.to, command.seen, 0)) ELSE Rest)
  /\ UNCHANGED Kept

(* refreshPersonas, then the rest of handlePersonasChanged: `to` is the persona
   to go to and `seen` the active one when the handler was made. *)
ListAnswered ==
  /\ Done("list")
  /\ LET command == Head(native.queue)
         loaded == [ui EXCEPT !.persona = command.listed, !.listed = command.listed]
     IN \/ /\ command.to = None
           /\ Render(loaded, calls, Rest)
        \/ /\ command.to \notin {None, command.seen}
           /\ Render(Leaving(loaded), calls,
                     Append(Rest, Command("switch", command.to, None, 0)))
        \/ /\ command.to # None /\ command.to = command.seen
           /\ Render([Forget(loaded) EXCEPT !.backend = "checking", !.auth = "checking",
                                            !.attempt = @ + 1], calls, Rest)
  /\ UNCHANGED Kept

\* get_desktop_session, followed by /auth/me.
SessionAnswered ==
  /\ Done("session")
  /\ LET command == Head(native.queue) IN
       IF command.done = "ok" THEN Render(ui, calls \cup {AuthCall(command.mark)}, Rest)
       ELSE Render(IF command.mark = ui.gen THEN [ui EXCEPT !.auth = "unauthenticated"] ELSE ui,
                   calls, Rest)
  /\ UNCHANGED Kept

(***************************************************************************)
(* The backend of the active persona serves a call, or the call fails.     *)
(***************************************************************************)
Served(c, answer) == calls' = (calls \ {c}) \cup {answer}

ServeRead(c) ==
  /\ native.running /\ c.status = "asked"
  /\ \/ c.kind = "auth" /\ Served(c, [c EXCEPT !.status = "answered", !.persona = native.active])
     \/ c.kind = "load" /\ Served(c, [c EXCEPT !.status = "answered", !.list = Of(native.active)])
     \/ /\ c.kind \in {"history", "news"} /\ c.conv \in Of(native.active)
        /\ Served(c, [c EXCEPT !.status = "answered", !.messages = store[c.conv]])
  /\ UNCHANGED <<native, open, store, news, stored, ui, poll, spent>>

\* POST /conversations.
ServeCreate(c) ==
  /\ native.running /\ c.status = "asked" /\ c.kind = "create"
  /\ \E conv \in Conversations \ open :
       /\ conv[1] = native.active
       /\ open' = open \cup {conv}
       /\ Served(c, [c EXCEPT !.status = "answered", !.conv = conv])
  /\ UNCHANGED <<native, store, news, stored, ui, poll, spent>>

\* POST /chat stores the message before the answer is composed.
ServeChat(c) ==
  /\ native.running /\ c.kind = "chat" /\ c.conv \in Of(native.active)
  /\ \/ /\ c.status = "asked" /\ Served(c, [c EXCEPT !.status = "thinking"])
        /\ store' = [store EXCEPT ![c.conv] = @ \cup {Message("user", c.n)}]
     \/ /\ c.status = "thinking" /\ Served(c, [c EXCEPT !.status = "answered"])
        /\ store' = [store EXCEPT ![c.conv] = @ \cup {Message("reply", c.n)}]
  /\ UNCHANGED <<native, open, news, stored, ui, poll, spent>>

ServeDelete(c) ==
  /\ native.running /\ c.kind = "delete" /\ c.status = "asked"
  /\ c.conv \in Of(native.active)
  /\ Served(c, [c EXCEPT !.status = "answered"])
  /\ store' = [store EXCEPT ![c.conv] = @ \ {c.message}]
  /\ UNCHANGED <<native, open, news, stored, ui, poll, spent>>

\* There is no backend, or not one that knows the conversation.
Unknown(c) ==
  /\ c.status = "asked"
  /\ \/ ~native.running
     \/ c.kind \in {"history", "news", "chat", "delete"} /\ c.conv \notin Of(native.active)
  /\ Served(c, [c EXCEPT !.status = "failed"])
  /\ UNCHANGED <<native, open, store, news, stored, ui, poll, spent>>

\* An error of the server, a broken connection or a refused session.  /auth/me
\* tells a database that is down (5xx) from the rest.
CallFails(c) ==
  /\ c.status \in {"asked", "thinking"} /\ Left("troubles", MaxTroubles)
  /\ \/ Served(c, [c EXCEPT !.status = "failed"])
     \/ c.status = "asked" /\ c.kind # "auth" /\ Served(c, [c EXCEPT !.status = "denied"])
     \/ c.kind = "auth" /\ Served(c, [c EXCEPT !.status = "unavailable"])
  /\ Spend("troubles")
  /\ UNCHANGED <<native, open, store, news, stored, ui, poll>>

(***************************************************************************)
(* The handlers of the calls.  A result of an earlier session is dropped.  *)
(***************************************************************************)
\* Mutant of Current: the generation is not compared.
CurrentAlways(c) == TRUE

Current(c) == c.gen = ui.gen

AuthAnswered(c) ==
  /\ c.kind = "auth" /\ c.status \notin {"asked", "thinking"}
  /\ Render(IF ~Current(c) THEN ui
            ELSE CASE c.status = "answered" ->
                        [ui EXCEPT !.persona = c.persona, !.unavailable = FALSE,
                                   !.auth = "authenticated"]
                   [] c.status = "unavailable" ->
                        [ui EXCEPT !.persona = ui.listed, !.unavailable = TRUE,
                                   !.guessed = TRUE, !.auth = "authenticated"]
                   [] OTHER -> [ui EXCEPT !.auth = "unauthenticated"],
            calls \ {c}, native.queue)
  /\ UNCHANGED Kept

\* loadMainConversation after listConversations: the stored conversation, else
\* the first of the list, else a new one.
LoadAnswered(c) ==
  /\ c.kind = "load" /\ c.status \in {"answered", "failed"}
  /\ \/ /\ ~Current(c) \/ c.status = "failed"
        /\ Render(ui, calls \ {c}, native.queue) /\ UNCHANGED stored
     \/ /\ Current(c) /\ c.status = "answered" /\ c.list # {}
        /\ \E conv \in c.list :
             /\ stored[c.key] \in c.list => conv = stored[c.key]
             /\ stored' = [stored EXCEPT ![c.key] = conv]
             /\ Render([ui EXCEPT !.main = conv], calls \ {c}, native.queue)
     \/ /\ Current(c) /\ c.status = "answered" /\ c.list = {}
        /\ Render(ui, (calls \ {c}) \cup
                      {[kind |-> "create", gen |-> c.gen, key |-> c.key,
                        status |-> "asked", conv |-> None]}, native.queue)
        /\ UNCHANGED stored
  /\ UNCHANGED <<open, store, news, spent>>

CreateAnswered(c) ==
  /\ c.kind = "create" /\ c.status \in {"answered", "failed"}
  /\ IF Current(c) /\ c.status = "answered"
     THEN /\ stored' = [stored EXCEPT ![c.key] = c.conv]
          /\ Render([ui EXCEPT !.main = c.conv], calls \ {c}, native.queue)
     ELSE Render(ui, calls \ {c}, native.queue) /\ UNCHANGED stored
  /\ UNCHANGED <<open, store, news, spent>>

\* handleDurableMessagesLoaded, and the fetch a proactive event causes.
HistoryAnswered(c) ==
  /\ c.kind \in {"history", "news"} /\ c.status \in {"answered", "failed"}
  /\ Render(IF c.status = "failed" THEN ui
            ELSE [ui EXCEPT !.history =
                    replaceDurableChatHistory(@, c.conv, c.messages, c.revision)],
            calls \ {c}, native.queue)
  /\ UNCHANGED Kept

Settled(u, c) ==
  IF u.pending[c.conv] = c.n THEN [u EXCEPT !.pending[c.conv] = 0] ELSE u

\* handleSendSucceeded and handleSendFailed.
ChatAnswered(c) ==
  /\ c.kind = "chat" /\ c.status \in {"answered", "failed"}
  /\ LET shown == ui.history[c.conv].messages
         messages == IF c.status = "answered" THEN reconcileChatResponse(shown, c.n)
                     ELSE {IF m = Message("temp", c.n) THEN Message("failed", c.n) ELSE m : m \in shown}
         merged == [ui EXCEPT !.history = updateChatHistory(@, c.conv, messages),
                              !.received = @ \cup {n \in {c.n} : c.status = "answered"}]
     IN Render(IF Current(c) THEN Settled(merged, c) ELSE ui,
               calls \ {c}, native.queue)
  /\ UNCHANGED Kept

\* handleMessageDeleted: no session is checked, the cache of that time is changed.
DeleteAnswered(c) ==
  /\ c.kind = "delete" /\ c.status \in {"answered", "failed"}
  /\ Render(IF c.status = "failed" THEN ui
            ELSE [ui EXCEPT !.history = updateChatHistory(@, c.conv,
                                          @[c.conv].messages \ {c.message})],
            calls \ {c}, native.queue)
  /\ UNCHANGED Kept

\* 401 or 403: the failure handler of the client clears the session, the
\* caller's own handler then finds it gone.
Denied(c) ==
  /\ c.status = "denied"
  /\ Render([Forget(ui) EXCEPT !.auth = "unauthenticated", !.persona = None],
            calls \ {c}, native.queue)
  /\ UNCHANGED Kept

(***************************************************************************)
(* Proactive events: the poll of every ten seconds.                        *)
(***************************************************************************)
PollIdle == [phase |-> "idle", live |-> FALSE, of |-> None, rest |-> {}, latest |-> 0]

\* The request and its service; one that fails leaves nothing.  Without a
\* cursor only the newest event is named, and no event returned.
Poll ==
  /\ Shell(ui) /\ poll.phase = "idle" /\ native.running
  /\ LET latest == Len(news[native.active]) IN
       poll' = [phase |-> "answered", live |-> TRUE, of |-> native.active, latest |-> latest,
                rest |-> {n \in 1..latest : ui.cursor # None /\ n > ui.cursor}]
  /\ UNCHANGED <<native, open, store, news, stored, ui, calls, spent>>

\* The cursor moves before the events are announced; the first poll of a
\* session only sets it.
PollAnswered ==
  /\ poll.phase = "answered"
  /\ ui' = IF poll.live THEN [ui EXCEPT !.cursor = poll.latest] ELSE ui
  /\ poll' = IF poll.live /\ ui.cursor # None /\ poll.rest # {}
             THEN [poll EXCEPT !.phase = "announcing"] ELSE PollIdle
  /\ UNCHANGED <<native, open, store, news, stored, calls, spent>>

\* One event of the batch, after the await of isFocused; the rest of a
\* cancelled batch is lost, the cursor being past it.
Announce ==
  /\ poll.phase = "announcing"
  /\ LET n == CHOOSE n \in poll.rest : \A m \in poll.rest : n <= m
         conv == news[poll.of][n]
     IN IF ~poll.live THEN poll' = PollIdle /\ UNCHANGED <<ui, calls>>
        ELSE /\ ui' = [ui EXCEPT !.toast = conv]
             /\ calls' = calls \cup
                  (IF conv # ui.main THEN {}
                   ELSE {[HistoryCall(conv, ui.history[conv].revision)
                            EXCEPT !.kind = "news", !.n = n]})
             /\ poll' = IF poll.rest = {n} THEN PollIdle ELSE [poll EXCEPT !.rest = @ \ {n}]
  /\ UNCHANGED <<native, open, store, news, stored, spent>>

\* The persona speaks first: another process may do it, whatever runs here.
Speaks(p) ==
  /\ Left("events", MaxEvents) /\ Spend("events")
  /\ \E conv \in Of(p) :
       /\ news' = [news EXCEPT ![p] = Append(@, conv)]
       /\ store' = [store EXCEPT ![conv] = @ \cup {Message("event", Len(news[p]) + 1)}]
  /\ UNCHANGED <<native, open, stored, ui, calls, poll>>

(***************************************************************************)
(* The user.                                                               *)
(***************************************************************************)
\* handleSend: the input is disabled while the history loads or a send pends.
Send ==
  /\ ChatMounted(ui) /\ Left("sends", MaxSends)
  /\ ui.pending[ui.main] = 0 /\ ~ui.unavailable
  /\ \A c \in calls : c.kind # "history"
  /\ LET n == spent.sends + 1
         shown == ui.history[ui.main].messages \cup {Message("temp", n)}
     IN Render([ui EXCEPT !.pending[ui.main] = n,
                          !.history = updateChatHistory(@, ui.main, shown)],
               calls \cup {[kind |-> "chat", gen |-> ui.gen, conv |-> ui.main, n |-> n,
                            status |-> "asked"]}, native.queue)
  /\ Spend("sends")
  /\ UNCHANGED <<open, store, news, stored>>

View ==
  /\ Shell(ui) /\ Left("views", MaxViews)
  /\ \E section \in {"chat", "data"} \ {ui.section} :
       Render([ui EXCEPT !.section = section], calls, native.queue)
  /\ Spend("views")
  /\ UNCHANGED <<open, store, news, stored>>

\* A message of the list in Data management.
Delete ==
  /\ Shell(ui) /\ ui.section = "data" /\ Left("deletes", MaxDeletes)
  /\ \E conv \in Of(native.active) : \E m \in store[conv] :
       calls' = calls \cup {[kind |-> "delete", conv |-> conv, message |-> m, status |-> "asked"]}
  /\ Spend("deletes")
  /\ UNCHANGED <<native, open, store, news, stored, ui, poll>>

switchPersona(p) ==
  /\ p # ui.persona /\ Left("commands", MaxCommands)
  /\ Render(Leaving(ui), calls, Append(native.queue, Command("switch", p, None, 0)))
  /\ Spend("commands")
  /\ UNCHANGED <<open, store, news, stored>>

Switch(p) == Shell(ui) /\ switchPersona(p)

\* ProactiveSettingsPanel.save.
Save ==
  /\ Shell(ui) /\ ui.persona # None /\ Left("commands", MaxCommands)
  /\ Enqueue(Command("save", ui.persona, ui.persona, ui.attempt))
  /\ Spend("commands")
  /\ UNCHANGED <<open, store, news, stored, ui, calls, poll>>

\* handlePersonasChanged called by PersonaManager, with a persona to go to or
\* without.
Manage(to) ==
  /\ Shell(ui) /\ Left("commands", MaxCommands)
  /\ Enqueue(Command("list", to, ui.persona, 0))
  /\ Spend("commands")
  /\ UNCHANGED <<open, store, news, stored, ui, calls, poll>>

\* openProactiveEvent.
OpenEvent ==
  /\ Shell(ui) /\ ui.toast # None
  /\ LET opened == [ui EXCEPT !.toast = None] IN
       IF ui.toast[1] # ui.persona
       THEN /\ Left("commands", MaxCommands) /\ Spend("commands")
            /\ Render(Leaving(opened), calls,
                      Append(native.queue, Command("switch", ui.toast[1], None, 0)))
       ELSE /\ Render([opened EXCEPT !.main = ui.toast, !.section = "chat"], calls, native.queue)
            /\ UNCHANGED spent
  /\ stored' = [stored EXCEPT ![ui.toast[1]] = ui.toast]
  /\ UNCHANGED <<open, store, news>>

ToastExpires ==
  /\ ui.toast # None
  /\ ui' = [ui EXCEPT !.toast = None]
  /\ UNCHANGED <<native, open, store, news, stored, calls, poll, spent>>

\* retryDesktopBackend, from one of the two error screens.
Retry ==
  /\ \/ ui.backend = "error"
     \/ ui.backend = "connected" /\ ui.auth = "unauthenticated"
  /\ Render([ui EXCEPT !.backend = "checking", !.auth = "checking", !.attempt = @ + 1],
            calls, native.queue)
  /\ UNCHANGED Kept

-----------------------------------------------------------------------------
\* The first persona has a conversation, the others are new.
Init ==
  /\ native = [active |-> First, running |-> FALSE,
               queue |-> <<Command("list", None, None, 0), Command("start", None, None, 0)>>]
  /\ open = {<<First, 1>>}
  /\ store = [c \in Conversations |-> IF c \in open THEN {Message("old", 0)} ELSE {}]
  /\ news = [p \in Personas |-> <<>>]
  /\ stored = [p \in Personas |-> None]
  /\ ui = [gen |-> 0, attempt |-> 0, backend |-> "checking", auth |-> "checking",
           persona |-> None, listed |-> None, main |-> None, history |-> EmptyHistory,
           pending |-> [c \in Conversations |-> 0], section |-> "chat",
           unavailable |-> FALSE, guessed |-> FALSE, received |-> {}, cursor |-> None, toast |-> None]
  /\ calls = {}
  /\ poll = PollIdle
  /\ spent = [commands |-> 0, sends |-> 0, events |-> 0, deletes |-> 0, views |-> 0, troubles |-> 0]

Native == \/ ExecutePlainly \/ ExecuteRestart \/ ExecuteFails
          \/ StartAnswered \/ SessionAnswered \/ SwitchAnswered \/ SaveAnswered \/ ListAnswered
Backend == \E c \in calls : \/ ServeRead(c) \/ ServeCreate(c) \/ ServeChat(c) \/ ServeDelete(c)
                            \/ Unknown(c) \/ CallFails(c)
Answers == \E c \in calls : \/ AuthAnswered(c) \/ LoadAnswered(c) \/ CreateAnswered(c)
                            \/ HistoryAnswered(c) \/ ChatAnswered(c) \/ DeleteAnswered(c)
                            \/ Denied(c)
Events == \/ Poll \/ PollAnswered \/ Announce
          \/ \E p \in Personas : Speaks(p)
User == \/ Send \/ View \/ Delete \/ Save \/ OpenEvent \/ ToastExpires \/ Retry
        \/ \E p \in Personas : Switch(p)
        \/ \E to \in Personas \cup {None} : Manage(to)

Next == Native \/ Backend \/ Answers \/ Events \/ User
Spec == Init /\ [][Next]_vars

-----------------------------------------------------------------------------
(* Once no command and no call is open, the page shows the persona that the
   native side has active, one of her conversations, and nothing that still
   says it is being sent.  Excused is a session whose /auth/me failed with a
   server error: App.tsx:315-321 then takes the persona from the list it last
   loaded, which a switch does not refresh.  A later /auth/me of the session
   puts the persona right; the conversation opened meanwhile may stay. *)
QuietIsRight ==
  calls = {} /\ native.queue = <<>> /\ Shell(ui) =>
    /\ ~ui.unavailable => ui.persona = native.active
    /\ ~ui.guessed /\ ui.main # None => ui.main \in Of(native.active)
    /\ \A c \in Conversations : /\ ui.pending[c] = 0
                                /\ \A m \in ui.history[c].messages : m.kind # "temp"

(* A reply the page received does not go away: no load that was on its way,
   and no other answer, takes it off the page before the session ends or it is
   deleted. *)
RepliesStay ==
  [][\A c \in Conversations : \A m \in ui.history[c].messages :
       m.kind = "reply" /\ m.n \in ui.received /\ m \in store[c] /\ ui'.gen = ui.gen
         => m \in ui'.history[c].messages]_vars
=============================================================================
