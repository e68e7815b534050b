--------------------------- MODULE BrowserSessions ---------------------------
(***************************************************************************)
(* The browsers that stay open between tool calls: BrowserSessionRegistry  *)
(* and BrowserController (tools/browser/browserController.ts), used by the *)
(* browser tools of the runs.  A browser is known by its controller; its   *)
(* tabs are numbered.  A call awaits the browser at each of its steps.     *)
(***************************************************************************)
EXTENDS Naturals, Sequences, FiniteSetsExt

CONSTANTS
    Chats,        \* chat sessions
    Users,        \* tool calls under way at one time
    Controllers,  \* controllers there may ever be
    Shared,       \* whether two calls may work for one chat at the same time
    MaxTabs,      \* bound on the tabs opened
    MaxToolCalls  \* bound on the tool calls

BrowserConstants ==
    /\ Shared \in BOOLEAN /\ MaxTabs \in Nat \ {0} /\ MaxToolCalls \in Nat
    /\ "none" \notin Controllers \cup Chats

VARIABLES
    registry,  \* sessions: the controller of each chat
    control,   \* the controllers: isOpen, the current tab, whether it is idle
    browsers,  \* Chromium processes: for each controller the tabs of each browser
    use,       \* the tool calls
    toolCalls  \* tool calls so far

browserVars == <<registry, control, browsers, use, toolCalls>>

NoUse == [at |-> "none", chat |-> "none", kind |-> "none", by |-> "none", tab |-> 0]
Shut == [open |-> FALSE, tab |-> 0, used |-> 0, idle |-> FALSE]

Init ==
    /\ registry = [c \in Chats |-> "none"]
    /\ control = [k \in Controllers |-> Shut]
    /\ browsers = [k \in Controllers |-> <<>>]
    /\ use = [u \in Users |-> NoUse]
    /\ toolCalls = 0

New == {k \in Controllers : control[k] = Shut /\ browsers[k] = <<>> /\
            (\A c \in Chats : registry[c] # k) /\ \A u \in Users : use[u].by # k}
Goes(u, at) == use' = [use EXCEPT ![u].at = at]
Busy(k) == \E u \in Users : use[u].by = k

\* The browser a controller works with: the last one it launched.
Current(k) == Len(browsers[k])
Tabs(k) == IF control[k].open THEN browsers[k][Current(k)] ELSE {}

-----------------------------------------------------------------------------
(* The registry. *)

\* Nothing used the controller for idleCloseMs.
GrowsIdle(k) ==
    /\ ~Busy(k) /\ \E c \in Chats : registry[c] = k
    /\ ~control[k].idle
    /\ control' = [control EXCEPT ![k].idle = TRUE]
    /\ UNCHANGED <<registry, browsers, use, toolCalls>>

\* BrowserController.close, up to its await; the browser then goes.
Closed(k) == [Shut EXCEPT !.used = control[k].used]
Gone(k) == IF control[k].open THEN [browsers EXCEPT ![k][Current(k)] = {}] ELSE browsers

\* A bug: the sweep drops a controller without closing it.
SweptUnclosed(ks) == browsers

Swept(ks) == [k \in Controllers |-> IF k \in ks THEN Gone(k)[k] ELSE browsers[k]]

\* forSession: the sweep of idle controllers, up to the await of their closing.
ForSession(u, c, kind) ==
    /\ use[u] = NoUse /\ toolCalls < MaxToolCalls /\ toolCalls' = toolCalls + 1
    /\ Shared \/ \A x \in Users : use[x].chat # c
    /\ LET swept == {registry[x] : x \in {y \in Chats : registry[y] # "none" /\ control[registry[y]].idle}} IN
         /\ registry' = [x \in Chats |-> IF registry[x] \in swept THEN "none" ELSE registry[x]]
         /\ browsers' = Swept(swept)
         /\ control' = [k \in Controllers |-> IF k \in swept THEN Closed(k) ELSE control[k]]
    /\ use' = [use EXCEPT ![u] = [NoUse EXCEPT !.at = "session", !.chat = c, !.kind = kind]]

\* The rest of forSession: a controller whose browser is not open is replaced,
\* and so is one that is being launched.
Controlled(u) ==
    /\ use[u].at = "session"
    /\ LET c == use[u].chat
           old == registry[c]
       IN \E k \in IF old # "none" /\ control[old].open THEN {old} ELSE New :
            /\ registry' = [registry EXCEPT ![c] = k]
            /\ control' = [control EXCEPT ![k].idle = FALSE]
            /\ use' = [use EXCEPT ![u].by = k, ![u].at = "begin"]
    /\ UNCHANGED <<browsers, toolCalls>>

\* closeSession.
CloseSession(u, c) ==
    /\ use[u] = NoUse /\ toolCalls < MaxToolCalls /\ toolCalls' = toolCalls + 1
    /\ Shared \/ \A x \in Users : use[x].chat # c
    /\ registry[c] # "none"
    /\ LET k == registry[c] IN
         /\ browsers' = Swept({k})
         /\ control' = [control EXCEPT ![k] = Closed(k)]
    /\ registry' = [registry EXCEPT ![c] = "none"]
    /\ UNCHANGED use

\* disposeAll, when the process exits: Chromium dies with its parent.

-----------------------------------------------------------------------------
(* The controller. *)

\* ensureBrowser, and requirePage of the calls that open nothing.
CallBegins(u) ==
    /\ use[u].at = "begin"
    /\ LET k == use[u].by IN
         \/ control[k].open /\ Goes(u, use[u].kind)
         \/ ~control[k].open /\ use[u].kind \in {"navigate", "openTab"} /\ Goes(u, "launch")
         \/ ~control[k].open /\ use[u].kind \notin {"navigate", "openTab"} /\ use' = [use EXCEPT ![u] = NoUse]
    /\ UNCHANGED <<registry, control, browsers, toolCalls>>

Launched(u) ==
    /\ use[u].at = "launch"
    /\ LET k == use[u].by IN
         /\ browsers' = [browsers EXCEPT ![k] = Append(@, {1})]
         /\ control' = [control EXCEPT ![k].open = TRUE, ![k].tab = 1, ![k].used = 1]
    /\ Goes(u, use[u].kind)
    /\ UNCHANGED <<registry, toolCalls>>

LaunchFails(u) ==
    /\ use[u].at = "launch"
    /\ use' = [use EXCEPT ![u] = NoUse]
    /\ UNCHANGED <<registry, control, browsers, toolCalls>>

\* navigate, snapshot, click, type, the keys, screenshot, listTabs and the like
\* work with the current tab.
PageUsed(u) ==
    /\ use[u].at = "navigate" \/ use[u].at = "read"
    /\ use' = [use EXCEPT ![u] = NoUse]
    /\ UNCHANGED <<registry, control, browsers, toolCalls>>

OpenTab(u) ==
    /\ use[u].at = "openTab"
    /\ LET k == use[u].by
           t == control[k].used + 1
       IN IF control[k].open /\ t <= MaxTabs
          THEN /\ browsers' = [browsers EXCEPT ![k][Current(k)] = @ \cup {t}]
               /\ control' = [control EXCEPT ![k].tab = t, ![k].used = t]
          ELSE UNCHANGED <<browsers, control>>
    /\ use' = [use EXCEPT ![u] = NoUse]
    /\ UNCHANGED <<registry, toolCalls>>

\* activateTab: the tab is current once it is in front.
ActivateTab(u) ==
    /\ use[u].at = "activateTab"
    /\ \/ \E t \in Tabs(use[u].by) : use' = [use EXCEPT ![u].at = "activated", ![u].tab = t]
       \/ use' = [use EXCEPT ![u] = NoUse]
    /\ UNCHANGED <<registry, control, browsers, toolCalls>>

TabActivated(u) ==
    /\ use[u].at = "activated"
    /\ control' = [control EXCEPT ![use[u].by].tab = use[u].tab]
    /\ use' = [use EXCEPT ![u] = NoUse]
    /\ UNCHANGED <<registry, browsers, toolCalls>>

\* closeTab: the first of the others is current before the tab closes.
Leave(tabs, t, now) == IF t # now THEN now ELSE Min(tabs \ {t})

CloseTab(u) ==
    /\ use[u].at = "closeTab"
    /\ LET k == use[u].by IN
         \/ \E t \in Tabs(k) :
              /\ Tabs(k) # {t}  \* the last one stays
              /\ control' = [control EXCEPT ![k].tab = Leave(Tabs(k), t, @)]
              /\ use' = [use EXCEPT ![u].at = "closing", ![u].tab = t]
         \/ use' = [use EXCEPT ![u] = NoUse] /\ UNCHANGED control
    /\ UNCHANGED <<registry, browsers, toolCalls>>

TabClosed(u) ==
    /\ use[u].at = "closing"
    /\ LET k == use[u].by IN
         browsers' = IF control[k].open
                     THEN [browsers EXCEPT ![k][Current(k)] = @ \ {use[u].tab}]
                     ELSE browsers
    /\ use' = [use EXCEPT ![u] = NoUse]
    /\ UNCHANGED <<registry, control, toolCalls>>

CallKinds == {"navigate", "read", "openTab", "activateTab", "closeTab"}
BrowserStep(u) ==
    \/ Controlled(u) \/ CallBegins(u) \/ Launched(u) \/ LaunchFails(u) \/ PageUsed(u)
    \/ OpenTab(u) \/ ActivateTab(u) \/ TabActivated(u) \/ CloseTab(u) \/ TabClosed(u)

Next ==
    \/ \E k \in Controllers : GrowsIdle(k)
    \/ \E u \in Users : BrowserStep(u)
    \/ \E u \in Users, c \in Chats : CloseSession(u, c) \/ \E kind \in CallKinds : ForSession(u, c, kind)

Spec == Init /\ [][Next]_browserVars

-----------------------------------------------------------------------------
(* Properties. *)

\* The registry and the controllers are what the code can make of them.
TypeOK ==
    /\ \A c \in Chats : registry[c] \in Controllers \cup {"none"}
    /\ \A k \in Controllers : control[k].open \in BOOLEAN /\ control[k].used \in 0..MaxTabs

\* A browser that runs can still be closed: its controller is the one the
\* registry has for a chat, and works with it.  It does not hold if two calls
\* work for one chat: forSession replaces a controller that is being launched.
BrowsersAreHeld ==
    \A k \in Controllers : \A i \in DOMAIN browsers[k] :
        browsers[k][i] # {} => i = Current(k) /\ control[k].open /\ \E c \in Chats : registry[c] = k

\* The current tab of an open browser is one of its tabs, and it always has one.
CurrentTabIsOpen ==
    \A k \in Controllers : control[k].open => control[k].tab \in Tabs(k)

=============================================================================
