------------------------------ MODULE Windows ------------------------------
(***************************************************************************)
(* Windows and events (ws/src: Platform.cxx, Delegate.cxx,                 *)
(* unix/WindowXCB.cxx, unix/EventXCB.cxx, unix/XCB.cxx) over an X server.  *)
(* The server queues events by itself; dispatch() hands them to the        *)
(* client's handlers, which may create and destroy windows, replace other  *)
(* handlers and dispatch again.  An event may thus be for a window that    *)
(* has no object any more, whose memory may be another window's by then.   *)
(***************************************************************************)
EXTENDS Integers, SequencesExt

CONSTANTS
  Addresses,   \* where window objects may be
  MaxWindows,  \* bound: windows created on the server
  EventTypes,  \* the types of events that the server sends
  KeyStates,   \* what is held down, as the server tells it: sets of Bits
  MaxQueue,    \* bound: events that wait
  MaxDispatch, \* bound: dispatch() within a handler within dispatch()
  Null

Bits == {"LOCK", "SHIFT", "CONTROL", "MOD_1", "BUTTON_1"}

ASSUME EventsAssumption ==
  /\ MaxWindows \in Nat /\ MaxQueue \in Nat /\ MaxDispatch \in Nat
  /\ KeyStates \subseteq SUBSET Bits
  /\ Null \notin Addresses
  /\ Null \notin [window : 1..MaxWindows, mapped : BOOLEAN]
VARIABLES
  display,   \* the environment names a display
  xcb,       \* the library is "unloaded", "loaded" or "connected"
  platform,  \* curPfm
  dispatchFn,
  fn,        \* the delegate's handlers that are not empty
  mask,      \* and what it says of them
  objects,   \* the window objects
  winMap,    \* the address that an id is mapped to
  windows,   \* what the server knows of each window; ids count from 1
  doomed,    \* requests to destroy a window that it did not get yet
  queue,     \* its events
  prevEvState, prevModMask,
  frames     \* dispatch() and the handlers being run, innermost last

platformVars == <<display, xcb, platform, dispatchFn>>
delegateVars == <<fn, mask>>
objectVars == <<objects, winMap>>
serverVars == <<windows, doomed>>
keyVars == <<prevEvState, prevModMask>>
wsVars == <<platformVars, delegateVars, objectVars, serverVars, queue, keyVars,
          frames>>

-----------------------------------------------------------------------------
(* Event types and the handlers for them; any other type has none.         *)

HandlerOf ==
  [KEY_PRESS |-> "KbKey", KEY_RELEASE |-> "KbKey",
   BUTTON_PRESS |-> "PtButton", BUTTON_RELEASE |-> "PtButton",
   MOTION_NOTIFY |-> "PtMotion", ENTER_NOTIFY |-> "PtEnter",
   LEAVE_NOTIFY |-> "PtLeave", FOCUS_IN |-> "KbEnter", FOCUS_OUT |-> "KbLeave",
   CONFIGURE_NOTIFY |-> "WdResize", CLIENT_MESSAGE |-> "WdClose"]

Flags == {HandlerOf[type] : type \in EventTypes \cap DOMAIN HandlerOf}
KeyTypes == {"KEY_PRESS", "KEY_RELEASE"}
GivenWindow ==
  {"WdClose", "WdResize", "KbEnter", "KbLeave", "PtEnter", "PtLeave"}

KeyMods ==
  [LOCK |-> "CapsLock", SHIFT |-> "Shift", CONTROL |-> "Ctrl", MOD_1 |-> "Alt"]
Mods(state) == {KeyMods[bit] : bit \in state \cap DOMAIN KeyMods}

Event(type, id, state, deletes) ==
  [type |-> type, window |-> id, state |-> state, deletes |-> deletes]
Configured(id) == Event("CONFIGURE_NOTIFY", id, {}, FALSE)

-----------------------------------------------------------------------------
(* The server: it carries out the requests in their order, those that are  *)
(* waited for at once and with them those before.                          *)

(* A window is "unknown", "hidden" or "shown".                             *)
Shown(shown) == IF shown THEN "shown" ELSE "hidden"

Synced == [id \in DOMAIN windows |->
             IF id \in doomed THEN "unknown" ELSE windows[id]]
Sync == windows' = Synced /\ doomed' = {}

CarryOut ==
  /\ doomed # {}
  /\ Sync
  /\ UNCHANGED <<platformVars, delegateVars, objectVars, queue, keyVars, frames>>

MayQueue == Len(queue) < MaxQueue

Arrive(type, id, state, deletes) ==
  /\ MayQueue
  /\ windows[id] = "shown"
  /\ queue' = Append(queue, Event(type, id, state, deletes))
  /\ UNCHANGED <<platformVars, delegateVars, objectVars, serverVars, keyVars,
                 frames>>

-----------------------------------------------------------------------------
WsInit ==
  /\ display \in BOOLEAN
  /\ xcb = "unloaded" /\ platform = "None" /\ dispatchFn = "dispatchDummy"
  /\ fn = {} /\ mask = {}
  /\ objects = [a \in Addresses |-> Null]
  /\ winMap = <<>>
  /\ windows = <<>> /\ doomed = {}
  /\ queue = <<>>
  /\ prevEvState = {} /\ prevModMask = {}
  /\ frames = <<>>

(* Else the client runs: nothing is dispatched, or a handler was called.   *)
Dispatching == frames # <<>> /\ Last(frames).kind = "dispatch"
ClientRuns == ~Dispatching

(* platform() and what it needs of initXCB, which returns at once if it is *)
(* connected.                                                              *)
HasPlatform == platform # "None" \/ display
InitXCB == xcb' = "connected" /\ platform' = "Xcb"

InitXCBThrows ==
  /\ ClientRuns /\ display /\ xcb # "connected"
  /\ xcb' \in {xcb, "loaded"}
  /\ UNCHANGED <<display, platform, dispatchFn, delegateVars, objectVars,
                 serverVars, queue, keyVars, frames>>

-----------------------------------------------------------------------------
(* Window objects.                                                         *)

MayCreate ==
  /\ ClientRuns /\ HasPlatform /\ InitXCB
  /\ Len(windows) < MaxWindows
  /\ UNCHANGED <<display, dispatchFn, delegateVars, queue, keyVars, frames>>

Added(map, id, a) ==
  [other \in DOMAIN map \cup {id} |-> IF other = id THEN a ELSE map[other]]

CreateWindow(a, shown) ==
  /\ MayCreate
  /\ objects[a] = Null
  /\ LET id == Len(windows) + 1
     IN  /\ windows' = Append(Synced, Shown(shown))
         /\ objects' = [objects EXCEPT ![a] = [window |-> id, mapped |-> shown]]
         /\ winMap' = Added(winMap, id, a)
  /\ doomed' = {}

CreateRefused ==
  /\ MayCreate
  /\ windows' = Append(Synced, "unknown")
  /\ doomed' = {}
  /\ UNCHANGED objectVars

(* Mutant of Undone: nothing is done about the window.                     *)
UndoneNever(id) == {}

(* A property cannot be set, or flushing fails, perhaps after the window   *)
(* was opened: it is destroyed.                                            *)
Undone(id) == {id}
CreateUndone(shown) ==
  /\ MayCreate
  /\ windows' = Append(Synced, Shown(shown))
  /\ doomed' = Undone(Len(windows) + 1)
  /\ UNCHANGED objectVars

(* The application's id or the title is too long, the title cannot be set, *)
(* open() throws or the flags are not implemented: the window stays.       *)
CreateLeaks ==
  /\ MayCreate
  /\ windows' = Append(Synced, "hidden")
  /\ doomed' = {}
  /\ UNCHANGED objectVars

Erased(id) == [other \in DOMAIN winMap \ {id} |-> winMap[other]]

(* ~WindowXCB: the request is not flushed.                                 *)
DestroyWindow(a) ==
  /\ ClientRuns
  /\ objects[a] # Null
  /\ winMap' = Erased(objects[a].window)
  /\ objects' = [objects EXCEPT ![a] = Null]
  /\ doomed' = doomed \cup {objects[a].window}
  /\ UNCHANGED <<platformVars, delegateVars, windows, queue, keyVars, frames>>

Requests(a) ==
  /\ ClientRuns
  /\ objects[a] # Null
  /\ doomed' = {}
  /\ UNCHANGED <<platformVars, delegateVars, winMap, keyVars, frames>>

Show(a, shown) ==
  /\ Requests(a)
  /\ objects' = [objects EXCEPT ![a].mapped = shown]
  /\ windows' = [Synced EXCEPT ![objects[a].window] = Shown(shown)]
  /\ UNCHANGED queue

Open(a) == objects[a] # Null /\ ~objects[a].mapped /\ Show(a, TRUE)
Close(a) == objects[a] # Null /\ objects[a].mapped /\ Show(a, FALSE)

(* setTitle, and any request that the server refuses.                      *)
SetTitle(a) ==
  /\ Requests(a)
  /\ windows' = Synced
  /\ UNCHANGED <<objects, queue>>

(* The server says so if the size is another one.  Every window can be     *)
(* resized: the constructor refuses others.                                *)
Resize(a) ==
  /\ Requests(a)
  /\ windows' = Synced
  /\ \/ MayQueue /\ queue' = Append(queue, Configured(objects[a].window))
     \/ UNCHANGED queue
  /\ UNCHANGED objects

-----------------------------------------------------------------------------
(* The delegate.                                                           *)

(* Mutant of Masked: taking a handler back leaves its flag.                *)
MaskedForGood(kind, given) == mask \cup {kind}

Masked(kind, given) == IF given THEN mask \cup {kind} ELSE mask \ {kind}

(* onWdClose and the others.  Replacing a handler destroys it, which the   *)
(* client does not do while it runs.                                       *)
On(kind, given) ==
  /\ ClientRuns
  /\ \A k \in DOMAIN frames : frames[k].kind # kind
  /\ fn' = IF given THEN fn \cup {kind} ELSE fn \ {kind}
  /\ mask' = Masked(kind, given)
  /\ UNCHANGED <<platformVars, objectVars, serverVars, queue, keyVars, frames>>

-----------------------------------------------------------------------------
(* dispatchXCB.                                                            *)

Frame(kind, window, mods) == [kind |-> kind, window |-> window, mods |-> mods]

Dispatch ==
  /\ ClientRuns /\ HasPlatform /\ InitXCB
  /\ Cardinality({k \in DOMAIN frames : frames[k].kind = "dispatch"}) < MaxDispatch
  /\ dispatchFn' = "dispatchXCB"
  /\ frames' = Append(frames, Frame("dispatch", Null, {}))
  /\ UNCHANGED <<display, delegateVars, objectVars, serverVars, queue, keyVars>>

DispatchReturns ==
  /\ Dispatching /\ queue = <<>>
  /\ frames' = Front(frames)
  /\ UNCHANGED <<platformVars, delegateVars, objectVars, serverVars, queue,
                 keyVars>>

FromId(id) == IF id \in DOMAIN winMap THEN winMap[id] ELSE Null

(* The modifiers of the last key event are kept for those that follow.     *)
ModMask(state) == IF state = prevEvState THEN prevModMask ELSE Mods(state)

Handled(event) ==
  /\ event.type \in DOMAIN HandlerOf
  /\ HandlerOf[event.type] \in mask
  /\ event.type = "CLIENT_MESSAGE" => event.deletes

Discard ==
  /\ Dispatching /\ queue # <<>> /\ ~Handled(Head(queue))
  /\ queue' = Tail(queue)
  /\ UNCHANGED <<platformVars, delegateVars, objectVars, serverVars, keyVars,
                 frames>>

CallHandler ==
  /\ Dispatching /\ queue # <<>> /\ Handled(Head(queue))
  /\ queue' = Tail(queue)
  /\ LET event == Head(queue)
         kind == HandlerOf[event.type]
         window == IF kind \in GivenWindow THEN FromId(event.window) ELSE Null
         mods == IF kind = "KbKey" THEN ModMask(event.state) ELSE {}
     IN  /\ frames' = Append(frames, Frame(kind, window, mods))
         /\ IF kind = "KbKey"
            THEN prevEvState' = event.state /\ prevModMask' = mods
            ELSE UNCHANGED keyVars
  /\ UNCHANGED <<platformVars, delegateVars, objectVars, serverVars>>

HandlerReturns ==
  /\ ClientRuns /\ frames # <<>>
  /\ frames' = Front(frames)
  /\ UNCHANGED <<platformVars, delegateVars, objectVars, serverVars, queue,
                 keyVars>>

(* An exception leaves dispatch() as well.                                 *)
HandlerThrows ==
  /\ ClientRuns /\ frames # <<>>
  /\ frames' = Front(Front(frames))
  /\ UNCHANGED <<platformVars, delegateVars, objectVars, serverVars, queue,
                 keyVars>>

-----------------------------------------------------------------------------
ClientCalls ==
  \/ InitXCBThrows \/ Dispatch
  \/ \E a \in Addresses, shown \in BOOLEAN : CreateWindow(a, shown)
  \/ \E shown \in BOOLEAN : CreateUndone(shown)
  \/ CreateLeaks \/ CreateRefused
  \/ \E a \in Addresses :
       DestroyWindow(a) \/ Open(a) \/ Close(a) \/ SetTitle(a) \/ Resize(a)
  \/ \E kind \in Flags, given \in BOOLEAN : On(kind, given)

WsNext ==
  \/ ClientCalls
  \/ DispatchReturns \/ Discard \/ CallHandler
  \/ HandlerReturns \/ HandlerThrows
  \/ CarryOut
  \/ \E id \in DOMAIN windows :
       \/ \E type \in EventTypes \cap KeyTypes, state \in KeyStates :
            Arrive(type, id, state, FALSE)
       \/ \E type \in EventTypes \ KeyTypes : Arrive(type, id, {}, FALSE)
       \/ Arrive("CLIENT_MESSAGE", id, {}, TRUE)

WsSpec == WsInit /\ [][WsNext]_wsVars

-----------------------------------------------------------------------------
Owns(a, id) == objects[a] # Null /\ objects[a].window = id
OwnerOf(id) ==
  IF \E a \in Addresses : Owns(a, id)
  THEN CHOOSE a \in Addresses : Owns(a, id) ELSE Null

(* WindowXCB: ids are mapped to the objects that have them and to nothing  *)
(* else; an object's window exists and is shown if the object says so; and *)
(* no window is shown that nobody can close, whatever constructors threw.  *)
WindowsOwned ==
  /\ \A id \in DOMAIN windows : FromId(id) = OwnerOf(id)
  /\ \A a \in Addresses : objects[a] # Null =>
       /\ windows[objects[a].window] = Shown(objects[a].mapped)
       /\ objects[a].window \notin doomed
  /\ \A id \in DOMAIN windows :
       windows[id] = "shown" => id \in doomed \/ OwnerOf(id) # Null

(* dispatchXCB: a handler that is called is one that the client gave and   *)
(* did not take back, and gets the window that the event is for, or none   *)
(* if it was destroyed since, and the modifiers of this event, whatever    *)
(* handlers did since the event was queued.                                *)
Called == Len(frames') > Len(frames) /\ Last(frames').kind # "dispatch"
CallsRight ==
  [][Called =>
       LET event == Head(queue)
           call == Last(frames')
       IN  /\ call.kind = HandlerOf[event.type] /\ call.kind \in fn
           /\ call.kind \in GivenWindow => call.window = OwnerOf(event.window)
           /\ call.kind = "KbKey" => call.mods = Mods(event.state)]_wsVars
=============================================================================
