----------------------------- MODULE DeskProofs -----------------------------
(***************************************************************************)
(* Proofs about Desk and its Panel, for any columns, commands, profiles,   *)
(* streams, signals, bounds and files, and however window and engine       *)
(* interleave:                                                             *)
(*                                                                         *)
(*   - the panel's marks are true, what is typed in Live mode reaches the  *)
(*     device, and no faster than it may;                                  *)
(*   - the next run of the application shows what this one does;           *)
(*   - once nothing is under way, the window looks at the engine's own     *)
(*     stores, the periods in force are the user's, and the marks are      *)
(*     those of this session.                                              *)
(*                                                                         *)
(* The invariant is in four parts, each kept by itself: PanelInv, ViewInv, *)
(* QueueInv (what the queued calls will make of the engine), MarksInv.     *)
(***************************************************************************)
EXTENDS Desk, SequenceTheorems, TLAPS

----------------------------------------------------------------------------
(* The invariant. *)

\* What the panel's variables hold.
Maps == UNION {[N -> [Cells -> Numbers]] : N \in SUBSET Names}
Kept == [values : {None} \cup [Cells -> Numbers], presets : Maps, live : BOOLEAN]
PanelTypes ==
    /\ values \in [Cells -> Numbers] /\ sent \in [Cells -> Numbers \cup {None}]
    /\ drag # None => drag \in [param : Params, from : [Columns -> Numbers]]
    /\ live \in BOOLEAN /\ timers \in [Columns -> Nat \cup {None}]
    /\ lastLive \in [Columns -> Nat] /\ sinceEdit \in [Columns -> Nat]
    /\ presets \in Maps /\ scope \in Scopes /\ kept \in [Scopes -> Kept]
    /\ DOMAIN device = Cells /\ DOMAIN told = Cells

\* The marks are those of what was sent, and the device has what it was told last.
Known ==
    /\ marked = Edited(values, sent)
    /\ \A x \in Cells :
        /\ told[x] = "no" => sent[x] = None
        /\ told[x] = "panel" => sent[x] # None /\ device[x] = sent[x]

\* The device has what is typed in the column, and was told by the panel.
IsSent(c) ==
    \A p \in Params : <<c, p>> \in Fields[LiveButton[c]] =>
        told[<<c, p>>] = "panel" /\ device[<<c, p>>] = values[<<c, p>>]
\* A timer runs in Live mode only, no shorter than what is left of the pause after
\* the last edit; without one, and not excused, the column is sent.
Timed ==
    /\ ~live => Columns \subseteq excused
    /\ \A c \in Columns :
        timers[c] # None =>
          live /\ LiveButton[c] # None /\ sinceEdit[c] + timers[c] >= Debounce
    /\ \A c \in Columns \ excused :
        live /\ timers[c] = None /\ LiveButton[c] # None => IsSent(c)
PanelInv == PanelTypes /\ Known /\ Timed

\* What the window shows of the profile is what is remembered of it.
Panes == [left : BOOLEAN, right : BOOLEAN, view : Views]
ViewTypes ==
    /\ files \in [Scopes -> Documents] /\ profile \in Scopes /\ scope = profile
    /\ shown \in StreamNames \cup {None} /\ panes \in Panes
    /\ DOMAIN views = Scopes
    /\ \A s \in Scopes :
        /\ DOMAIN views[s] = {"stream", "visible", "lane", "panes", "ending"}
        /\ DOMAIN views[s].visible = StreamNames /\ DOMAIN views[s].lane = StreamNames
        /\ views[s].panes \in Panes \cup {None}
    /\ DOMAIN listed = {"visible", "lane", "lanes"} /\ DOMAIN plotted = {"visible", "lane", "lanes"}
ViewInv == ViewTypes /\ RestartShowsTheSame

\* What the engine is asked, and what it tells.
Calls ==
    [do : {"start", "stop"}] \cup [do : {"select", "scale"}, key : StreamNames]
    \cup [do : {"configure"}, keys : SUBSET StreamNames]
Events == {"running", "stopped", "failed", "configured"}
\* The last call of a kind; a queue without any; what is not about to be told; a
\* period set after a call.
LastOf(cs, do, i) ==
    i \in 1..Len(cs) /\ cs[i].do = do /\ \A j \in (i + 1)..Len(cs) : cs[j].do # do
Without(cs, do) == \A i \in 1..Len(cs) : cs[i].do # do
Silent(es, e) == \A i \in 1..Len(es) : es[i] # e
NotTold(e) == Silent(events, e)
Scales(cs, i, k) == \E j \in (i + 1)..Len(cs) : cs[j].do = "scale" /\ cs[j].key = k

\* From now on, the queue leads to the stores of keys, to stream k, and to the periods
\* the user set: the last configuration in it, the last selection, and the periods set
\* after that configuration decide.
StoresFrom(cs, now, keys) ==
    /\ \A i \in 1..Len(cs) : LastOf(cs, "configure", i) => cs[i].keys = keys
    /\ Without(cs, "configure") => now = keys
StreamFrom(cs, now, k) ==
    /\ \A i \in 1..Len(cs) : LastOf(cs, "select", i) => cs[i].key = k
    /\ Without(cs, "select") => now = k
PeriodsFrom(cs, now, set, periods) ==
    /\ \A i \in 1..Len(cs) : LastOf(cs, "configure", i) => \A k \in StreamNames :
          k \in periods <=> Scales(cs, i, k)
    /\ Without(cs, "configure") => \A k \in now :
          k \in periods <=> k \in set \/ Scales(cs, 0, k)
\* The three at once.
QueueOf(cs, now, keys, act, k, set, periods) ==
    /\ StoresFrom(cs, now, keys)
    /\ k # None => StreamFrom(cs, act, k)
    /\ PeriodsFrom(cs, now, set, periods)

\* With no configuration on its way, the live feed and the trigger are at the stream's
\* store.
FeedComing ==
    Without(calls, "configure") /\ NotTold("configured") => feed = Store(shown) /\ watched = feed
QueueTypes ==
    /\ calls \in Seq(Calls) /\ events \in Seq(Events)
    /\ stores \subseteq StreamNames /\ scaled \subseteq stores /\ generation \in Nat /\ session \in Nat
QueueInv ==
    /\ QueueTypes /\ FeedComing
    /\ QueueOf(calls, stores, ToSet(files[profile]), active, shown, scaled, override)
\* With no start of a session on its way, every mark is of this session.
Marks(n) == [session : {n}, store : Nat \X StreamNames]
MarksInv ==
    /\ NotTold("running") => \A k \in DOMAIN markers : markers[k] \in Seq(Marks(session))
    /\ shown # None => drawn = MarkersOf(markers, shown)
    /\ button \in BOOLEAN
    /\ button <=> mode = "ANALYSIS"
    /\ mode = "LIVE" => overlays = {} /\ packet = None

----------------------------------------------------------------------------
(* The panel keeps its part. *)

\* Nothing of the panel is touched.
LEMMA PanelStays ==
  ASSUME PanelInv, UNCHANGED pvars
  PROVE  PanelInv'
BY DEF PanelInv, PanelTypes, Known, Timed, IsSent, Edited, pvars, valueVars, liveVars, presetVars, sendVars, keptVars

\* Cells are changed, by whatever means: _notify.
LEMMA NotifyTypes ==
  ASSUME PanelTypes, NEW v \in [Cells -> Numbers], NEW cols, Notify(v, cols),
         UNCHANGED <<drag, presets>>
  PROVE  PanelTypes'
<1>1. values' \in [Cells -> Numbers]
  BY DEF Notify
<1>2. kept' \in [Scopes -> Kept]
  BY DEF PanelTypes, Notify, KeepValues, Kept
<1>3. timers' \in [Columns -> Nat \cup {None}]
  BY PanelAssumption DEF PanelTypes, Notify, Scheduled
<1>4. sinceEdit' \in [Columns -> Nat]
  BY DEF PanelTypes, Notify
<1> QED
  BY <1>1, <1>2, <1>3, <1>4 DEF PanelTypes, Notify, sendVars

\* It keeps the invariant if the columns told are those that changed.
LEMMA Notified ==
  ASSUME PanelInv, NEW v \in [Cells -> Numbers], NEW cols, Notify(v, cols),
         Changed(v) \subseteq cols, UNCHANGED <<drag, presets>>
  PROVE  PanelInv'
<1> USE DEF PanelInv
<1>1. PanelTypes'
  BY NotifyTypes
<1>2. Known'
  BY DEF Known, Notify, sendVars
<1>3. live' = live /\ sent' = sent /\ told' = told /\ device' = device /\ values' = v
  BY DEF Notify, sendVars
<1>4. ~live' => Columns \subseteq excused'
  BY <1>3 DEF Timed, Notify
<1>5. ASSUME NEW c \in Columns, timers'[c] # None
      PROVE  live' /\ LiveButton[c] # None /\ sinceEdit'[c] + timers'[c] >= Debounce
  <2>1. CASE live /\ c \in cols /\ LiveButton[c] # None
    <3>1. timers'[c] = Debounce /\ sinceEdit'[c] \in Nat
      BY <2>1, <1>1 DEF Notify, Scheduled, PanelTypes
    <3>2. Debounce \in Nat
      BY PanelAssumption
    <3>3. PICK n \in Nat : sinceEdit'[c] = n
      BY <3>1
    <3>5. n + Debounce >= Debounce
      BY <3>2
    <3>4. sinceEdit'[c] + timers'[c] >= Debounce
      BY <3>1, <3>3, <3>5
    <3> QED
      BY <3>4, <2>1, <1>3
  <2>2. CASE ~(live /\ c \in cols /\ LiveButton[c] # None)
    <3>1. timers'[c] = timers[c]
      BY <2>2 DEF Notify, Scheduled
    <3>2. live /\ LiveButton[c] # None /\ sinceEdit[c] + timers[c] >= Debounce
      BY <3>1, <1>5 DEF Timed
    <3>3. c \notin Changed(v)
      BY <2>2, <3>2
    <3>4. sinceEdit'[c] = sinceEdit[c]
      BY <3>3 DEF Notify
    <3> QED
      BY <3>1, <3>2, <3>4, <1>3
  <2> QED
    BY <2>1, <2>2
<1>6. ASSUME NEW c \in Columns \ excused', live', timers'[c] = None, LiveButton[c] # None
      PROVE  IsSent(c)'
  <2>1. c \notin cols
    BY <1>3, <1>6, PanelAssumption DEF Notify, Scheduled
  <2>2. c \notin Changed(v) /\ c \notin excused /\ timers[c] = None
    BY <2>1, <1>3, <1>6 DEF Notify, Scheduled
  <2>3. IsSent(c)
    BY <2>2, <1>3, <1>6 DEF Timed
  <2>4. \A p \in Params : v[<<c, p>>] = values[<<c, p>>]
    BY <2>2 DEF Changed
  <2> QED
    BY <2>3, <2>4, <1>3 DEF IsSent
<1> QED
  BY <1>1, <1>2, <1>4, <1>5, <1>6 DEF Timed

\* An edit changes the columns it is due in.
LEMMA Written1 ==
  ASSUME values \in [Cells -> Numbers], NEW c \in Columns, NEW p \in Params, NEW n \in Numbers
  PROVE  /\ Written(values, Followers(c, p), p, n) \in [Cells -> Numbers]
         /\ Changed(Written(values, Followers(c, p), p, n)) \subseteq Due(c, p)
<1>1. Written(values, Followers(c, p), p, n) \in [Cells -> Numbers]
  BY DEF Written
<1>2. \A d \in Columns \ Followers(c, p), q \in Params :
        Written(values, Followers(c, p), p, n)[<<d, q>>] = values[<<d, q>>]
  BY DEF Written, Cells
<1> QED
  BY <1>1, <1>2 DEF Changed, Due

\* Each of the user's actions at the panel.
LEMMA EditKeeps ==
  ASSUME PanelInv, NEW c \in Columns, NEW p \in Params, NEW n \in Numbers, Edit(c, p, n)
  PROVE  PanelInv'
<1>1. values \in [Cells -> Numbers]
  BY DEF PanelInv, PanelTypes
<1> QED
  BY <1>1, Written1, Notified DEF Edit, presetVars

\* What a drag moves stays in the range.
LEMMA ClampedInRange ==
  ASSUME NEW n \in Int
  PROVE  Clamped(n) \in Numbers
BY PanelAssumption DEF Clamped, Numbers

LEMMA MovedInRange ==
  ASSUME PanelTypes, drag # None, NEW d \in Steps
  PROVE  Moved(drag.param, d) \in [Cells -> Numbers]
<1> DEFINE p == drag.param
<1>1. drag.from \in [Columns -> Numbers]
  BY DEF PanelTypes
<1>2. \A c \in Columns : drag.from[c] + d \in Int
  BY <1>1 DEF Numbers, Steps
<1>3. \A x \in Cells : Clamped(drag.from[IF p \in linked THEN First ELSE x[1]] + d) \in Numbers
  BY <1>2, ClampedInRange, PanelAssumption DEF Cells
<1> QED
  BY <1>3 DEF Moved, PanelTypes

LEMMA DragKeeps ==
  ASSUME PanelInv, NEW d \in Steps, Drag(d)
  PROVE  PanelInv'
<1> DEFINE p == drag.param
           v == Moved(p, d)
           cols == UNION {Due(c, p) : c \in Turned(p, v)}
<1>1. v \in [Cells -> Numbers]
  BY MovedInRange DEF Drag, PanelInv
<1>2. Turned(p, v) # {} /\ Notify(v, cols) /\ UNCHANGED <<drag, presets>>
  BY DEF Drag, presetVars
<1>3. Changed(v) \subseteq cols
  <2>1. CASE p \in linked
    <3>1. Due(First, p) = Columns /\ Turned(p, v) = {First}
      BY <2>1, <1>2, PanelAssumption DEF Due, Followers, Turned
    <3> QED
      BY <3>1 DEF Changed
  <2>2. CASE p \notin linked
    <3>1. ASSUME NEW c \in Columns, NEW q \in Params, v[<<c, q>>] # values[<<c, q>>]
          PROVE  q = p
      BY <3>1 DEF Moved, Cells, PanelInv, PanelTypes
    <3>2. \A c \in Changed(v) : c \in Turned(p, v) /\ c \in Due(c, p)
      BY <3>1, <2>2 DEF Changed, Turned, Due, Followers
    <3> QED
      BY <3>2
  <2> QED
    BY <2>1, <2>2
<1> HIDE DEF v, cols
<1> QED
  BY <1>1, <1>2, <1>3, Notified

LEMMA LinkAllKeeps ==
  ASSUME PanelInv, LinkAll
  PROVE  PanelInv'
<1> DEFINE v == [x \in Cells |-> values[<<First, x[2]>>]]
<1>1. v \in [Cells -> Numbers]
  BY PanelAssumption DEF PanelInv, PanelTypes, Cells
<1>2. Changed(v) \subseteq Columns
  BY DEF Changed
<1>3. Notify(v, Columns) /\ UNCHANGED <<drag, presets>>
  BY DEF LinkAll, presetVars
<1> HIDE DEF v
<1> QED
  BY <1>1, <1>2, <1>3, Notified

LEMMA ApplyPresetKeeps ==
  ASSUME PanelInv, NEW n \in Names, ApplyPreset(n)
  PROVE  PanelInv'
<1>1. presets[n] \in [Cells -> Numbers]
  BY DEF PanelInv, PanelTypes, Maps, ApplyPreset
<1>2. Changed(presets[n]) \subseteq Columns
  BY DEF Changed
<1> QED
  BY <1>1, <1>2, Notified DEF ApplyPreset

\* What is noted of the panel itself, and not of what it sends.
LEMMA QuietKeeps ==
  ASSUME PanelInv,
         UNCHANGED <<values, marked, live, timers, lastLive, sendVars, sinceEdit, excused, scope>>,
         presets' \in Maps, kept' \in [Scopes -> Kept],
         drag' # None => drag' \in [param : Params, from : [Columns -> Numbers]]
  PROVE  PanelInv'
<1>1. PanelTypes'
  BY DEF PanelInv, PanelTypes, sendVars
<1>2. Known' /\ Timed'
  BY DEF PanelInv, Known, Timed, IsSent, Edited, sendVars
<1> QED
  BY <1>1, <1>2 DEF PanelInv

LEMMA PressKeeps ==
  ASSUME PanelInv, NEW p \in Params, Press(p)
  PROVE  PanelInv'
<1>1. drag' \in [param : Params, from : [Columns -> Numbers]]
  BY DEF Press, PanelInv, PanelTypes, Cells
<1>2. presets \in Maps /\ kept \in [Scopes -> Kept]
  BY DEF PanelInv, PanelTypes
<1> QED
  BY <1>1, <1>2, QuietKeeps DEF Press, liveVars, presetVars, keptVars

\* The links between columns, and the end of a drag.
LEMMA LinksKeep ==
  ASSUME PanelInv, Let \/ UnlinkAll \/ \E p \in Params : LinkRow(p)
  PROVE  PanelInv'
<1>1. presets \in Maps /\ kept \in [Scopes -> Kept]
  BY DEF PanelInv, PanelTypes
<1>2. drag # None => drag \in [param : Params, from : [Columns -> Numbers]]
  BY DEF PanelInv, PanelTypes
<1> QED
  BY <1>1, <1>2, QuietKeeps DEF Let, UnlinkAll, LinkRow, liveVars, presetVars, keptVars

LEMMA PresetsKeep ==
  ASSUME PanelInv, NEW n \in Names, SavePreset(n) \/ DeletePreset(n)
  PROVE  PanelInv'
<1>1. presets' \in Maps
  <2>1. PICK N \in SUBSET Names : presets \in [N -> [Cells -> Numbers]]
    BY DEF PanelInv, PanelTypes, Maps
  <2>2. values \in [Cells -> Numbers]
    BY DEF PanelInv, PanelTypes
  <2>3. CASE SavePreset(n)
    <3>1. presets' \in [N \cup {n} -> [Cells -> Numbers]]
      BY <2>1, <2>2, <2>3 DEF SavePreset
    <3> QED
      BY <3>1 DEF Maps
  <2>4. CASE DeletePreset(n)
    <3>1. presets' \in [N \ {n} -> [Cells -> Numbers]]
      BY <2>1, <2>4 DEF DeletePreset
    <3> QED
      BY <3>1 DEF Maps
  <2> QED
    BY <2>3, <2>4
<1>2. kept' \in [Scopes -> Kept]
  BY <1>1 DEF PanelInv, PanelTypes, SavePreset, DeletePreset, KeepPresets, Kept
<1>3. drag' # None => drag' \in [param : Params, from : [Columns -> Numbers]]
  BY DEF PanelInv, PanelTypes, SavePreset, DeletePreset, valueVars
<1> QED
  BY <1>1, <1>2, <1>3, QuietKeeps DEF SavePreset, DeletePreset, valueVars, liveVars

LEMMA RevertKeeps ==
  ASSUME PanelInv, Revert
  PROVE  PanelInv'
<1>1. Reverted \in [Cells -> Numbers]
  BY DEF Reverted, PanelInv, PanelTypes
<1>2. PanelTypes'
  <2>1. kept' \in [Scopes -> Kept]
    BY <1>1 DEF PanelInv, PanelTypes, Revert, KeepValues, Kept
  <2> QED
    BY <1>1, <2>1 DEF PanelInv, PanelTypes, Revert, liveVars, presetVars, sendVars
<1>3. Known'
  BY DEF PanelInv, Known, Revert, sendVars
<1>4. Timed'
  <2>1. UNCHANGED <<live, timers, lastLive, sinceEdit, excused, told, device>> /\ values' = Reverted
    BY DEF Revert, liveVars, sendVars
  <2>2. ASSUME NEW c \in Columns, IsSent(c)
        PROVE  IsSent(c)'
    <3>1. ASSUME NEW p \in Params, <<c, p>> \in Fields[LiveButton[c]]
          PROVE  told[<<c, p>>] = "panel" /\ device[<<c, p>>] = Reverted[<<c, p>>]
      <4>1. <<c, p>> \in Cells
        BY DEF Cells
      <4> QED
        BY <4>1, <3>1, <2>2 DEF IsSent, Reverted, PanelInv, Known
    <3> QED
      BY <3>1, <2>1 DEF IsSent
  <2> QED
    BY <2>1, <2>2 DEF PanelInv, Timed
<1> QED
  BY <1>2, <1>3, <1>4 DEF PanelInv

LEMMA ToggleLiveKeeps ==
  ASSUME PanelInv, ToggleLive
  PROVE  PanelInv'
<1>1. UNCHANGED <<values, marked, drag, presets, sent, told, device, lastLive, sinceEdit, scope>>
  BY DEF ToggleLive, valueVars, presetVars, sendVars
<1>2. PanelTypes'
  <2>1. kept' \in [Scopes -> Kept] /\ live' \in BOOLEAN
    BY DEF PanelInv, PanelTypes, ToggleLive, KeepLive, Kept
  <2>2. timers' \in [Columns -> Nat \cup {None}]
    BY DEF PanelInv, PanelTypes, ToggleLive
  <2> QED
    BY <1>1, <2>1, <2>2 DEF PanelInv, PanelTypes
<1>3. Known'
  BY <1>1 DEF PanelInv, Known, Edited
<1>4. CASE live
  <2>1. ~live' /\ excused' = Columns /\ \A c \in Columns : timers'[c] = None
    BY <1>4 DEF ToggleLive
  <2>2. Timed'
    BY <2>1 DEF Timed
  <2> QED
    BY <2>2, <1>2, <1>3 DEF PanelInv
<1>5. CASE ~live
  <2>1. live' /\ UNCHANGED <<timers, excused>> /\ Columns \subseteq excused
    BY <1>5 DEF ToggleLive, PanelInv, PanelTypes, Timed
  <2>2. Timed'
    BY <2>1, <1>1, <1>5 DEF Timed, PanelInv
  <2> QED
    BY <2>2, <1>2, <1>3 DEF PanelInv
<1> QED
  BY <1>4, <1>5

\* A button is pressed: by the user, or by a column's timer.
LEMMA SentTypes ==
  ASSUME PanelTypes, NEW b \in Buttons, SendNow(b)
  PROVE  /\ sent' \in [Cells -> Numbers \cup {None}]
         /\ DOMAIN device' = Cells /\ DOMAIN told' = Cells
BY DEF PanelTypes, SendNow, Transmit

\* What was sent, the device has.
LEMMA SentKnown ==
  ASSUME PanelTypes, Known, NEW b \in Buttons, SendNow(b), values' = values
  PROVE  Known'
<1>1. DOMAIN Fixed[b] \subseteq Cells \ Fields[b] /\ None \notin Numbers
  BY PanelAssumption DEF Numbers
<1>2. ASSUME NEW x \in Cells
      PROVE  /\ told'[x] = "no" => sent'[x] = None
             /\ told'[x] = "panel" => sent'[x] # None /\ device'[x] = sent'[x]
  <2>1. CASE x \in Fields[b]
    <3>1. told'[x] = "panel" /\ sent'[x] = values[x] /\ device'[x] = values[x]
      BY <2>1 DEF SendNow, Transmit, Packet, Carried
    <3> QED
      BY <3>1, <1>1 DEF PanelTypes
  <2>2. CASE x \in DOMAIN Fixed[b]
    <3>1. told'[x] = "else"
      BY <2>2, <1>1 DEF SendNow, Transmit, Packet
    <3> QED
      BY <3>1
  <2>3. CASE x \notin Fields[b] /\ x \notin DOMAIN Fixed[b]
    <3>1. told'[x] = told[x] /\ sent'[x] = sent[x] /\ device'[x] = device[x]
      BY <2>3 DEF SendNow, Transmit, Packet, Carried
    <3> QED
      BY <3>1 DEF Known
  <2> QED
    BY <2>1, <2>2, <2>3
<1> QED
  BY <1>2 DEF SendNow, Known

\* A send leaves what the device has of the other columns, or brings it the values.
LEMMA SendLeavesSent ==
  ASSUME NEW b \in Buttons, SendNow(b), values' = values,
         NEW c \in Columns \ Overwritten(DOMAIN Fixed[b]), IsSent(c)
  PROVE  IsSent(c)'
<1> SUFFICES ASSUME NEW p \in Params, <<c, p>> \in Fields[LiveButton[c]]
             PROVE  told'[<<c, p>>] = "panel" /\ device'[<<c, p>>] = values[<<c, p>>]
  BY DEF IsSent
<1> DEFINE x == <<c, p>>
<1>1. x \in Cells /\ x[1] = c
  BY DEF Cells
<1>2. x \notin DOMAIN Fixed[b]
  BY <1>1 DEF Overwritten
<1>3. CASE x \in Fields[b]
  BY <1>3, <1>1 DEF SendNow, Transmit, Packet
<1>4. CASE x \notin Fields[b]
  <2>1. told'[x] = told[x] /\ device'[x] = device[x]
    BY <1>1, <1>2, <1>4 DEF SendNow, Transmit, Packet
  <2> QED
    BY <2>1 DEF IsSent
<1> QED
  BY <1>3, <1>4

\* A command is sent by hand, or a packet is sent again.
LEMMA SendKeeps ==
  ASSUME PanelInv, NEW b \in Buttons, Send(b)
  PROVE  PanelInv'
<1>1. UNCHANGED <<values, drag, live, timers, lastLive, presets, scope, kept, sinceEdit>>
  BY DEF Send, liveVars, presetVars, keptVars
<1>2. CASE running /\ Fits(b) /\ SendNow(b)
  <2>1. excused' = excused \cup Overwritten(DOMAIN Fixed[b])
    BY <1>2 DEF Send
  <2>2. PanelTypes'
    BY <1>1, <1>2, SentTypes DEF PanelInv, PanelTypes
  <2>3. Known'
    BY <1>1, <1>2, SentKnown DEF PanelInv
  <2>4. Timed'
    BY <1>1, <1>2, <2>1, SendLeavesSent DEF PanelInv, Timed
  <2> QED
    BY <2>2, <2>3, <2>4 DEF PanelInv
<1>3. CASE Refuse(b, FALSE)
  <2>1. UNCHANGED <<marked, sent, device, told, excused>>
    BY <1>3 DEF Send, Refuse
  <2> QED
    BY <2>1, <1>1 DEF PanelInv, PanelTypes, Known, Timed, IsSent, Edited
<1> QED
  BY <1>2, <1>3 DEF Send, SendCommand, SendNow

LEMMA ResendKeeps ==
  ASSUME PanelInv, NEW i \in DOMAIN log, Resend(i)
  PROVE  PanelInv'
<1>1. UNCHANGED <<values, marked, sent, drag, live, timers, lastLive, presets, scope, kept, sinceEdit>>
  BY DEF Resend, valueVars, liveVars, presetVars, keptVars
<1> DEFINE row == log[i]
<1>7. /\ device' = [x \in Cells |-> IF x \in DOMAIN row THEN row[x] ELSE device[x]]
      /\ told' = [x \in Cells |-> IF x \in DOMAIN row THEN "else" ELSE told[x]]
  BY DEF Resend, Transmit
<1> HIDE DEF row
<1>2. /\ DOMAIN device' = Cells /\ DOMAIN told' = Cells
      /\ \A x \in Cells : told'[x] # "else" => told'[x] = told[x] /\ device'[x] = device[x]
  <2>1. DOMAIN device' = Cells /\ DOMAIN told' = Cells
    BY <1>7
  <2>2. ASSUME NEW x \in Cells
        PROVE  told'[x] # "else" => told'[x] = told[x] /\ device'[x] = device[x]
    <3>0. told'[x] = IF x \in DOMAIN row THEN "else" ELSE told[x]
      BY <1>7
    <3>1. CASE x \in DOMAIN row
      BY <3>0, <3>1
    <3>2. CASE x \notin DOMAIN row
      BY <1>7, <3>0, <3>2
    <3> QED
      BY <3>1, <3>2
  <2> QED
    BY <2>1, <2>2
<1>3. PanelTypes'
  BY <1>1, <1>2 DEF PanelInv, PanelTypes
<1>4. Known'
  BY <1>1, <1>2 DEF PanelInv, Known, Edited
<1>5. ASSUME NEW c \in Columns \ excused', IsSent(c)
      PROVE  IsSent(c)'
  <2>1. ASSUME NEW p \in Params
        PROVE  told'[<<c, p>>] = told[<<c, p>>] /\ device'[<<c, p>>] = device[<<c, p>>]
    <3>1. <<c, p>> \in Cells /\ <<c, p>> \notin DOMAIN log[i]
      BY <1>5 DEF Resend, Overwritten, Cells
    <3> QED
      BY <3>1 DEF Resend, Transmit
  <2> QED
    BY <2>1, <1>1, <1>5 DEF IsSent
<1>6. Timed'
  BY <1>1, <1>5 DEF PanelInv, Timed, Resend
<1> QED
  BY <1>3, <1>4, <1>6 DEF PanelInv

\* The timer of a column runs out: it waits, sends, or is refused.
LEMMA WaitIsNat ==
  ASSUME NEW c \in Columns, lastLive \in [Columns -> Nat]
  PROVE  Wait(c) \in Nat /\ (Wait(c) <= 0 => lastLive[c] >= MinInterval)
<1>1. MinInterval \in Nat /\ lastLive[c] \in Nat
  BY PanelAssumption
<1> QED
  BY <1>1 DEF Wait

LEMMA FireKeeps ==
  ASSUME PanelInv, NEW c \in Columns, Fire(c)
  PROVE  PanelInv'
<1>1. UNCHANGED <<live, values, drag, presets, scope, kept, sinceEdit>>
  BY DEF Fire, presetVars, keptVars
<1>2. /\ timers[c] = 0 /\ timers[c] # None /\ None \notin Nat /\ None # 0
      /\ timers \in [Columns -> Nat \cup {None}] /\ lastLive \in [Columns -> Nat]
  BY PanelAssumption DEF Fire, PanelInv, PanelTypes
<1>3. live /\ LiveButton[c] \in Buttons /\ LiveButton[c] # None
  BY <1>2, PanelAssumption DEF PanelInv, Timed
<1>4. CASE Wait(c) > 0
  <2>1. timers' = [timers EXCEPT ![c] = Wait(c)] /\ UNCHANGED <<lastLive, marked, sent, device, told, excused>>
    BY <1>4 DEF Fire, sendVars
  <2>2. Wait(c) \in Nat
    BY <1>2, WaitIsNat
  <2>3. PanelTypes' /\ Known'
    BY <1>1, <1>2, <2>1, <2>2 DEF PanelInv, PanelTypes, Known, Edited
  <2>4. timers'[c] # None /\ timers'[c] = Wait(c) /\ \A d \in Columns : d # c => timers'[d] = timers[d]
    BY <1>2, <2>1, <2>2
  <2>5. sinceEdit'[c] + timers'[c] >= Debounce
    <3>1. sinceEdit[c] \in Nat /\ Debounce \in Nat
      BY PanelAssumption DEF PanelInv, PanelTypes
    <3>2. sinceEdit[c] + 0 >= Debounce
      BY <1>2 DEF PanelInv, Timed
    <3>3. sinceEdit[c] + Wait(c) >= Debounce
      BY <3>1, <3>2, <2>2
    <3> QED
      BY <3>3, <2>4, <1>1
  <2>6. Timed'
    <3>1. ASSUME NEW d \in Columns, timers'[d] # None
          PROVE  live' /\ LiveButton[d] # None /\ sinceEdit'[d] + timers'[d] >= Debounce
      BY <3>1, <2>4, <2>5, <1>1, <1>3 DEF PanelInv, Timed
    <3>2. ASSUME NEW d \in Columns \ excused', timers'[d] = None, LiveButton[d] # None, live'
          PROVE  IsSent(d)'
      BY <3>2, <2>4, <2>1, <1>1 DEF PanelInv, Timed, IsSent
    <3> QED
      BY <3>1, <3>2, <1>1, <1>3 DEF Timed
  <2> QED
    BY <2>3, <2>6 DEF PanelInv
<1>5. CASE ~(Wait(c) > 0)
  <2> DEFINE b == LiveButton[c]
  <2>1. /\ timers' = [timers EXCEPT ![c] = None] /\ lastLive' = [lastLive EXCEPT ![c] = 0]
        /\ SendCommand(b, TRUE)
        /\ excused' = IF running /\ Fits(b) THEN excused \cup Overwritten(DOMAIN Fixed[b])
                      ELSE excused \cup {c}
    BY <1>5 DEF Fire
  <2>2. /\ timers' \in [Columns -> Nat \cup {None}] /\ lastLive' \in [Columns -> Nat]
        /\ timers'[c] = None /\ \A d \in Columns : d # c => timers'[d] = timers[d]
    BY <1>2, <2>1
  <2>3. ASSUME NEW d \in Columns, timers'[d] # None
        PROVE  live' /\ LiveButton[d] # None /\ sinceEdit'[d] + timers'[d] >= Debounce
    BY <2>3, <2>2, <1>1 DEF PanelInv, Timed
  <2>4. CASE running /\ Fits(b) /\ SendNow(b)
    <3>1. PanelTypes'
      BY <1>1, <1>3, <2>2, <2>4, SentTypes DEF PanelInv, PanelTypes
    <3>2. Known'
      BY <1>1, <1>3, <2>4, SentKnown DEF PanelInv
    <3>3. ASSUME NEW d \in Columns \ excused', timers'[d] = None, LiveButton[d] # None, live'
          PROVE  IsSent(d)'
      <4>1. d \notin Overwritten(DOMAIN Fixed[b]) /\ d \notin excused
        BY <3>3, <2>1, <2>4
      <4>2. CASE d = c
        <5>1. \A p \in Params : <<c, p>> \in Fields[b] =>
                told'[<<c, p>>] = "panel" /\ device'[<<c, p>>] = values[<<c, p>>]
          BY <2>4 DEF SendNow, Transmit, Packet, Cells
        <5> QED
          BY <5>1, <4>2, <1>1 DEF IsSent
      <4>3. CASE d # c
        <5>1. IsSent(d)
          BY <3>3, <4>1, <4>3, <2>2, <1>1 DEF PanelInv, Timed
        <5> QED
          BY <5>1, <4>1, <1>1, <1>3, <2>4, SendLeavesSent
      <4> QED
        BY <4>2, <4>3
    <3> QED
      BY <3>1, <3>2, <3>3, <2>3, <1>1, <1>3 DEF PanelInv, Timed
  <2>5. CASE Refuse(b, TRUE)
    <3>1. UNCHANGED <<marked, sent, device, told>> /\ excused' = excused \cup {c}
      BY <2>1, <2>5 DEF Refuse
    <3>2. PanelTypes' /\ Known'
      BY <1>1, <2>2, <3>1 DEF PanelInv, PanelTypes, Known, Edited
    <3>3. ASSUME NEW d \in Columns \ excused', timers'[d] = None, LiveButton[d] # None, live'
          PROVE  IsSent(d)'
      BY <3>3, <3>1, <2>2, <1>1 DEF PanelInv, Timed, IsSent
    <3> QED
      BY <3>2, <3>3, <2>3, <1>1, <1>3 DEF PanelInv, Timed
  <2> QED
    BY <2>1, <2>4, <2>5 DEF SendCommand, SendNow
<1> QED
  BY <1>4, <1>5

\* Time passes.
LEMMA TickKeeps ==
  ASSUME PanelInv, Tick
  PROVE  PanelInv'
<1> DEFINE later(n) == IF n < Never THEN n + 1 ELSE n
<1>1. UNCHANGED <<live, values, marked, drag, presets, sent, device, told, scope, kept, excused>>
  BY DEF Tick, valueVars, presetVars, sendVars, keptVars
<1>2. Never \in Nat /\ Debounce \in Nat /\ Never >= Debounce /\ None \notin Nat
  BY PanelAssumption DEF Never
<1>3. \A n \in Nat : later(n) \in Nat
  BY <1>2
<1>4. /\ timers' = [c \in Columns |-> IF timers[c] \in {None, 0} THEN timers[c] ELSE timers[c] - 1]
      /\ lastLive' = [c \in Columns |-> later(lastLive[c])]
      /\ sinceEdit' = [c \in Columns |-> later(sinceEdit[c])]
  BY DEF Tick
<1>5. \A n \in Nat, t \in Nat : n + t >= Debounce =>
        later(n) + (IF t = 0 THEN t ELSE t - 1) >= Debounce
  BY <1>2
<1> HIDE DEF later
<1>6. /\ timers \in [Columns -> Nat \cup {None}] /\ lastLive \in [Columns -> Nat]
      /\ sinceEdit \in [Columns -> Nat]
  BY DEF PanelInv, PanelTypes
<1>7. /\ timers' \in [Columns -> Nat \cup {None}] /\ lastLive' \in [Columns -> Nat]
      /\ sinceEdit' \in [Columns -> Nat]
  BY <1>3, <1>4, <1>6
<1>8. \A c \in Columns : timers'[c] = None <=> timers[c] = None
  BY <1>2, <1>4, <1>6
<1>9. ASSUME NEW c \in Columns, timers'[c] # None
      PROVE  live' /\ LiveButton[c] # None /\ sinceEdit'[c] + timers'[c] >= Debounce
  <2>1. timers[c] \in Nat /\ sinceEdit[c] \in Nat
    BY <1>6, <1>8, <1>9
  <2>2. live /\ LiveButton[c] # None /\ sinceEdit[c] + timers[c] >= Debounce
    BY <1>8, <1>9 DEF PanelInv, Timed
  <2>3. sinceEdit'[c] = later(sinceEdit[c]) /\ timers'[c] = IF timers[c] = 0 THEN timers[c] ELSE timers[c] - 1
    BY <1>4, <1>2, <2>1
  <2>4. later(sinceEdit[c]) + (IF timers[c] = 0 THEN timers[c] ELSE timers[c] - 1) >= Debounce
    BY <2>1, <2>2, <1>5
  <2> QED
    BY <2>2, <2>3, <2>4, <1>1
<1>10. PanelTypes' /\ Known'
  BY <1>1, <1>7 DEF PanelInv, PanelTypes, Known, Edited
<1>11. ASSUME NEW c \in Columns \ excused', timers'[c] = None, LiveButton[c] # None, live'
       PROVE  IsSent(c)'
  BY <1>11, <1>8, <1>1 DEF PanelInv, Timed, IsSent
<1>12. ~live' => Columns \subseteq excused'
  BY <1>1 DEF PanelInv, Timed
<1> QED
  BY <1>9, <1>10, <1>11, <1>12 DEF PanelInv, Timed

\* The panel is built again.
LEMMA BuildKeeps ==
  ASSUME PanelTypes, NEW s \in Scopes, Build(kept[s]), scope' = s,
         UNCHANGED <<kept, device, sinceEdit>>
  PROVE  PanelInv'
<1>1. KeptValues(kept[s]) \in [Cells -> Numbers]
  BY PanelAssumption DEF PanelTypes, KeptValues, Kept, Numbers, Default
<1>2. Never \in Nat
  BY PanelAssumption DEF Never
<1>3. PanelTypes'
  BY <1>1, <1>2 DEF PanelTypes, Build, Kept
<1>4. Known'
  BY DEF Known, Build, Edited
<1>5. Timed'
  BY DEF Timed, Build
<1> QED
  BY <1>3, <1>4, <1>5 DEF PanelInv

\* All of the panel's steps, and what around it leaves it alone.
LEMMA UserKeeps ==
  ASSUME PanelInv, PanelUser
  PROVE  PanelInv'
BY EditKeeps, PressKeeps, LinksKeep, DragKeeps, LinkAllKeeps, RevertKeeps, ToggleLiveKeeps,
   ApplyPresetKeeps, PresetsKeep, SendKeeps, ResendKeeps DEF PanelUser

LEMMA TimeKeeps ==
  ASSUME PanelInv, PanelTime
  PROVE  PanelInv'
BY TickKeeps, FireKeeps DEF PanelTime

LEMMA EngineStepsLeavePanel ==
  ASSUME EngineStep
  PROVE  UNCHANGED <<pvars, viewVars, plotVars, override, markVars, steps>>
BY DEF EngineStep, DoConfigure, DoSelect, DoScale, DoStart, DoStop, EndOfSession, Stored, EngineOnly

LEMMA RunningKeeps ==
  ASSUME PanelInv, RestOfPanel
  PROVE  PanelInv'
BY DEF PanelInv, PanelTypes, Known, Timed, IsSent, Edited, RestOfPanel, valueVars, liveVars, presetVars,
       sendVars, keptVars

LEMMA LineKeeps ==
  ASSUME PanelInv, SendLine
  PROVE  PanelInv'
BY DEF PanelInv, PanelTypes, Known, Timed, IsSent, Edited, SendLine, valueVars, liveVars, presetVars,
       sendVars, keptVars

LEMMA LookingLeavesPanel ==
  ASSUME Looking
  PROVE  UNCHANGED pvars
BY DEF Looking, SelectStream, SetVisible, SetLaneVisible, ResetView, ChangePanes, MoveTo, SetEnding, Show

LEMMA WorkingKeeps ==
  ASSUME PanelInv, profile \in Scopes, Working
  PROVE  PanelInv'
<1>1. PanelTypes /\ scope \in Scopes
  BY DEF PanelInv, PanelTypes
<1>2. ASSUME NEW p \in Scopes, SwitchProfile(p)
      PROVE  PanelInv'
  BY <1>1, <1>2, BuildKeeps DEF SwitchProfile, ScopeOf
<1>3. ASSUME NEW keys \in Documents, SaveConfig(keys)
      PROVE  PanelInv'
  BY <1>1, <1>3, BuildKeeps DEF SaveConfig, keptVars
<1>4. CASE Restart
  BY <1>1, <1>4, BuildKeeps DEF Restart
<1>5. CASE UNCHANGED pvars
  BY <1>5, PanelStays
<1>6. Working => \/ \E p \in Scopes : SwitchProfile(p)
                 \/ \E keys \in Documents : SaveConfig(keys)
                 \/ Restart \/ UNCHANGED pvars
  BY DEF Working, Connect, Disconnect, StartReplay, PressStop, PressRun, DropAnchor, Arm, Disarm, Captured,
         LiveFrame, SetPeriod
<1> QED
  BY <1>2, <1>3, <1>4, <1>5, <1>6

\* The panel's part is kept by every step, and true at the start.
LEMMA PanelStepKeeps ==
  ASSUME PanelInv, profile \in Scopes, [Next]_vars
  PROVE  PanelInv'
<1>1. CASE UNCHANGED pvars
  BY <1>1, PanelStays
<1>2. CASE Looking
  BY <1>2, <1>1, LookingLeavesPanel
<1>3. CASE Working
  BY <1>3, WorkingKeeps
<1>4. CASE EngineStep
  BY <1>4, <1>1, EngineStepsLeavePanel
<1>5. CASE WindowEvent
  BY <1>5, <1>1, RunningKeeps DEF WindowEvent, OnRunning, OnStopped, OnFailed, OnConfigured
<1>6. CASE PanelStep
  BY <1>6, UserKeeps, TimeKeeps DEF PanelStep
<1>7. CASE SendLine
  BY <1>7, LineKeeps
<1> QED
  BY <1>1, <1>2, <1>3, <1>4, <1>5, <1>6, <1>7 DEF Next, vars

LEMMA PanelStart ==
  ASSUME Init
  PROVE  PanelInv
<1>1. Never \in Nat
  BY PanelAssumption DEF Never
<1>2. PanelTypes
  <2>1. <<>> \in Maps
    <3>1. <<>> \in [{} -> [Cells -> Numbers]]
      OBVIOUS
    <3> QED
      BY <3>1 DEF Maps
  <2>2. [x \in Cells |-> Default] \in [Cells -> Numbers]
    BY PanelAssumption DEF Numbers, Default
  <2>3. Nothing \in Kept
    BY <2>1 DEF Kept, Nothing
  <2>4. kept \in [Scopes -> Kept] /\ scope \in Scopes
    BY <2>3 DEF Init, PanelInit
  <2>5. /\ timers \in [Columns -> Nat \cup {None}] /\ lastLive \in [Columns -> Nat]
        /\ sinceEdit \in [Columns -> Nat]
    BY <1>1 DEF Init, PanelInit
  <2> QED
    BY <2>1, <2>2, <2>4, <2>5 DEF Init, PanelInit, PanelTypes
<1>3. Known /\ Timed
  BY DEF Init, PanelInit, Known, Timed, Edited
<1> QED
  BY <1>2, <1>3 DEF PanelInv

\* What follows from it.
LEMMA PanelInvSays ==
  ASSUME PanelInv
  PROVE  MarksAreTrue /\ LiveSendsWhatIsTyped
<1>1. MarksAreTrue
  BY DEF PanelInv, Known, Edited, MarksAreTrue
<1>2. LiveSendsWhatIsTyped
  BY DEF PanelInv, Timed, IsSent, LiveSendsWhatIsTyped
<1> QED
  BY <1>1, <1>2

\* What LiveIsPaced says of a column.
Paced(c) ==
    timers[c] = 0 /\ timers'[c] = None /\ live' /\ live /\ lastLive'[c] = 0 =>
        sinceEdit[c] >= Debounce /\ lastLive[c] >= MinInterval

LEMMA StepIsPaced ==
  ASSUME PanelInv, profile \in Scopes, [Next]_vars, NEW c \in Columns
  PROVE  Paced(c)
<1> SUFFICES ASSUME timers[c] = 0, timers'[c] = None, live', live, lastLive'[c] = 0
             PROVE  sinceEdit[c] >= Debounce /\ lastLive[c] >= MinInterval
  BY DEF Paced
<1>1. /\ None \notin Nat /\ timers[c] # None /\ lastLive[c] \in Nat /\ sinceEdit[c] \in Nat
      /\ Debounce \in Nat /\ MinInterval \in Nat /\ lastLive \in [Columns -> Nat]
  BY PanelAssumption DEF PanelInv, PanelTypes
<1>2. sinceEdit[c] >= Debounce
  <2>1. sinceEdit[c] + timers[c] >= Debounce
    BY <1>1 DEF PanelInv, Timed
  <2>2. sinceEdit[c] + 0 >= Debounce
    BY <2>1
  <2> QED
    BY <2>2, <1>1
<1>3. timers' # timers
  BY <1>1
<1>4. ASSUME lastLive' = [d \in Columns |-> Never]
      PROVE  lastLive[c] >= MinInterval
  <2>1. Never = 0
    BY <1>4
  <2> QED
    BY <2>1, <1>1 DEF Never
<1>5. ASSUME NEW d \in Columns, Fire(d)
      PROVE  lastLive[c] >= MinInterval
  <2>1. Wait(d) \in Nat /\ (Wait(d) <= 0 => lastLive[d] >= MinInterval)
    BY <1>1, WaitIsNat
  <2>2. d = c
    BY <1>5, <1>1 DEF Fire, PanelInv, PanelTypes
  <2>3. CASE Wait(d) > 0
    <3>1. timers'[d] = Wait(d)
      BY <2>3, <1>5 DEF Fire, PanelInv, PanelTypes
    <3> QED
      BY <3>1, <2>1, <2>2, <1>1
  <2> QED
    BY <2>1, <2>2, <2>3
<1>7. ASSUME NEW v, NEW cols, Notify(v, cols)
      PROVE  FALSE
  BY <1>7, <1>1 DEF Notify, Scheduled
<1>8. CASE PanelTime
  <2>1. ~Tick
    BY <1>1 DEF Tick
  <2> QED
    BY <2>1, <1>8, <1>5, <1>2 DEF PanelTime
<1>9. ~PanelUser
  BY <1>7, <1>3, <1>1 DEF PanelUser, Edit, Press, LinkRow, Drag, Let, LinkAll, UnlinkAll, Revert, ToggleLive,
     ApplyPreset, SavePreset, DeletePreset, Send, Resend, liveVars
<1>10. CASE Looking
  BY <1>10, <1>3, LookingLeavesPanel DEF pvars, liveVars
<1>11. CASE Working
  <2>1. \/ \E p \in Scopes : SwitchProfile(p)
        \/ \E keys \in Documents : SaveConfig(keys)
        \/ Restart
    BY <1>11, <1>3 DEF Working, Connect, Disconnect, StartReplay, PressStop, PressRun, DropAnchor, Arm, Disarm,
       Captured, LiveFrame, SetPeriod, pvars, liveVars
  <2>2. \A p : SwitchProfile(p) => lastLive' = [d \in Columns |-> Never]
    BY DEF SwitchProfile, Build
  <2>3. \A keys : SaveConfig(keys) => lastLive' = [d \in Columns |-> Never]
    BY DEF SaveConfig, Build
  <2>4. Restart => lastLive' = [d \in Columns |-> Never]
    BY DEF Restart, Build
  <2> QED
    BY <2>1, <2>2, <2>3, <2>4, <1>4, <1>2
<1>12. ~EngineStep
  BY <1>3, EngineStepsLeavePanel DEF pvars, liveVars
<1>13. ~WindowEvent
  BY <1>3 DEF WindowEvent, OnRunning, OnStopped, OnFailed, OnConfigured, RestOfPanel, pvars, liveVars
<1>14. ~SendLine
  BY <1>3 DEF SendLine, liveVars
<1> QED
  BY <1>1, <1>2, <1>3, <1>8, <1>9, <1>10, <1>11, <1>12, <1>13, <1>14
     DEF Next, PanelStep, vars, pvars, liveVars

----------------------------------------------------------------------------
(* What is remembered is what is shown. *)

\* What is shown is as v has it: the signals and lanes; the panes; the stream; the panel.
ShownAs(v) ==
    shown # None => /\ listed.visible = Visible(v, shown) /\ listed.lane = LaneOf(v, shown)
                    /\ plotted.visible = listed.visible /\ plotted.lane = listed.lane
PanesAs(v) == panes = Coerced(KeptPanes(v), profile) /\ ending = v.ending
TabAs(v) == shown = Tab(files[profile], v.stream)
PanelKept ==
    /\ values = KeptValues(kept[profile]) /\ presets = kept[profile].presets
    /\ live = kept[profile].live
\* What is remembered of a profile.
IsView(v) ==
    /\ DOMAIN v = {"stream", "visible", "lane", "panes", "ending"}
    /\ DOMAIN v.visible = StreamNames /\ DOMAIN v.lane = StreamNames
    /\ v.panes \in Panes \cup {None}

\* What the next run shows, in parts.
LEMMA SameInParts ==
  RestartShowsTheSame <=>
      TabAs(views[profile]) /\ ShownAs(views[profile]) /\ PanesAs(views[profile]) /\ PanelKept
<1> DEFINE v == views[profile]
           k == Tab(files[profile], v.stream)
<1>1. CASE shown = k
  BY <1>1 DEF RestartShowsTheSame, TabAs, ShownAs, PanesAs, PanelKept
<1>2. CASE shown # k
  BY <1>2 DEF RestartShowsTheSame, TabAs
<1> QED
  BY <1>1, <1>2

\* The tab shown is one of the file's, if it has any.
LEMMA TabIsThere ==
  ASSUME NEW keys \in Seq(StreamNames), NEW wanted
  PROVE  /\ Tab(keys, wanted) \in StreamNames \cup {None}
         /\ Tab(keys, wanted) = None => keys = <<>>
         /\ Tab(keys, wanted) # None => Contains(keys, Tab(keys, wanted))
<1>1. CASE Contains(keys, wanted)
  <2>1. PICK i \in 1..Len(keys) : keys[i] = wanted
    BY <1>1 DEF Contains
  <2>2. wanted \in StreamNames
    BY <2>1, ElementOfSeq
  <2> QED
    BY <1>1, <2>2, DeskAssumption DEF Tab
<1>2. CASE ~Contains(keys, wanted) /\ keys = <<>>
  BY <1>2 DEF Tab
<1>3. CASE ~Contains(keys, wanted) /\ keys # <<>>
  <2>1. 1 \in 1..Len(keys)
    BY <1>3
  <2>2. keys[1] \in StreamNames /\ Contains(keys, keys[1])
    BY <2>1, ElementOfSeq DEF Contains
  <2> QED
    BY <1>3, <2>2, DeskAssumption DEF Tab
<1> QED
  BY <1>1, <1>2, <1>3

\* A file without streams has no tab.
LEMMA EmptyTab == ASSUME NEW wanted PROVE Tab(<<>>, wanted) = None
BY DEF Tab, Contains

\* What is remembered of a selection selects it again, and nothing else of it changes.
LEMMA RememberedTab ==
  ASSUME NEW keys \in Seq(StreamNames), NEW wanted, NEW v, IsView(v)
  PROVE  LET k == Tab(keys, wanted)
             w == Remembered(v, k)
         IN  Tab(keys, w.stream) = k
<1> DEFINE k == Tab(keys, wanted)
           w == Remembered(v, k)
<1>1. CASE k = None
  BY <1>1, TabIsThere, EmptyTab
<1>2. CASE k # None
  <2>1. w.stream = k
    BY <1>2 DEF Remembered, IsView
  <2> QED
    BY <1>2, <2>1, TabIsThere DEF Tab
<1> QED
  BY <1>1, <1>2

\* Nothing else of it changes.
LEMMA RememberedRest ==
  ASSUME NEW v, NEW k, IsView(v)
  PROVE  LET w == Remembered(v, k)
         IN  IsView(w) /\ w.visible = v.visible /\ w.lane = v.lane /\ w.panes = v.panes /\ w.ending = v.ending
BY DEF Remembered, IsView

\* A stream that is selected is shown as it is remembered.
LEMMA SelectedIsShown ==
  ASSUME NEW k, NEW v, NEW ms, Select(k, v, ms),
         NEW w, w.visible = v.visible, w.lane = v.lane
  PROVE  /\ k # None => /\ listed'.visible = Visible(w, k) /\ listed'.lane = LaneOf(w, k)
                         /\ plotted'.visible = listed'.visible /\ plotted'.lane = listed'.lane
         /\ DOMAIN listed' = {"visible", "lane", "lanes"} /\ DOMAIN plotted' = {"visible", "lane", "lanes"}
         /\ shown' = k
<1>1. Visible(w, k) = Visible(v, k) /\ LaneOf(w, k) = LaneOf(v, k)
  BY DEF Visible, LaneOf
<1> QED
  BY <1>1 DEF Select, List, NoSignals

\* What is kept of a profile's view is what it is.
LEMMA NewView ==
  ASSUME ViewTypes, NEW s \in Scopes, NEW w, IsView(w), views' = [views EXCEPT ![s] = w]
  PROVE  /\ views'[s] = w /\ DOMAIN views' = Scopes
         /\ \A t \in Scopes : IsView(views'[t])
BY DEF ViewTypes, IsView

\* What is remembered of a profile is a view, whatever is changed of it.
LEMMA ViewsAre == ASSUME ViewTypes, NEW s \in Scopes PROVE IsView(views[s])
BY DEF ViewTypes, IsView

LEMMA AreViews ==
  ASSUME /\ files' \in [Scopes -> Documents] /\ profile' \in Scopes /\ scope' = profile'
         /\ shown' \in StreamNames \cup {None} /\ panes' \in Panes /\ DOMAIN views' = Scopes
         /\ \A t \in Scopes : IsView(views'[t])
         /\ DOMAIN listed' = {"visible", "lane", "lanes"} /\ DOMAIN plotted' = {"visible", "lane", "lanes"}
  PROVE  ViewTypes'
BY DEF ViewTypes, IsView

\* The panes of a profile are panes.
LEMMA CoercedPanes ==
  ASSUME NEW ps \in Panes, NEW p
  PROVE  Coerced(ps, p) \in Panes /\ Coerced(Coerced(ps, p), p) = Coerced(ps, p)
BY DEF Coerced, Panes, Views

LEMMA KeptPanesAre ==
  ASSUME NEW v, IsView(v)
  PROVE  KeptPanes(v) \in Panes
BY DEF KeptPanes, IsView, AllOpen, Panes, Views

\* A file is a sequence of streams.
LEMMA FilesAre == ASSUME ViewTypes, NEW p \in Scopes PROVE files[p] \in Seq(StreamNames)
BY DeskAssumption DEF ViewTypes

\* The part of the view, taken apart and put together.
LEMMA ViewInParts ==
  ASSUME ViewInv
  PROVE  /\ ViewTypes /\ TabAs(views[profile]) /\ ShownAs(views[profile]) /\ PanesAs(views[profile])
         /\ PanelKept /\ profile \in Scopes /\ scope = profile /\ IsView(views[profile])
BY SameInParts, ViewsAre DEF ViewInv, ViewTypes

LEMMA PartsMakeView ==
  ASSUME ViewTypes', PanelKept', NEW v, v = views'[profile'],
         shown' = Tab(files'[profile'], v.stream),
         shown' # None => /\ listed'.visible = Visible(v, shown') /\ listed'.lane = LaneOf(v, shown')
                          /\ plotted'.visible = listed'.visible /\ plotted'.lane = listed'.lane,
         panes' = Coerced(KeptPanes(v), profile'), ending' = v.ending
  PROVE  ViewInv'
<1>1. RestartShowsTheSame'
  BY DEF RestartShowsTheSame, PanelKept
<1> QED
  BY <1>1 DEF ViewInv

\* Another profile; another file for it; another run; another stream; its view reset.
LEMMA SwitchKeepsView ==
  ASSUME ViewInv, NEW p \in Scopes, SwitchProfile(p)
  PROVE  ViewInv'
<1> DEFINE v == views[p]
           k == Tab(files[p], v.stream)
           w == Remembered(v, k)
<1>1. /\ profile' = p /\ scope' = p /\ Build(kept[p]) /\ views' = [views EXCEPT ![p] = w]
      /\ panes' = Coerced(KeptPanes(v), p) /\ ending' = v.ending /\ Select(k, v, <<>>)
      /\ files' = files /\ kept' = kept
  BY DEF SwitchProfile, ScopeOf
<1>2. ViewTypes /\ IsView(v) /\ files[p] \in Seq(StreamNames)
  BY ViewInParts, ViewsAre, FilesAre
<1>3. /\ IsView(w) /\ w.visible = v.visible /\ w.lane = v.lane /\ w.panes = v.panes /\ w.ending = v.ending
      /\ Tab(files[p], w.stream) = k /\ k \in StreamNames \cup {None}
  BY <1>2, RememberedRest, RememberedTab, TabIsThere
<1> HIDE DEF w, k, v
<1>4. /\ views'[p] = w /\ DOMAIN views' = Scopes /\ \A t \in Scopes : IsView(views'[t])
  BY <1>1, <1>2, <1>3, NewView
<1>5. /\ k # None => /\ listed'.visible = Visible(w, k) /\ listed'.lane = LaneOf(w, k)
                      /\ plotted'.visible = listed'.visible /\ plotted'.lane = listed'.lane
      /\ DOMAIN listed' = {"visible", "lane", "lanes"} /\ DOMAIN plotted' = {"visible", "lane", "lanes"}
      /\ shown' = k
  BY <1>1, <1>3, SelectedIsShown
<1>6. panes' \in Panes /\ panes' = Coerced(KeptPanes(w), p)
  BY <1>1, <1>2, <1>3, KeptPanesAre, CoercedPanes DEF KeptPanes
<1>7. ViewTypes'
  BY <1>1, <1>2, <1>3, <1>4, <1>5, <1>6, AreViews DEF ViewTypes
<1>8. PanelKept'
  BY <1>1 DEF Build, PanelKept, KeptValues
<1> QED
  BY <1>1, <1>3, <1>4, <1>5, <1>6, <1>7, <1>8, PartsMakeView

LEMMA SaveKeepsView ==
  ASSUME ViewInv, NEW keys \in Documents, SaveConfig(keys)
  PROVE  ViewInv'
<1> DEFINE v == views[profile]
           k == Tab(keys, shown)
           w == Remembered(v, k)
<1>1. /\ profile' = profile /\ scope' = scope /\ Build(kept[scope]) /\ panes' = panes /\ ending' = ending
      /\ files' = [files EXCEPT ![profile] = keys] /\ kept' = kept
  BY DEF SaveConfig, keptVars
<1>2. /\ ViewTypes /\ IsView(v) /\ scope = profile /\ profile \in Scopes /\ PanesAs(v)
      /\ panes \in Panes
  BY ViewInParts DEF ViewTypes
<1>3. keys \in Seq(StreamNames) /\ files' \in [Scopes -> Documents] /\ files'[profile] = keys
  BY <1>1, <1>2, DeskAssumption DEF ViewTypes
<1>4. PanelKept'
  BY <1>1, <1>2 DEF Build, PanelKept, KeptValues
<1>5. CASE k = None
  <2>1. shown' = None /\ UNCHANGED <<listed, plotted, views>>
    BY <1>5 DEF SaveConfig
  <2>2. keys = <<>>
    BY <1>5, <1>3, TabIsThere
  <2>3. Tab(keys, v.stream) = None
    BY <2>2, EmptyTab
  <2>4. ViewTypes'
    BY <1>1, <1>2, <1>3, <2>1 DEF ViewTypes
  <2> QED
    BY <1>1, <1>2, <1>3, <1>4, <2>1, <2>3, <2>4, PartsMakeView DEF PanesAs
<1>6. CASE k # None
  <2>1. Select(k, v, markers) /\ views' = [views EXCEPT ![profile] = w]
    BY <1>6, <1>2 DEF SaveConfig, ViewTypes
  <2>2. /\ IsView(w) /\ w.visible = v.visible /\ w.lane = v.lane /\ w.panes = v.panes /\ w.ending = v.ending
        /\ Tab(keys, w.stream) = k /\ k \in StreamNames \cup {None}
    BY <1>2, <1>3, RememberedRest, RememberedTab, TabIsThere
  <2> HIDE DEF w, k, v
  <2>3. /\ views'[profile] = w /\ DOMAIN views' = Scopes /\ \A t \in Scopes : IsView(views'[t])
    BY <1>2, <2>1, <2>2, NewView
  <2>4. /\ k # None => /\ listed'.visible = Visible(w, k) /\ listed'.lane = LaneOf(w, k)
                        /\ plotted'.visible = listed'.visible /\ plotted'.lane = listed'.lane
        /\ DOMAIN listed' = {"visible", "lane", "lanes"} /\ DOMAIN plotted' = {"visible", "lane", "lanes"}
        /\ shown' = k
    BY <2>1, <2>2, SelectedIsShown
  <2>5. ViewTypes'
    BY <1>1, <1>2, <1>3, <2>2, <2>3, <2>4, AreViews
  <2> QED
    BY <1>1, <1>2, <1>3, <1>4, <2>2, <2>3, <2>4, <2>5, PartsMakeView DEF PanesAs, KeptPanes
<1> QED
  BY <1>5, <1>6

LEMMA RestartKeepsView ==
  ASSUME ViewInv, Restart
  PROVE  ViewInv'
<1> DEFINE v == views[profile]
           k == Tab(files[profile], v.stream)
           w == Remembered(v, k)
<1>1. /\ profile' = profile /\ scope' = profile /\ Build(kept[profile])
      /\ views' = [views EXCEPT ![profile] = w]
      /\ panes' = Coerced(KeptPanes(v), profile) /\ ending' = v.ending
      /\ shown' = k /\ listed' = List(v, k) /\ plotted' = List(v, k)
      /\ files' = files /\ kept' = kept
  BY DEF Restart
<1>2. ViewTypes /\ IsView(v) /\ profile \in Scopes /\ files[profile] \in Seq(StreamNames)
  BY ViewInParts, FilesAre
<1>3. /\ IsView(w) /\ w.visible = v.visible /\ w.lane = v.lane /\ w.panes = v.panes /\ w.ending = v.ending
      /\ Tab(files[profile], w.stream) = k /\ k \in StreamNames \cup {None}
  BY <1>2, RememberedRest, RememberedTab, TabIsThere
<1> HIDE DEF w, k, v
<1>4. /\ views'[profile] = w /\ DOMAIN views' = Scopes /\ \A t \in Scopes : IsView(views'[t])
  BY <1>1, <1>2, <1>3, NewView
<1>5. /\ k # None => /\ listed'.visible = Visible(w, k) /\ listed'.lane = LaneOf(w, k)
                      /\ plotted'.visible = listed'.visible /\ plotted'.lane = listed'.lane
      /\ DOMAIN listed' = {"visible", "lane", "lanes"} /\ DOMAIN plotted' = {"visible", "lane", "lanes"}
  <2>1. Visible(w, k) = Visible(v, k) /\ LaneOf(w, k) = LaneOf(v, k)
    BY <1>3 DEF Visible, LaneOf
  <2> QED
    BY <1>1, <2>1 DEF List, NoSignals
<1>6. panes' \in Panes /\ panes' = Coerced(KeptPanes(w), profile)
  BY <1>1, <1>2, <1>3, KeptPanesAre, CoercedPanes DEF KeptPanes
<1>7. ViewTypes'
  BY <1>1, <1>2, <1>3, <1>4, <1>5, <1>6, AreViews DEF ViewTypes
<1>8. PanelKept'
  BY <1>1 DEF Build, PanelKept, KeptValues
<1> QED
  BY <1>1, <1>3, <1>4, <1>5, <1>6, <1>7, <1>8, PartsMakeView

LEMMA SelectKeepsView ==
  ASSUME ViewInv, NEW k \in StreamNames, SelectStream(k)
  PROVE  ViewInv'
<1> DEFINE v == views[profile]
           w == Remembered(v, k)
<1>1. ViewTypes /\ IsView(v) /\ scope = profile /\ profile \in Scopes /\ PanesAs(v) /\ PanelKept
  BY ViewInParts
<1>2. /\ UNCHANGED <<pvars, files, profile, panes, ending>>
      /\ views' = [views EXCEPT ![profile] = w] /\ Select(k, v, markers) /\ Contains(files[profile], k)
  BY <1>1 DEF SelectStream
<1>3. IsView(w) /\ w.visible = v.visible /\ w.lane = v.lane /\ w.panes = v.panes /\ w.ending = v.ending
  BY <1>1, RememberedRest
<1>4. Tab(files[profile], w.stream) = k
  BY <1>1, <1>2, DeskAssumption DEF Tab, Remembered, IsView
<1> HIDE DEF w, v
<1>5. /\ views'[profile] = w /\ DOMAIN views' = Scopes /\ \A t \in Scopes : IsView(views'[t])
  BY <1>1, <1>2, <1>3, NewView
<1>6. /\ k # None => /\ listed'.visible = Visible(w, k) /\ listed'.lane = LaneOf(w, k)
                      /\ plotted'.visible = listed'.visible /\ plotted'.lane = listed'.lane
      /\ DOMAIN listed' = {"visible", "lane", "lanes"} /\ DOMAIN plotted' = {"visible", "lane", "lanes"}
      /\ shown' = k
  BY <1>2, <1>3, SelectedIsShown
<1>7. PanelKept' /\ scope' = scope
  BY <1>1, <1>2 DEF PanelKept, pvars, valueVars, liveVars, presetVars, keptVars
<1>8. ViewTypes'
  BY <1>1, <1>2, <1>5, <1>6, <1>7, AreViews DEF ViewTypes
<1> QED
  BY <1>1, <1>2, <1>3, <1>4, <1>5, <1>6, <1>7, <1>8, PartsMakeView DEF PanesAs, KeptPanes

LEMMA ResetKeepsView ==
  ASSUME ViewInv, ResetView
  PROVE  ViewInv'
<1> DEFINE v == views[profile]
           w == [v EXCEPT !.visible[shown] = <<>>, !.lane[shown] = <<>>]
<1>1. /\ ViewTypes /\ IsView(v) /\ scope = profile /\ profile \in Scopes /\ TabAs(v) /\ PanesAs(v)
      /\ PanelKept
  BY ViewInParts
<1>2. /\ UNCHANGED <<pvars, files, profile, panes, ending>>
      /\ views' = [views EXCEPT ![profile] = w] /\ Select(shown, w, markers)
  BY <1>1 DEF ResetView
<1>3. IsView(w) /\ w.panes = v.panes /\ w.ending = v.ending /\ w.stream = v.stream
  BY <1>1 DEF IsView
<1> HIDE DEF w, v
<1>5. /\ views'[profile] = w /\ DOMAIN views' = Scopes /\ \A t \in Scopes : IsView(views'[t])
  BY <1>1, <1>2, <1>3, NewView
<1>6. /\ shown # None => /\ listed'.visible = Visible(w, shown) /\ listed'.lane = LaneOf(w, shown)
                          /\ plotted'.visible = listed'.visible /\ plotted'.lane = listed'.lane
      /\ DOMAIN listed' = {"visible", "lane", "lanes"} /\ DOMAIN plotted' = {"visible", "lane", "lanes"}
      /\ shown' = shown
  BY <1>2, <1>3, SelectedIsShown
<1>7. PanelKept' /\ scope' = scope
  BY <1>1, <1>2 DEF PanelKept, pvars, valueVars, liveVars, presetVars, keptVars
<1>8. ViewTypes'
  BY <1>1, <1>2, <1>5, <1>6, <1>7, AreViews DEF ViewTypes
<1> QED
  BY <1>1, <1>2, <1>3, <1>5, <1>6, <1>7, <1>8, PartsMakeView DEF PanesAs, KeptPanes, TabAs

\* Signals are shown or hidden, or moved: the list, the plot and what is remembered alike.
LEMMA ShowKeepsView ==
  ASSUME ViewInv, NEW ss, NEW on, Show(ss, on)
  PROVE  ViewInv'
<1> DEFINE v == views[profile]
           turned == {s \in ss : listed.visible[s] # on}
           Now(visible) == [s \in Signals |-> IF s \in turned THEN on ELSE visible[s]]
           w == [v EXCEPT !.visible[shown] = Updated(@, turned, on)]
<1>1. /\ ViewTypes /\ IsView(v) /\ scope = profile /\ profile \in Scopes /\ TabAs(v) /\ PanesAs(v)
      /\ PanelKept /\ ShownAs(v)
  BY ViewInParts
<1>2. /\ UNCHANGED <<pvars, files, profile, shown, panes, ending>> /\ shown # None
      /\ listed' = [listed EXCEPT !.visible = Now(@)] /\ plotted' = [plotted EXCEPT !.visible = Now(@)]
      /\ views' = [views EXCEPT ![scope].visible[shown] = Updated(@, turned, on)]
  BY DEF Show
<1>3. views' = [views EXCEPT ![profile] = w]
  BY <1>1, <1>2
<1>4. shown \in StreamNames
  BY <1>1, <1>2 DEF ViewTypes
<1>5. /\ IsView(w) /\ w.panes = v.panes /\ w.ending = v.ending /\ w.stream = v.stream /\ w.lane = v.lane
      /\ w.visible[shown] = Updated(v.visible[shown], turned, on)
  BY <1>1, <1>4 DEF IsView
<1>6. Visible(w, shown) = Now(Visible(v, shown)) /\ LaneOf(w, shown) = LaneOf(v, shown)
  <2>1. \A s \in Signals : Visible(w, shown)[s] = IF s \in turned THEN on ELSE Visible(v, shown)[s]
    BY <1>5 DEF Visible, Updated
  <2>2. Visible(w, shown) = [s \in Signals |-> Visible(w, shown)[s]]
    BY DEF Visible
  <2>3. LaneOf(w, shown) = LaneOf(v, shown)
    BY <1>5 DEF LaneOf
  <2> QED
    BY <2>1, <2>2, <2>3
<1>7. /\ listed'.visible = Now(listed.visible) /\ plotted'.visible = Now(plotted.visible)
      /\ listed'.lane = listed.lane /\ plotted'.lane = plotted.lane
      /\ DOMAIN listed' = {"visible", "lane", "lanes"} /\ DOMAIN plotted' = {"visible", "lane", "lanes"}
  BY <1>1, <1>2 DEF ViewTypes
<1>8. /\ listed'.visible = Visible(w, shown) /\ listed'.lane = LaneOf(w, shown)
      /\ plotted'.visible = listed'.visible /\ plotted'.lane = listed'.lane
  BY <1>1, <1>2, <1>6, <1>7 DEF ShownAs
<1> HIDE DEF w, v, turned, Now
<1>9. /\ views'[profile] = w /\ DOMAIN views' = Scopes /\ \A t \in Scopes : IsView(views'[t])
  BY <1>1, <1>3, <1>5, NewView
<1>10. PanelKept' /\ scope' = scope
  BY <1>1, <1>2 DEF PanelKept, pvars, valueVars, liveVars, presetVars, keptVars
<1>11. ViewTypes'
  BY <1>1, <1>2, <1>7, <1>9, <1>10, AreViews DEF ViewTypes
<1> QED
  BY <1>1, <1>2, <1>5, <1>8, <1>9, <1>10, <1>11, PartsMakeView DEF PanesAs, KeptPanes, TabAs

\* Signals are moved to a lane.
LEMMA MoveKeepsView ==
  ASSUME ViewInv, NEW ss, NEW lane, MoveTo(ss, lane)
  PROVE  ViewInv'
<1> DEFINE v == views[profile]
           moving == {s \in ss : listed.lane[s] # lane}
           Now(assigned) == [s \in Signals |-> IF s \in moving THEN lane ELSE assigned[s]]
           w == [v EXCEPT !.lane[shown] = Updated(@, moving, lane)]
<1>1. /\ ViewTypes /\ IsView(v) /\ scope = profile /\ profile \in Scopes /\ TabAs(v) /\ PanesAs(v)
      /\ PanelKept /\ ShownAs(v)
  BY ViewInParts
<1>2. /\ UNCHANGED <<pvars, files, profile, shown, panes, ending>> /\ shown # None
      /\ listed' = [listed EXCEPT !.lane = Now(@),
                       !.lanes = SelectSeq(With(@, lane), LAMBDA l : \E s \in Signals : Now(listed.lane)[s] = l)]
      /\ plotted' = [plotted EXCEPT !.lane = Now(@), !.lanes = With(@, lane)]
      /\ views' = [views EXCEPT ![scope].lane[shown] = Updated(@, moving, lane)]
  BY DEF MoveTo
<1>3. views' = [views EXCEPT ![profile] = w]
  BY <1>1, <1>2
<1>4. shown \in StreamNames
  BY <1>1, <1>2 DEF ViewTypes
<1>5. /\ IsView(w) /\ w.panes = v.panes /\ w.ending = v.ending /\ w.stream = v.stream
      /\ w.visible = v.visible
      /\ w.lane[shown] = Updated(v.lane[shown], moving, lane)
  BY <1>1, <1>4 DEF IsView
<1>6. LaneOf(w, shown) = Now(LaneOf(v, shown)) /\ Visible(w, shown) = Visible(v, shown)
  <2>1. \A s \in Signals : LaneOf(w, shown)[s] = IF s \in moving THEN lane ELSE LaneOf(v, shown)[s]
    BY <1>5 DEF LaneOf, Updated
  <2>2. LaneOf(w, shown) = [s \in Signals |-> LaneOf(w, shown)[s]]
    BY DEF LaneOf
  <2>3. Visible(w, shown) = Visible(v, shown)
    BY <1>5 DEF Visible
  <2> QED
    BY <2>1, <2>2, <2>3
<1>7. /\ listed'.lane = Now(listed.lane) /\ plotted'.lane = Now(plotted.lane)
      /\ listed'.visible = listed.visible /\ plotted'.visible = plotted.visible
      /\ DOMAIN listed' = {"visible", "lane", "lanes"} /\ DOMAIN plotted' = {"visible", "lane", "lanes"}
  BY <1>1, <1>2 DEF ViewTypes
<1>8. /\ listed'.visible = Visible(w, shown) /\ listed'.lane = LaneOf(w, shown)
      /\ plotted'.visible = listed'.visible /\ plotted'.lane = listed'.lane
  BY <1>1, <1>2, <1>6, <1>7 DEF ShownAs
<1> HIDE DEF w, v, moving, Now
<1>9. /\ views'[profile] = w /\ DOMAIN views' = Scopes /\ \A t \in Scopes : IsView(views'[t])
  BY <1>1, <1>3, <1>5, NewView
<1>10. PanelKept' /\ scope' = scope
  BY <1>1, <1>2 DEF PanelKept, pvars, valueVars, liveVars, presetVars, keptVars
<1>11. ViewTypes'
  BY <1>1, <1>2, <1>7, <1>9, <1>10, AreViews DEF ViewTypes
<1> QED
  BY <1>1, <1>2, <1>5, <1>8, <1>9, <1>10, <1>11, PartsMakeView DEF PanesAs, KeptPanes, TabAs

\* The panes are kept as they are shown, and shown so again.
LEMMA PanesKeepView ==
  ASSUME ViewInv, NEW ps \in Panes, KeepPanes(ps),
         UNCHANGED <<pvars, files, profile, shown, listed, plotted, ending>>
  PROVE  ViewInv'
<1> DEFINE v == views[profile]
           w == [v EXCEPT !.panes = Coerced(ps, profile)]
<1>1. /\ ViewTypes /\ IsView(v) /\ scope = profile /\ profile \in Scopes /\ TabAs(v) /\ PanesAs(v)
      /\ PanelKept /\ ShownAs(v)
  BY ViewInParts
<1>2. Coerced(ps, profile) \in Panes /\ Coerced(Coerced(ps, profile), profile) = Coerced(ps, profile)
  BY CoercedPanes
<1>3. panes' = Coerced(ps, profile) /\ views' = [views EXCEPT ![profile] = w]
  BY <1>1 DEF KeepPanes
<1>4. /\ IsView(w) /\ w.ending = v.ending /\ w.stream = v.stream /\ w.lane = v.lane /\ w.visible = v.visible
      /\ w.panes = Coerced(ps, profile)
  BY <1>1, <1>2 DEF IsView
<1>5. KeptPanes(w) = Coerced(ps, profile)
  BY <1>2, <1>4, DeskAssumption DEF KeptPanes, Panes
<1> HIDE DEF w, v
<1>6. Visible(w, shown) = Visible(v, shown) /\ LaneOf(w, shown) = LaneOf(v, shown)
  BY <1>4 DEF Visible, LaneOf
<1>7. /\ views'[profile] = w /\ DOMAIN views' = Scopes /\ \A t \in Scopes : IsView(views'[t])
  BY <1>1, <1>3, <1>4, NewView
<1>8. PanelKept' /\ scope' = scope
  BY <1>1 DEF PanelKept, pvars, valueVars, liveVars, presetVars, keptVars
<1>9. ViewTypes'
  BY <1>1, <1>2, <1>3, <1>7, <1>8, AreViews DEF ViewTypes
<1> QED
  BY <1>1, <1>2, <1>3, <1>4, <1>5, <1>6, <1>7, <1>8, <1>9, PartsMakeView DEF PanesAs, TabAs, ShownAs

\* Another line ending.
LEMMA EndingKeepsView ==
  ASSUME ViewInv, NEW e, SetEnding(e)
  PROVE  ViewInv'
<1> DEFINE v == views[profile]
           w == [v EXCEPT !.ending = e]
<1>1. /\ ViewTypes /\ IsView(v) /\ scope = profile /\ profile \in Scopes /\ TabAs(v) /\ PanesAs(v)
      /\ PanelKept /\ ShownAs(v)
  BY ViewInParts
<1>2. /\ ending' = e /\ views' = [views EXCEPT ![profile] = w]
      /\ UNCHANGED <<pvars, files, profile, shown, listed, plotted, panes>>
  BY <1>1 DEF SetEnding
<1>3. /\ IsView(w) /\ w.ending = e /\ w.stream = v.stream /\ w.lane = v.lane /\ w.visible = v.visible
      /\ w.panes = v.panes
  BY <1>1 DEF IsView
<1> HIDE DEF w, v
<1>4. /\ Visible(w, shown) = Visible(v, shown) /\ LaneOf(w, shown) = LaneOf(v, shown)
      /\ KeptPanes(w) = KeptPanes(v)
  BY <1>3 DEF Visible, LaneOf, KeptPanes
<1>5. /\ views'[profile] = w /\ DOMAIN views' = Scopes /\ \A t \in Scopes : IsView(views'[t])
  BY <1>1, <1>2, <1>3, NewView
<1>6. PanelKept' /\ scope' = scope
  BY <1>1, <1>2 DEF PanelKept, pvars, valueVars, liveVars, presetVars, keptVars
<1>7. ViewTypes'
  BY <1>1, <1>2, <1>5, <1>6, AreViews DEF ViewTypes
<1> QED
  BY <1>1, <1>2, <1>3, <1>4, <1>5, <1>6, <1>7, PartsMakeView DEF PanesAs, TabAs, ShownAs

\* Nothing of the view is touched.
LEMMA QuietKeepsView ==
  ASSUME ViewInv, UNCHANGED <<viewVars, scope>>, PanelKept'
  PROVE  ViewInv'
BY DEF ViewInv, ViewTypes, RestartShowsTheSame, PanelKept, viewVars

\* The panel keeps each change of its values, presets and Live mode.
LEMMA KeptFields ==
  ASSUME PanelTypes, scope = profile, NEW x
  PROVE  /\ [kept EXCEPT ![scope].values = x][profile].values = x
         /\ [kept EXCEPT ![scope].values = x][profile].presets = kept[profile].presets
         /\ [kept EXCEPT ![scope].values = x][profile].live = kept[profile].live
         /\ [kept EXCEPT ![scope].presets = x][profile].presets = x
         /\ [kept EXCEPT ![scope].presets = x][profile].values = kept[profile].values
         /\ [kept EXCEPT ![scope].presets = x][profile].live = kept[profile].live
         /\ [kept EXCEPT ![scope].live = x][profile].live = x
         /\ [kept EXCEPT ![scope].live = x][profile].values = kept[profile].values
         /\ [kept EXCEPT ![scope].live = x][profile].presets = kept[profile].presets
BY DEF PanelTypes, Kept

\* What is changed at the panel is remembered.
LEMMA ValuesAreKept ==
  ASSUME PanelTypes, PanelTypes', scope = profile, profile' = profile, PanelKept,
         KeepValues(values'), UNCHANGED <<presets, live>>
  PROVE  PanelKept'
<1>1. values' # None
  BY PanelAssumption DEF PanelTypes
<1>2. /\ kept'[profile].values = values' /\ kept'[profile].presets = presets' /\ kept'[profile].live = live'
  BY KeptFields DEF KeepValues, PanelKept
<1> QED
  BY <1>1, <1>2 DEF PanelKept, KeptValues

LEMMA UserKeepsKept ==
  ASSUME PanelTypes, PanelTypes', scope = profile, profile' = profile, PanelKept, PanelUser
  PROVE  PanelKept'
<1>1. ASSUME NEW v, NEW cols, Notify(v, cols), presets' = presets
      PROVE  PanelKept'
  BY <1>1, ValuesAreKept DEF Notify
<1>2. ASSUME UNCHANGED <<values, presets, live, kept>>
      PROVE  PanelKept'
  BY <1>2 DEF PanelKept
<1>3. ASSUME NEW c \in Columns, NEW p \in Params, NEW n \in Numbers, Edit(c, p, n)
      PROVE  PanelKept'
  BY <1>1, <1>3 DEF Edit, presetVars
<1>4. ASSUME NEW d \in Steps, Drag(d)
      PROVE  PanelKept'
  BY <1>1, <1>4 DEF Drag, presetVars
<1>5. CASE LinkAll
  BY <1>1, <1>5 DEF LinkAll, presetVars
<1>6. CASE Revert
  BY <1>6, ValuesAreKept DEF Revert, presetVars, liveVars
<1>7. ASSUME NEW n \in Names, ApplyPreset(n)
      PROVE  PanelKept'
  BY <1>1, <1>7 DEF ApplyPreset
<1>8. ASSUME NEW n \in Names, SavePreset(n) \/ DeletePreset(n)
      PROVE  PanelKept'
  <2>1. KeepPresets(presets') /\ values' = values /\ live' = live
    BY <1>8 DEF SavePreset, DeletePreset, valueVars, liveVars
  <2> QED
    BY <2>1, KeptFields DEF KeepPresets, PanelKept, KeptValues
<1>9. CASE ToggleLive
  <2>1. KeepLive(live') /\ values' = values /\ presets' = presets
    BY <1>9 DEF ToggleLive, valueVars, presetVars
  <2> QED
    BY <2>1, KeptFields DEF KeepLive, PanelKept, KeptValues
<1>10. CASE Let \/ UnlinkAll \/ \E p \in Params : Press(p) \/ LinkRow(p)
  BY <1>2, <1>10 DEF Let, UnlinkAll, Press, LinkRow, presetVars, liveVars, keptVars
<1>11. CASE \E b \in Buttons : Send(b)
  BY <1>2, <1>11 DEF Send, presetVars, liveVars, keptVars
<1>12. CASE \E i \in DOMAIN log : Resend(i)
  BY <1>2, <1>12 DEF Resend, valueVars, presetVars, liveVars, keptVars
<1> QED
  BY <1>3, <1>4, <1>5, <1>6, <1>7, <1>8, <1>9, <1>10, <1>11, <1>12 DEF PanelUser

LEMMA TimeKeepsKept ==
  ASSUME PanelKept, PanelTime, profile' = profile
  PROVE  PanelKept'
BY DEF PanelKept, PanelTime, Tick, Fire, valueVars, presetVars, keptVars

\* The panes are changed by the user, or by a capture.
LEMMA PanesStepsKeepView ==
  ASSUME ViewInv, ChangePanes \/ Captured
  PROVE  ViewInv'
<1>1. panes \in Panes
  BY DEF ViewInv, ViewTypes
<1>2. /\ [panes EXCEPT !.left = ~@] \in Panes /\ [panes EXCEPT !.right = ~@] \in Panes
      /\ [panes EXCEPT !.right = TRUE, !.view = "step"] \in Panes
  BY <1>1 DEF Panes, Views
<1>3. BothToggled(panes) \in Panes
  BY <1>1 DEF Panes, BothToggled
<1>4. \A v \in Views : RightClicked(panes, v) \in Panes
  BY <1>1 DEF Panes, RightClicked
<1>5. \E ps \in Panes : KeepPanes(ps)
  <2>1. CASE ChangePanes
    BY <2>1, <1>2, <1>3, <1>4 DEF ChangePanes
  <2>2. CASE Captured
    BY <2>2, <1>2 DEF Captured
  <2> QED
    BY <2>1, <2>2
<1>6. UNCHANGED <<pvars, files, profile, shown, listed, plotted, ending>>
  BY DEF ChangePanes, Captured
<1> QED
  BY <1>5, <1>6, PanesKeepView

LEMMA LookingKeepsView ==
  ASSUME ViewInv, Looking
  PROVE  ViewInv'
<1>1. ASSUME SetVisible
      PROVE  ViewInv'
  BY <1>1, ShowKeepsView DEF SetVisible
<1>2. ASSUME SetLaneVisible
      PROVE  ViewInv'
  BY <1>2, ShowKeepsView DEF SetLaneVisible
<1> QED
  BY <1>1, <1>2, SelectKeepsView, ResetKeepsView, PanesStepsKeepView, MoveKeepsView, EndingKeepsView DEF Looking

\* The view's part is kept by every step, and true at the start.
LEMMA ViewStepKeeps ==
  ASSUME ViewInv, PanelTypes, PanelTypes', [Next]_vars
  PROVE  ViewInv'
<1>1. scope = profile /\ PanelKept
  BY ViewInParts
<1>2. ASSUME UNCHANGED <<pvars, viewVars>>
      PROVE  ViewInv'
  BY <1>1, <1>2, QuietKeepsView
     DEF PanelKept, pvars, valueVars, liveVars, presetVars, keptVars, viewVars
<1>3. CASE Looking
  BY <1>3, LookingKeepsView
<1>4. CASE Working
  <2>1. \/ \E p \in Scopes : SwitchProfile(p)
        \/ \E keys \in Documents : SaveConfig(keys)
        \/ Restart \/ Captured
        \/ UNCHANGED <<pvars, viewVars>>
    BY <1>4 DEF Working, Connect, Disconnect, StartReplay, PressStop, PressRun, DropAnchor, Arm, Disarm,
       LiveFrame, SetPeriod
  <2> QED
    BY <2>1, <1>2, SwitchKeepsView, SaveKeepsView, RestartKeepsView, PanesStepsKeepView
<1>5. CASE EngineStep
  <2>1. UNCHANGED <<pvars, viewVars>>
    BY <1>5 DEF EngineStep, DoConfigure, DoSelect, DoScale, DoStart, DoStop, EndOfSession, Stored, EngineOnly
  <2> QED
    BY <2>1, <1>2
<1>6. CASE WindowEvent
  <2>1. UNCHANGED <<viewVars, scope, kept, values, presets, live>>
    BY <1>6 DEF WindowEvent, OnRunning, OnStopped, OnFailed, OnConfigured, RestOfPanel, pvars, keptVars,
       valueVars, presetVars, liveVars
  <2>2. profile' = profile
    BY <2>1 DEF viewVars
  <2> QED
    BY <2>1, <2>2, <1>1, QuietKeepsView DEF PanelKept
<1>7. CASE PanelStep
  <2>1. UNCHANGED viewVars /\ profile' = profile
    BY <1>7 DEF PanelStep, viewVars
  <2>2. PanelKept'
    BY <2>1, <1>1, <1>7, UserKeepsKept, TimeKeepsKept DEF PanelStep
  <2>3. scope' = scope
    <3>1. PanelUser => scope' = scope
      BY DEF PanelUser, Edit, Notify, Press, LinkRow, Drag, Let, LinkAll, UnlinkAll, Revert, ToggleLive,
         ApplyPreset, SavePreset, DeletePreset, Send, Resend, keptVars
    <3>2. PanelTime => scope' = scope
      BY DEF PanelTime, Tick, Fire, keptVars
    <3> QED
      BY <3>1, <3>2, <1>7 DEF PanelStep
  <2> QED
    BY <2>1, <2>2, <2>3, QuietKeepsView
<1>8. CASE SendLine
  <2>1. UNCHANGED <<viewVars, scope, kept, values, presets, live>> /\ profile' = profile
    BY <1>8 DEF SendLine, keptVars, valueVars, presetVars, liveVars, viewVars
  <2> QED
    BY <2>1, <1>1, QuietKeepsView DEF PanelKept
<1>9. CASE UNCHANGED vars
  BY <1>9, <1>2 DEF vars, dvars
<1> QED
  BY <1>3, <1>4, <1>5, <1>6, <1>7, <1>8, <1>9 DEF Next

LEMMA ViewStart ==
  ASSUME Init
  PROVE  ViewInv
<1> DEFINE k == Tab(files[profile], None)
           v == views[profile]
<1>1. /\ files \in [Scopes -> Documents] /\ profile \in Scopes /\ scope = profile /\ shown = k
      /\ views = [s \in Scopes |-> IF s = profile THEN Remembered(Fresh, shown) ELSE Fresh]
      /\ listed = List(Fresh, shown) /\ plotted = listed /\ panes = AllOpen /\ ending = LF
  BY DeskAssumption DEF Init
<1>2. IsView(Fresh)
  BY DEF Fresh, IsView
<1>3. files[profile] \in Seq(StreamNames)
  BY <1>1, DeskAssumption
<1>4. /\ v = Remembered(Fresh, k) /\ IsView(v) /\ v.visible = Fresh.visible /\ v.lane = Fresh.lane
      /\ v.panes = Fresh.panes /\ v.ending = Fresh.ending
      /\ Tab(files[profile], v.stream) = k /\ k \in StreamNames \cup {None}
  BY <1>1, <1>2, <1>3, RememberedRest, RememberedTab, TabIsThere
<1>5. TabAs(v)
  BY <1>1, <1>4 DEF TabAs
<1>6. ShownAs(v)
  <2>1. Visible(v, shown) = Visible(Fresh, shown) /\ LaneOf(v, shown) = LaneOf(Fresh, shown)
    BY <1>4 DEF Visible, LaneOf
  <2> QED
    BY <2>1, <1>1 DEF ShownAs, List
<1>7. PanesAs(v)
  BY <1>1, <1>4 DEF PanesAs, KeptPanes, Fresh, Coerced, AllOpen
<1>8. PanelKept
  BY <1>1 DEF PanelKept, Init, PanelInit, KeptValues, Nothing
<1>9. ViewTypes
  <2>1. panes \in Panes
    BY <1>1 DEF AllOpen, Panes, Views
  <2>2. DOMAIN listed = {"visible", "lane", "lanes"} /\ DOMAIN plotted = {"visible", "lane", "lanes"}
    BY <1>1 DEF List, NoSignals
  <2>3. DOMAIN views = Scopes /\ \A s \in Scopes : IsView(views[s])
    BY <1>1, <1>2, <1>4
  <2> HIDE DEF k
  <2> QED
    BY <1>1, <1>4, <2>1, <2>2, <2>3 DEF ViewTypes, IsView
<1> QED
  BY <1>5, <1>6, <1>7, <1>8, <1>9, SameInParts DEF ViewInv

----------------------------------------------------------------------------
(* The queue of calls. *)

\* The queue with a call more.
LEMMA Appended ==
  ASSUME NEW cs \in Seq(Calls), NEW c \in Calls
  PROVE  LET ds == Append(cs, c) IN
         /\ ds \in Seq(Calls) /\ Len(cs) \in Nat /\ Len(ds) = Len(cs) + 1 /\ ds[Len(cs) + 1] = c
         /\ \A i \in 1..Len(cs) : ds[i] = cs[i]
BY AppendProperties, LenProperties

\* What that is to the last call of a kind, to none of a kind, to the periods set.
LEMMA LastAppended ==
  ASSUME NEW cs \in Seq(Calls), NEW c \in Calls, NEW do, NEW i \in 1..(Len(cs) + 1),
         LastOf(Append(cs, c), do, i)
  PROVE  /\ c.do = do => i = Len(cs) + 1
         /\ c.do # do => i \in 1..Len(cs) /\ LastOf(cs, do, i)
<1> DEFINE ds == Append(cs, c)
           n == Len(cs)
<1>1. n \in Nat /\ Len(ds) = n + 1 /\ ds[n + 1] = c /\ \A j \in 1..n : ds[j] = cs[j]
  BY Appended
<1>2. i \in 1..(n + 1) /\ ds[i].do = do /\ \A j \in (i + 1)..(n + 1) : ds[j].do # do
  BY <1>1 DEF LastOf
<1> HIDE DEF ds
<1>3. CASE c.do = do
  BY <1>1, <1>2, <1>3
<1>4. CASE c.do # do
  <2>1. i \in 1..n
    BY <1>1, <1>2, <1>4
  <2>2. cs[i].do = do /\ \A j \in (i + 1)..n : cs[j].do # do
    BY <1>1, <1>2, <2>1
  <2> QED
    BY <1>4, <2>1, <2>2 DEF LastOf
<1> QED
  BY <1>3, <1>4

LEMMA WithoutAppended ==
  ASSUME NEW cs \in Seq(Calls), NEW c \in Calls, NEW do
  PROVE  Without(Append(cs, c), do) <=> Without(cs, do) /\ c.do # do
<1> DEFINE ds == Append(cs, c)
           n == Len(cs)
<1>1. n \in Nat /\ Len(ds) = n + 1 /\ ds[n + 1] = c /\ \A j \in 1..n : ds[j] = cs[j]
  BY Appended
<1> HIDE DEF ds
<1>2. (\A j \in 1..Len(ds) : ds[j].do # do) <=> (\A j \in 1..n : cs[j].do # do) /\ c.do # do
  BY <1>1
<1> QED
  BY <1>2 DEF Without, ds

LEMMA ScalesAppended ==
  ASSUME NEW cs \in Seq(Calls), NEW c \in Calls, NEW k
  PROVE  /\ \A i \in 0..Len(cs) :
              Scales(Append(cs, c), i, k) <=> Scales(cs, i, k) \/ (c.do = "scale" /\ c.key = k)
         /\ ~Scales(Append(cs, c), Len(cs) + 1, k)
<1> DEFINE ds == Append(cs, c)
           n == Len(cs)
<1>1. n \in Nat /\ Len(ds) = n + 1 /\ ds[n + 1] = c /\ \A j \in 1..n : ds[j] = cs[j]
  BY Appended
<1> HIDE DEF ds
<1>2. ASSUME NEW i \in 0..n
      PROVE  (\E j \in (i + 1)..Len(ds) : ds[j].do = "scale" /\ ds[j].key = k) <=>
             (\E j \in (i + 1)..n : cs[j].do = "scale" /\ cs[j].key = k) \/ (c.do = "scale" /\ c.key = k)
  <2>1. \A j \in (i + 1)..n : j \in 1..n /\ j \in (i + 1)..(n + 1)
    BY <1>1
  <2>2. \A j \in (i + 1)..(n + 1) : j \in (i + 1)..n \/ j = n + 1
    BY <1>1
  <2>3. n + 1 \in (i + 1)..(n + 1)
    BY <1>1
  <2> QED
    BY <1>1, <2>1, <2>2, <2>3
<1>3. ~\E j \in (n + 1 + 1)..Len(ds) : ds[j].do = "scale" /\ ds[j].key = k
  BY <1>1
<1> QED
  BY <1>2, <1>3 DEF Scales, ds

\* The queue with a call less.
LEMMA Taken1 ==
  ASSUME NEW cs \in Seq(Calls), cs # <<>>
  PROVE  LET ds == Tail(cs) IN
         /\ ds \in Seq(Calls) /\ Len(cs) \in Nat \ {0} /\ Len(ds) = Len(cs) - 1
         /\ \A i \in 1..(Len(cs) - 1) : ds[i] = cs[i + 1]
         /\ Head(cs) = cs[1] /\ Head(cs) \in Calls
BY HeadTailProperties, LenProperties, EmptySeq, ElementOfSeq

\* What that is to the same.
LEMMA LastTaken ==
  ASSUME NEW cs \in Seq(Calls), cs # <<>>, NEW do, NEW i \in 1..Len(Tail(cs)), LastOf(Tail(cs), do, i)
  PROVE  i + 1 \in 1..Len(cs) /\ LastOf(cs, do, i + 1) /\ Tail(cs)[i] = cs[i + 1]
<1> DEFINE ds == Tail(cs)
           n == Len(cs)
<1>1. n \in Nat \ {0} /\ Len(ds) = n - 1 /\ \A j \in 1..(n - 1) : ds[j] = cs[j + 1]
  BY Taken1
<1>2. i \in 1..(n - 1) /\ ds[i].do = do /\ \A j \in (i + 1)..(n - 1) : ds[j].do # do
  BY <1>1 DEF LastOf
<1> HIDE DEF ds
<1>3. ASSUME NEW j \in (i + 2)..n
      PROVE  cs[j].do # do
  <2>1. j - 1 \in (i + 1)..(n - 1) /\ j - 1 \in 1..(n - 1) /\ (j - 1) + 1 = j
    BY <1>1, <1>2
  <2> QED
    BY <2>1, <1>1, <1>2
<1>4. cs[i + 1].do = do /\ ds[i] = cs[i + 1] /\ i + 1 \in 1..n /\ (i + 1) + 1 = i + 2
  BY <1>1, <1>2
<1> QED
  BY <1>3, <1>4 DEF LastOf, ds

LEMMA WithoutTaken ==
  ASSUME NEW cs \in Seq(Calls), cs # <<>>, NEW do, Without(Tail(cs), do)
  PROVE  /\ Head(cs).do # do => Without(cs, do)
         /\ Head(cs).do = do => 1 \in 1..Len(cs) /\ LastOf(cs, do, 1)
<1> DEFINE ds == Tail(cs)
           n == Len(cs)
<1>1. n \in Nat \ {0} /\ Len(ds) = n - 1 /\ (\A j \in 1..(n - 1) : ds[j] = cs[j + 1]) /\ Head(cs) = cs[1]
  BY Taken1
<1>2. \A j \in 1..(n - 1) : ds[j].do # do
  BY <1>1 DEF Without
<1> HIDE DEF ds
<1>3. ASSUME NEW j \in 2..n
      PROVE  cs[j].do # do
  <2>1. j - 1 \in 1..(n - 1) /\ (j - 1) + 1 = j
    BY <1>1
  <2> QED
    BY <2>1, <1>1, <1>2
<1>4. \A j \in 1..n : j = 1 \/ j \in 2..n
  BY <1>1
<1>5. 1 \in 1..n /\ 1 + 1 = 2
  BY <1>1
<1> QED
  BY <1>1, <1>3, <1>4, <1>5 DEF Without, LastOf

LEMMA ScalesTaken ==
  ASSUME NEW cs \in Seq(Calls), cs # <<>>, NEW k
  PROVE  /\ \A i \in Nat : Scales(Tail(cs), i, k) <=> Scales(cs, i + 1, k)
         /\ Scales(cs, 0, k) <=> Scales(cs, 1, k) \/ (Head(cs).do = "scale" /\ Head(cs).key = k)
<1> DEFINE ds == Tail(cs)
           n == Len(cs)
           To(c) == c.do = "scale" /\ c.key = k
<1>1. n \in Nat \ {0} /\ Len(ds) = n - 1 /\ (\A j \in 1..(n - 1) : ds[j] = cs[j + 1]) /\ Head(cs) = cs[1]
  BY Taken1
<1> HIDE DEF ds, To
<1>2. ASSUME NEW i \in Nat
      PROVE  (\E j \in (i + 1)..(n - 1) : To(ds[j])) <=> \E j \in (i + 1 + 1)..n : To(cs[j])
  <2>1. ASSUME NEW j \in (i + 1)..(n - 1), To(ds[j])
        PROVE  \E m \in (i + 1 + 1)..n : To(cs[m])
    <3>1. j \in 1..(n - 1) /\ j + 1 \in (i + 1 + 1)..n
      BY <1>1
    <3>2. ds[j] = cs[j + 1]
      BY <1>1, <3>1
    <3>3. To(cs[j + 1])
      BY <2>1, <3>2
    <3> QED
      BY <3>1, <3>3
  <2>2. ASSUME NEW j \in (i + 1 + 1)..n, To(cs[j])
        PROVE  \E m \in (i + 1)..(n - 1) : To(ds[m])
    <3>1. j - 1 \in 1..(n - 1) /\ j - 1 \in (i + 1)..(n - 1) /\ (j - 1) + 1 = j
      BY <1>1
    <3>2. ds[j - 1] = cs[j]
      BY <1>1, <3>1
    <3>3. To(ds[j - 1])
      BY <2>2, <3>2
    <3> QED
      BY <3>1, <3>3
  <2> QED
    BY <2>1, <2>2
<1>3. (\E j \in (0 + 1)..n : To(cs[j])) <=> (\E j \in (1 + 1)..n : To(cs[j])) \/ To(cs[1])
  BY <1>1
<1> QED
  BY <1>1, <1>2, <1>3 DEF Scales, ds, To

\* A call is queued: a configuration, a stream, a period, or something else.
LEMMA ConfigureQueued ==
  ASSUME NEW cs \in Seq(Calls), NEW c \in Calls, c.do = "configure", NEW now, NEW set
  PROVE  StoresFrom(Append(cs, c), now, c.keys) /\ PeriodsFrom(Append(cs, c), now, set, {})
<1> DEFINE ds == Append(cs, c)
<1>1. Len(ds) = Len(cs) + 1 /\ ds[Len(cs) + 1] = c /\ ~Without(ds, "configure")
  BY Appended, WithoutAppended
<1>2. ASSUME NEW i \in 1..Len(ds), LastOf(ds, "configure", i)
      PROVE  i = Len(cs) + 1
  BY <1>1, <1>2, LastAppended
<1>3. \A k : ~Scales(ds, Len(cs) + 1, k)
  BY ScalesAppended
<1> HIDE DEF ds
<1> QED
  BY <1>1, <1>2, <1>3 DEF StoresFrom, PeriodsFrom, ds

\* A stream is selected.
LEMMA StreamQueued ==
  ASSUME NEW cs \in Seq(Calls), NEW c \in Calls, c.do = "select", NEW now
  PROVE  StreamFrom(Append(cs, c), now, c.key)
<1> DEFINE ds == Append(cs, c)
<1>1. Len(ds) = Len(cs) + 1 /\ ds[Len(cs) + 1] = c /\ ~Without(ds, "select")
  BY Appended, WithoutAppended
<1>2. ASSUME NEW i \in 1..Len(ds), LastOf(ds, "select", i)
      PROVE  i = Len(cs) + 1
  BY <1>1, <1>2, LastAppended
<1> HIDE DEF ds
<1> QED
  BY <1>1, <1>2 DEF StreamFrom, ds

\* Another call leaves the stores, or the stream, to come.
LEMMA StoresWait ==
  ASSUME NEW cs \in Seq(Calls), NEW c \in Calls, c.do # "configure", NEW now, NEW keys,
         StoresFrom(cs, now, keys)
  PROVE  StoresFrom(Append(cs, c), now, keys)
<1> DEFINE ds == Append(cs, c)
<1>1. ASSUME NEW i \in 1..Len(ds), LastOf(ds, "configure", i)
      PROVE  ds[i].keys = keys
  <2>1. i \in 1..(Len(cs) + 1)
    BY Appended
  <2>2. i \in 1..Len(cs) /\ LastOf(cs, "configure", i)
    BY <2>1, <1>1, LastAppended
  <2>3. ds[i] = cs[i]
    BY <2>2, Appended
  <2> QED
    BY <2>2, <2>3 DEF StoresFrom
<1>2. Without(ds, "configure") => now = keys
  BY WithoutAppended DEF StoresFrom
<1> QED
  BY <1>1, <1>2 DEF StoresFrom

LEMMA StreamWaits ==
  ASSUME NEW cs \in Seq(Calls), NEW c \in Calls, c.do # "select", NEW now, NEW k,
         StreamFrom(cs, now, k)
  PROVE  StreamFrom(Append(cs, c), now, k)
<1> DEFINE ds == Append(cs, c)
<1>1. ASSUME NEW i \in 1..Len(ds), LastOf(ds, "select", i)
      PROVE  ds[i].key = k
  <2>1. i \in 1..(Len(cs) + 1)
    BY Appended
  <2>2. i \in 1..Len(cs) /\ LastOf(cs, "select", i)
    BY <2>1, <1>1, LastAppended
  <2>3. ds[i] = cs[i]
    BY <2>2, Appended
  <2> QED
    BY <2>2, <2>3 DEF StreamFrom
<1>2. Without(ds, "select") => now = k
  BY WithoutAppended DEF StreamFrom
<1> QED
  BY <1>1, <1>2 DEF StreamFrom

\* A period that is set is one of those to come; any other call sets none.
LEMMA PeriodsQueued ==
  ASSUME NEW cs \in Seq(Calls), NEW c \in Calls, c.do # "configure",
         NEW now \in SUBSET StreamNames, NEW set, NEW periods,
         PeriodsFrom(cs, now, set, periods),
         NEW more, more = {k \in StreamNames : c.do = "scale" /\ c.key = k}
  PROVE  PeriodsFrom(Append(cs, c), now, set, periods \cup more)
<1> DEFINE ds == Append(cs, c)
<1>1. ASSUME NEW i \in 0..Len(cs), NEW k \in StreamNames
      PROVE  Scales(ds, i, k) <=> Scales(cs, i, k) \/ k \in more
  BY ScalesAppended
<1>2. ASSUME NEW i \in 1..Len(ds), LastOf(ds, "configure", i), NEW k \in StreamNames
      PROVE  k \in periods \cup more <=> Scales(ds, i, k)
  <2>1. i \in 1..(Len(cs) + 1)
    BY Appended
  <2>2. i \in 1..Len(cs) /\ LastOf(cs, "configure", i) /\ i \in 0..Len(cs)
    BY <2>1, <1>2, LastAppended, Appended
  <2>3. k \in periods <=> Scales(cs, i, k)
    BY <2>2 DEF PeriodsFrom
  <2> QED
    BY <2>2, <2>3, <1>1
<1>3. ASSUME Without(ds, "configure"), NEW k \in now
      PROVE  k \in periods \cup more <=> k \in set \/ Scales(ds, 0, k)
  <2>1. Without(cs, "configure") /\ 0 \in 0..Len(cs) /\ k \in StreamNames
    BY <1>3, WithoutAppended, Appended
  <2>2. k \in periods <=> k \in set \/ Scales(cs, 0, k)
    BY <2>1, <1>3 DEF PeriodsFrom
  <2> QED
    BY <2>1, <2>2, <1>1
<1> HIDE DEF ds
<1> QED
  BY <1>2, <1>3 DEF PeriodsFrom, ds

\* The engine takes a call.
LEMMA StoresTaken ==
  ASSUME NEW cs \in Seq(Calls), cs # <<>>, NEW now, NEW keys, StoresFrom(cs, now, keys)
  PROVE  /\ Head(cs).do # "configure" => StoresFrom(Tail(cs), now, keys)
         /\ Head(cs).do = "configure" => StoresFrom(Tail(cs), Head(cs).keys, keys)
<1> DEFINE ds == Tail(cs)
<1>1. ASSUME NEW i \in 1..Len(ds), LastOf(ds, "configure", i)
      PROVE  ds[i].keys = keys
  BY <1>1, LastTaken DEF StoresFrom
<1>2. ASSUME Without(ds, "configure")
      PROVE  /\ Head(cs).do # "configure" => now = keys
             /\ Head(cs).do = "configure" => Head(cs).keys = keys
  BY <1>2, WithoutTaken, Taken1 DEF StoresFrom
<1> HIDE DEF ds
<1> QED
  BY <1>1, <1>2 DEF StoresFrom, ds

\* It takes it: what comes of the stream.
LEMMA StreamTaken ==
  ASSUME NEW cs \in Seq(Calls), cs # <<>>, NEW now, NEW k, StreamFrom(cs, now, k)
  PROVE  /\ Head(cs).do # "select" => StreamFrom(Tail(cs), now, k)
         /\ Head(cs).do = "select" => StreamFrom(Tail(cs), Head(cs).key, k)
<1> DEFINE ds == Tail(cs)
<1>1. ASSUME NEW i \in 1..Len(ds), LastOf(ds, "select", i)
      PROVE  ds[i].key = k
  BY <1>1, LastTaken DEF StreamFrom
<1>2. ASSUME Without(ds, "select")
      PROVE  /\ Head(cs).do # "select" => now = k
             /\ Head(cs).do = "select" => Head(cs).key = k
  BY <1>2, WithoutTaken, Taken1 DEF StreamFrom
<1> HIDE DEF ds
<1> QED
  BY <1>1, <1>2 DEF StreamFrom, ds

\* It takes it: what comes of the periods.
LEMMA PeriodsTaken ==
  ASSUME NEW cs \in Seq(Calls), cs # <<>>, NEW now \in SUBSET StreamNames, NEW set, NEW periods,
         PeriodsFrom(cs, now, set, periods)
  PROVE  /\ Head(cs).do = "configure" => PeriodsFrom(Tail(cs), Head(cs).keys, {}, periods)
         /\ Head(cs).do = "scale" => PeriodsFrom(Tail(cs), now, set \cup ({Head(cs).key} \cap now), periods)
         /\ Head(cs).do \notin {"configure", "scale"} => PeriodsFrom(Tail(cs), now, set, periods)
<1> DEFINE ds == Tail(cs)
<1>0. Head(cs) \in Calls
  BY Taken1
<1>1. ASSUME NEW i \in 1..Len(ds), LastOf(ds, "configure", i), NEW k \in StreamNames
      PROVE  k \in periods <=> Scales(ds, i, k)
  <2>1. i + 1 \in 1..Len(cs) /\ LastOf(cs, "configure", i + 1) /\ i \in Nat
    BY <1>1, LastTaken
  <2>2. k \in periods <=> Scales(cs, i + 1, k)
    BY <2>1 DEF PeriodsFrom
  <2> QED
    BY <2>1, <2>2, ScalesTaken
<1>2. ASSUME NEW k
      PROVE  /\ Scales(ds, 0, k) <=> Scales(cs, 1, k)
             /\ Scales(cs, 0, k) <=> Scales(cs, 1, k) \/ (Head(cs).do = "scale" /\ Head(cs).key = k)
  BY ScalesTaken
<1>3. ASSUME Without(ds, "configure"), Head(cs).do = "configure", NEW k \in Head(cs).keys
      PROVE  k \in periods <=> Scales(ds, 0, k)
  <2>1. 1 \in 1..Len(cs) /\ LastOf(cs, "configure", 1)
    BY <1>3, WithoutTaken
  <2>2. k \in StreamNames
    BY <1>0, <1>3 DEF Calls
  <2>3. k \in periods <=> Scales(cs, 1, k)
    BY <2>1, <2>2 DEF PeriodsFrom
  <2> QED
    BY <2>3, <1>2
<1>4. ASSUME Without(ds, "configure"), Head(cs).do # "configure", NEW k \in now
      PROVE  k \in periods <=> k \in set \/ Scales(cs, 0, k)
  BY <1>4, WithoutTaken DEF PeriodsFrom
<1> HIDE DEF ds
<1>5. CASE Head(cs).do = "configure"
  BY <1>1, <1>3, <1>5 DEF PeriodsFrom, ds
<1>6. CASE Head(cs).do = "scale"
  <2>1. ASSUME Without(ds, "configure"), NEW k \in now
        PROVE  k \in periods <=> k \in set \cup ({Head(cs).key} \cap now) \/ Scales(ds, 0, k)
    BY <2>1, <1>2, <1>4, <1>6
  <2> QED
    BY <1>1, <2>1, <1>6 DEF PeriodsFrom, ds
<1>7. CASE Head(cs).do \notin {"configure", "scale"}
  <2>1. ASSUME Without(ds, "configure"), NEW k \in now
        PROVE  k \in periods <=> k \in set \/ Scales(ds, 0, k)
    BY <2>1, <1>2, <1>4, <1>7
  <2> QED
    BY <1>1, <2>1, <1>7 DEF PeriodsFrom, ds
<1> QED
  BY <1>5, <1>6, <1>7

\* Signals after signals.
LEMMA SilentJoined ==
  ASSUME NEW es \in Seq(Events), NEW fs \in Seq(Events), NEW e
  PROVE  Silent(es \o fs, e) <=> Silent(es, e) /\ Silent(fs, e)
<1> DEFINE gs == es \o fs
           m == Len(es)
           n == Len(fs)
<1>1. /\ m \in Nat /\ n \in Nat /\ Len(gs) = m + n
      /\ \A i \in 1..(m + n) : gs[i] = IF i <= m THEN es[i] ELSE fs[i - m]
  BY ConcatProperties, LenProperties
<1> HIDE DEF gs
<1>2. ASSUME Silent(gs, e)
      PROVE  Silent(es, e) /\ Silent(fs, e)
  <2>1. ASSUME NEW i \in 1..m
        PROVE  es[i] # e
    <3>1. i \in 1..(m + n) /\ i <= m
      BY <1>1
    <3> QED
      BY <1>1, <1>2, <3>1 DEF Silent
  <2>2. ASSUME NEW i \in 1..n
        PROVE  fs[i] # e
    <3>1. i + m \in 1..(m + n) /\ ~(i + m <= m) /\ (i + m) - m = i
      BY <1>1
    <3> QED
      BY <1>1, <1>2, <3>1 DEF Silent
  <2> QED
    BY <2>1, <2>2 DEF Silent
<1>3. ASSUME Silent(es, e), Silent(fs, e), NEW i \in 1..Len(gs)
      PROVE  gs[i] # e
  <2>1. i \in 1..(m + n)
    BY <1>1
  <2>2. i <= m => i \in 1..m
    BY <1>1
  <2>3. ~(i <= m) => i - m \in 1..n
    BY <1>1
  <2> QED
    BY <1>1, <1>3, <2>1, <2>2, <2>3 DEF Silent
<1> QED
  BY <1>2, <1>3 DEF Silent, gs

\* A signal less.
LEMMA SilentTaken ==
  ASSUME NEW es \in Seq(Events), es # <<>>, NEW e
  PROVE  /\ Tail(es) \in Seq(Events)
         /\ Silent(Tail(es), e) /\ Head(es) # e => Silent(es, e)
<1>1. /\ Tail(es) \in Seq(Events) /\ Head(es) = es[1] /\ Len(es) \in Nat \ {0} /\ Len(Tail(es)) = Len(es) - 1
      /\ \A i \in 1..(Len(es) - 1) : Tail(es)[i] = es[i + 1]
  BY HeadTailProperties, LenProperties, EmptySeq
<1>2. ASSUME Silent(Tail(es), e), Head(es) # e, NEW i \in 1..Len(es)
      PROVE  es[i] # e
  <2>1. CASE i = 1
    BY <2>1, <1>1, <1>2
  <2>2. CASE i # 1
    <3>1. i - 1 \in 1..(Len(es) - 1) /\ (i - 1) + 1 = i
      BY <2>2, <1>1
    <3>2. Tail(es)[i - 1] = es[i] /\ i - 1 \in 1..Len(Tail(es))
      BY <3>1, <1>1
    <3> QED
      BY <3>2, <1>2 DEF Silent
  <2> QED
    BY <2>1, <2>2
<1> QED
  BY <1>1, <1>2 DEF Silent

\* One call, or two, at the end of the queue.
LEMMA Joined ==
  ASSUME NEW S, NEW cs \in Seq(S), NEW c \in S, NEW d \in S
  PROVE  /\ cs \o <<c>> = Append(cs, c)
         /\ cs \o <<c, d>> = Append(Append(cs, c), d)
         /\ <<c>> \o <<d>> = <<c, d>> /\ <<>> \o <<c>> = <<c>> /\ <<c>> \o <<>> = <<c>>
         /\ <<c>> = Append(<<>>, c) /\ <<c, d>> = Append(Append(<<>>, c), d)
<1>1. <<c>> \o <<d>> = <<c, d>>
  <2>1. <<c>> \in Seq(S) /\ <<d>> \in Seq(S) /\ Len(<<c>>) = 1 /\ Len(<<d>>) = 1
    OBVIOUS
  <2>2. <<c>> \o <<d>> = Append(<<c>>, d)
    BY <2>1, AppendIsConcat
  <2>3. Append(<<c>>, d) = <<c, d>>
    <3>1. <<c, d>> \in Seq(S) /\ Len(<<c, d>>) = 2 /\ <<c, d>>[1] = c /\ <<c, d>>[2] = d /\ <<c>>[1] = c
      OBVIOUS
    <3>2. /\ Append(<<c>>, d) \in Seq(S) /\ Len(Append(<<c>>, d)) = 2
          /\ Append(<<c>>, d)[1] = c /\ Append(<<c>>, d)[2] = d
      BY <2>1, <3>1, AppendProperties
    <3>3. \A i \in 1..2 : Append(<<c>>, d)[i] = <<c, d>>[i]
      BY <3>1, <3>2
    <3> QED
      BY <3>1, <3>2, <3>3, SeqEqual
  <2> QED
    BY <2>2, <2>3
<1>2. <<>> \o <<c>> = <<c>> /\ <<c>> \o <<>> = <<c>>
  OBVIOUS
<1>3. <<c>> = Append(<<>>, c)
  OBVIOUS
<1>4. <<c, d>> = Append(Append(<<>>, c), d)
  OBVIOUS
<1>5. cs \o <<c>> = Append(cs, c)
  OBVIOUS
<1>6. cs \o <<c, d>> = Append(Append(cs, c), d)
  OBVIOUS
<1> QED
  BY <1>1, <1>2, <1>3, <1>4, <1>5, <1>6

\* A selection and a configuration, as calls.
Sel(k) == [do |-> "select", key |-> k]
Conf(keys) == [do |-> "configure", keys |-> keys]

\* What the window posts are calls.
LEMMA CallsAre ==
  /\ \A k \in StreamNames : Sel(k) \in Calls /\ Sel(k).do = "select" /\ Sel(k).key = k
  /\ \A keys \in SUBSET StreamNames : Conf(keys) \in Calls /\ Conf(keys).do = "configure" /\ Conf(keys).keys = keys
  /\ \A k \in StreamNames : [do |-> "scale", key |-> k] \in Calls
  /\ [do |-> "start"] \in Calls /\ [do |-> "stop"] \in Calls
BY DEF Sel, Conf, Calls

\* A call that only the session is about.
LEMMA OtherQueued ==
  ASSUME NEW cs \in Seq(Calls), NEW c \in Calls, c.do \in {"start", "stop"},
         NEW now \in SUBSET StreamNames, NEW keys, NEW act, NEW k, NEW set, NEW periods,
         QueueOf(cs, now, keys, act, k, set, periods)
  PROVE  Append(cs, c) \in Seq(Calls) /\ QueueOf(Append(cs, c), now, keys, act, k, set, periods)
<1>1. StoresFrom(Append(cs, c), now, keys) /\ (k # None => StreamFrom(Append(cs, c), act, k))
  BY StoresWait, StreamWaits DEF QueueOf
<1>2. PeriodsFrom(Append(cs, c), now, set, periods)
  <2> DEFINE more == {j \in StreamNames : c.do = "scale" /\ c.key = j}
  <2>1. PeriodsFrom(Append(cs, c), now, set, periods \cup more)
    BY PeriodsQueued DEF QueueOf
  <2>2. periods \cup more = periods
    OBVIOUS
  <2> QED
    BY <2>1, <2>2
<1> QED
  BY <1>1, <1>2, Appended DEF QueueOf

\* A stream is selected, and all else waits.
LEMMA SelectQueued ==
  ASSUME NEW cs \in Seq(Calls), NEW j \in StreamNames,
         NEW now \in SUBSET StreamNames, NEW keys, NEW act, NEW set, NEW periods,
         StoresFrom(cs, now, keys), PeriodsFrom(cs, now, set, periods)
  PROVE  /\ Append(cs, Sel(j)) \in Seq(Calls)
         /\ QueueOf(Append(cs, Sel(j)), now, keys, act, j, set, periods)
<1> DEFINE c == Sel(j)
<1>1. c \in Calls /\ c.do = "select" /\ c.key = j
  BY CallsAre
<1> HIDE DEF c
<1>2. StoresFrom(Append(cs, c), now, keys) /\ StreamFrom(Append(cs, c), act, j)
  BY <1>1, StoresWait, StreamQueued
<1>3. PeriodsFrom(Append(cs, c), now, set, periods)
  <2> DEFINE more == {k \in StreamNames : c.do = "scale" /\ c.key = k}
  <2>1. PeriodsFrom(Append(cs, c), now, set, periods \cup more)
    BY <1>1, PeriodsQueued
  <2>2. periods \cup more = periods
    BY <1>1
  <2> QED
    BY <2>1, <2>2
<1> QED
  BY <1>1, <1>2, <1>3, Appended DEF QueueOf, c

\* A configuration, behind the selection of a stream or of none.
LEMMA ConfigQueued ==
  ASSUME NEW cs \in Seq(Calls), NEW k \in StreamNames \cup {None}, NEW keys \in Seq(StreamNames),
         NEW now, NEW act, NEW set,
         NEW ds, ds = cs \o (Selected(k) \o Configured(keys))
  PROVE  /\ ds \in Seq(Calls) /\ QueueOf(ds, now, ToSet(keys), act, k, set, {})
         /\ ~Without(ds, "configure")
<1> DEFINE c == Conf(ToSet(keys))
<1>1. ToSet(keys) \in SUBSET StreamNames
  BY ElementOfSeq DEF ToSet
<1>2. c \in Calls /\ c.do = "configure" /\ c.keys = ToSet(keys) /\ Configured(keys) = <<c>>
  BY <1>1, CallsAre DEF Configured, Conf
<1> HIDE DEF c
<1>3. CASE k = None
  <2>1. Selected(k) = <<>>
    BY <1>3 DEF Selected
  <2>2. ds = Append(cs, c)
    BY <1>2, <2>1, Joined
  <2>3. StoresFrom(Append(cs, c), now, c.keys) /\ PeriodsFrom(Append(cs, c), now, set, {})
    BY <1>2, ConfigureQueued
  <2>4. ~Without(Append(cs, c), "configure") /\ Append(cs, c) \in Seq(Calls)
    BY <1>2, WithoutAppended, Appended
  <2> QED
    BY <1>2, <1>3, <2>2, <2>3, <2>4 DEF QueueOf
<1>4. CASE k # None
  <2>1. k \in StreamNames /\ Sel(k) \in Calls /\ Sel(k).do = "select" /\ Sel(k).key = k
    BY <1>4, CallsAre
  <2>2. Selected(k) = <<Sel(k)>>
    BY <1>4 DEF Selected, Sel
  <2> DEFINE es == Append(cs, Sel(k))
  <2>3. es \in Seq(Calls) /\ StreamFrom(es, act, k)
    BY <2>1, StreamQueued, Appended
  <2>4. ds = Append(es, c)
    BY <1>2, <2>1, <2>2, Joined
  <2> HIDE DEF es
  <2>5. StreamFrom(ds, act, k)
    BY <1>2, <2>3, <2>4, StreamWaits
  <2>6. StoresFrom(ds, now, c.keys) /\ PeriodsFrom(ds, now, set, {})
    BY <1>2, <2>3, <2>4, ConfigureQueued
  <2>7. ~Without(ds, "configure") /\ ds \in Seq(Calls)
    <3>1. ~Without(Append(es, c), "configure")
      BY <1>2, <2>3, WithoutAppended
    <3>2. Append(es, c) \in Seq(Calls)
      BY <1>2, <2>3, Appended
    <3> QED
      BY <3>1, <3>2, <2>4
  <2> QED
    BY <1>2, <2>5, <2>6, <2>7 DEF QueueOf
<1> QED
  BY <1>3, <1>4

\* The streams of a file.
LEMMA StreamsOfFile ==
  ASSUME NEW keys \in Seq(StreamNames)
  PROVE  ToSet(keys) \in SUBSET StreamNames
BY ElementOfSeq DEF ToSet

\* The feed is bound to the store of what is shown.
LEMMA BoundFeed ==
  ASSUME NEW k, Bind(k), shown' = k, UNCHANGED <<generation, stores>>
  PROVE  FeedComing'
BY DEF Bind, FeedComing, Store

\* What a call or a signal changes of the queues leaves the feed's store where it was.
LEMMA FeedWaits ==
  ASSUME FeedComing, UNCHANGED <<generation, stores, shown, feed, watched>>,
         Without(calls', "configure") => Without(calls, "configure"),
         Silent(events', "configured") => Silent(events, "configured")
  PROVE  FeedComing'
BY DEF FeedComing, NotTold, Store

\* SelectStream, ResetView.
LEMMA StreamStepKeepsQueue ==
  ASSUME QueueInv, NEW k \in StreamNames, NEW v,
         Select(k, v, markers), Call(Selected(k)),
         UNCHANGED <<files, profile, override, engineVars, events>>
  PROVE  QueueInv'
<1>1. k # None
  BY DeskAssumption
<1>2. QueueTypes /\ QueueOf(calls, stores, ToSet(files[profile]), active, shown, scaled, override)
  BY DEF QueueInv
<1>3. calls \in Seq(Calls) /\ Sel(k) \in Calls /\ stores \in SUBSET StreamNames
  BY <1>2, CallsAre DEF QueueTypes
<1>4. calls' = Append(calls, Sel(k))
  BY <1>1, <1>3, Joined DEF Call, Selected, Sel
<1>5. shown' = k /\ Bind(k)
  BY DEF Select
<1>6. UNCHANGED <<generation, stores, scaled, active, session, events, files, profile, override>>
  BY DEF engineVars
<1>7. /\ Append(calls, Sel(k)) \in Seq(Calls)
      /\ QueueOf(Append(calls, Sel(k)), stores, ToSet(files[profile]), active, k, scaled, override)
  BY <1>2, <1>3, SelectQueued DEF QueueOf
<1>8. FeedComing'
  BY <1>5, <1>6, BoundFeed
<1>9. QueueOf(calls, stores, ToSet(files[profile]), active, shown, scaled, override)'
  BY <1>4, <1>5, <1>6, <1>7
<1>10. QueueTypes'
  BY <1>2, <1>4, <1>6, <1>7 DEF QueueTypes
<1> QED
  BY <1>8, <1>9, <1>10 DEF QueueInv

\* Another profile, or the same with another file: SwitchProfile, SaveConfig.
LEMMA ConfigStepKeepsQueue ==
  ASSUME QueueTypes, NEW k \in StreamNames \cup {None}, NEW keys \in Seq(StreamNames),
         shown' = k, k # None => Bind(k), override' = {}, Call(Selected(k) \o Configured(keys)),
         files'[profile'] = keys, UNCHANGED <<engineVars, events>>
  PROVE  QueueInv'
<1>1. UNCHANGED <<generation, stores, scaled, active, session, events>>
  BY DEF engineVars
<1>2. calls \in Seq(Calls) /\ calls' = calls \o (Selected(k) \o Configured(keys))
  BY DEF QueueTypes, Call
<1>3. /\ calls' \in Seq(Calls) /\ QueueOf(calls', stores, ToSet(keys), active, k, scaled, {})
      /\ ~Without(calls', "configure")
  BY <1>2, ConfigQueued
<1>4. QueueTypes'
  BY <1>1, <1>3 DEF QueueTypes
<1>5. FeedComing'
  BY <1>3 DEF FeedComing
<1>6. QueueOf(calls, stores, ToSet(files[profile]), active, shown, scaled, override)'
  BY <1>1, <1>3
<1> QED
  BY <1>4, <1>5, <1>6 DEF QueueInv

\* The calls of a run of the application, which has no streams yet.
LEMMA FirstCalls ==
  ASSUME NEW k \in StreamNames \cup {None}, NEW c \in Calls, c.do = "configure",
         NEW cs, cs = <<c>> \o Selected(k)
  PROVE  cs \in Seq(Calls) /\ ~Without(cs, "configure") /\ QueueOf(cs, {}, c.keys, None, k, {}, {})
<1> DEFINE es == Append(<<>>, c)
<1>1. <<>> \in Seq(Calls)
  BY EmptySeq
<1>2. es \in Seq(Calls) /\ es = <<c>> /\ ~Without(es, "configure")
  BY <1>1, Appended, Joined, WithoutAppended
<1>3. StoresFrom(es, {}, c.keys) /\ PeriodsFrom(es, {}, {}, {})
  BY <1>1, ConfigureQueued
<1> HIDE DEF es
<1>4. CASE k = None
  <2>1. cs = es
    BY <1>2, <1>4, Joined DEF Selected
  <2> QED
    BY <2>1, <1>2, <1>3, <1>4 DEF QueueOf
<1>5. CASE k # None
  <2>1. k \in StreamNames /\ Sel(k) \in Calls /\ Sel(k).do = "select"
    BY <1>5, CallsAre
  <2>2. cs = es \o <<Sel(k)>>
    BY <1>2, <1>5 DEF Selected, Sel
  <2>3. cs = Append(es, Sel(k))
    BY <2>1, <2>2, <1>2, Joined
  <2>4. Append(es, Sel(k)) \in Seq(Calls) /\ QueueOf(Append(es, Sel(k)), {}, c.keys, None, k, {}, {})
    BY <2>1, <1>2, <1>3, SelectQueued
  <2>5. ~Without(Append(es, Sel(k)), "configure")
    BY <2>1, <1>2, WithoutAppended
  <2> QED
    BY <2>3, <2>4, <2>5
<1> QED
  BY <1>4, <1>5

\* The next run of the application.
LEMMA RestartKeepsQueue ==
  ASSUME QueueTypes, ViewTypes, Restart
  PROVE  QueueInv'
<1> DEFINE keys == files[profile]
           k == Tab(keys, views[profile].stream)
           c == Conf(ToSet(keys))
<1>1. keys \in Seq(StreamNames) /\ k \in StreamNames \cup {None}
  BY FilesAre, TabIsThere DEF ViewTypes
<1>2. ToSet(keys) \in SUBSET StreamNames
  BY <1>1, StreamsOfFile
<1>3. c \in Calls /\ c.do = "configure" /\ c.keys = ToSet(keys) /\ Configured(keys) = <<c>>
  BY <1>2, CallsAre DEF Configured, Conf
<1>4. /\ calls' = Configured(keys) \o Selected(k) /\ events' = <<>> /\ shown' = k /\ override' = {}
      /\ stores' = {} /\ scaled' = {} /\ active' = None
      /\ UNCHANGED <<files, profile, generation, session>>
  BY DEF Restart
<1> HIDE DEF c, k, keys
<1>5. /\ calls' \in Seq(Calls) /\ ~Without(calls', "configure")
      /\ QueueOf(calls', {}, c.keys, None, k, {}, {})
  BY <1>1, <1>3, <1>4, FirstCalls
<1>6. QueueTypes'
  BY <1>4, <1>5, EmptySeq DEF QueueTypes
<1>7. FeedComing'
  BY <1>5 DEF FeedComing
<1>8. QueueOf(calls, stores, ToSet(files[profile]), active, shown, scaled, override)'
  BY <1>3, <1>4, <1>5 DEF keys
<1> QED
  BY <1>6, <1>7, <1>8 DEF QueueInv

\* A session is asked for, or its end; the user sets a period.
LEMMA SessionCallsKeepQueue ==
  ASSUME QueueInv, Connect \/ Disconnect \/ StartReplay
  PROVE  QueueInv'
<1> DEFINE start == [do |-> "start"]
           stop == [do |-> "stop"]
<1>1. start \in Calls /\ stop \in Calls /\ start.do = "start" /\ stop.do = "stop"
  BY CallsAre
<1> HIDE DEF start, stop
<1>2. /\ QueueTypes /\ FeedComing /\ calls \in Seq(Calls) /\ stores \in SUBSET StreamNames
      /\ QueueOf(calls, stores, ToSet(files[profile]), active, shown, scaled, override)
  BY DEF QueueInv, QueueTypes
<1>3. UNCHANGED <<generation, stores, scaled, active, session, events, files, profile, override, shown, feed,
                  watched>>
  BY DEF Connect, Disconnect, StartReplay, engineVars, viewVars, plotVars
<1>4. \/ calls' = Append(calls, start) \/ calls' = Append(calls, stop)
      \/ calls' = Append(Append(calls, stop), start)
  BY <1>1, <1>2, Joined DEF Connect, Disconnect, StartReplay, Call, start, stop
<1>5. ASSUME NEW c \in {start, stop}, NEW cs \in Seq(Calls),
             QueueOf(cs, stores, ToSet(files[profile]), active, shown, scaled, override)
      PROVE  /\ Append(cs, c) \in Seq(Calls) /\ (Without(Append(cs, c), "configure") => Without(cs, "configure"))
             /\ QueueOf(Append(cs, c), stores, ToSet(files[profile]), active, shown, scaled, override)
  BY <1>1, <1>2, <1>5, OtherQueued, WithoutAppended
<1>6. /\ calls' \in Seq(Calls) /\ (Without(calls', "configure") => Without(calls, "configure"))
      /\ QueueOf(calls', stores, ToSet(files[profile]), active, shown, scaled, override)
  BY <1>2, <1>4, <1>5
<1>7. QueueTypes'
  BY <1>2, <1>3, <1>6 DEF QueueTypes
<1>8. FeedComing'
  BY <1>2, <1>3, <1>6, FeedWaits
<1>9. QueueOf(calls, stores, ToSet(files[profile]), active, shown, scaled, override)'
  BY <1>3, <1>6
<1> QED
  BY <1>7, <1>8, <1>9 DEF QueueInv

LEMMA PeriodKeepsQueue ==
  ASSUME QueueInv, shown \in StreamNames \cup {None}, SetPeriod
  PROVE  QueueInv'
<1> DEFINE c == [do |-> "scale", key |-> shown]
           more == {k \in StreamNames : c.do = "scale" /\ c.key = k}
<1>1. shown \in StreamNames
  BY DEF SetPeriod
<1>2. c \in Calls /\ c.do = "scale" /\ c.key = shown
  BY <1>1, CallsAre
<1>3. more = {shown}
  BY <1>1
<1> HIDE DEF c
<1>4. /\ QueueTypes /\ FeedComing /\ calls \in Seq(Calls) /\ stores \in SUBSET StreamNames
      /\ QueueOf(calls, stores, ToSet(files[profile]), active, shown, scaled, override)
  BY DEF QueueInv, QueueTypes
<1>5. UNCHANGED <<generation, stores, scaled, active, session, events, files, profile, shown, feed, watched>>
  BY DEF SetPeriod, engineVars, viewVars, plotVars
<1>6. calls' = Append(calls, c) /\ override' = override \cup {shown}
  BY <1>2, <1>4, Joined DEF SetPeriod, Call, c
<1>7. /\ calls' \in Seq(Calls) /\ (Without(calls', "configure") => Without(calls, "configure"))
  BY <1>2, <1>4, <1>6, Appended, WithoutAppended
<1>8. /\ StoresFrom(Append(calls, c), stores, ToSet(files[profile]))
      /\ shown # None => StreamFrom(Append(calls, c), active, shown)
  BY <1>2, <1>4, StoresWait, StreamWaits DEF QueueOf
<1>9. PeriodsFrom(Append(calls, c), stores, scaled, override \cup more)
  BY <1>2, <1>4, PeriodsQueued DEF QueueOf
<1>10. QueueOf(Append(calls, c), stores, ToSet(files[profile]), active, shown, scaled, override \cup {shown})
  BY <1>3, <1>8, <1>9 DEF QueueOf
<1>11. QueueTypes'
  BY <1>4, <1>5, <1>7 DEF QueueTypes
<1>12. FeedComing'
  BY <1>4, <1>5, <1>7, FeedWaits
<1>13. QueueOf(calls, stores, ToSet(files[profile]), active, shown, scaled, override)'
  BY <1>5, <1>6, <1>10
<1> QED
  BY <1>11, <1>12, <1>13 DEF QueueInv

\* The engine takes a configuration.
LEMMA ConfigureKeepsQueue ==
  ASSUME QueueInv, DoConfigure
  PROVE  QueueInv'
<1> DEFINE c == Head(calls)
<1>1. /\ QueueTypes /\ calls \in Seq(Calls) /\ events \in Seq(Events) /\ calls # <<>> /\ c.do = "configure"
      /\ stores \in SUBSET StreamNames /\ generation \in Nat /\ session \in Nat
      /\ QueueOf(calls, stores, ToSet(files[profile]), active, shown, scaled, override)
  BY DEF QueueInv, QueueTypes, DoConfigure, Call1
<1>2. /\ calls' = Tail(calls) /\ generation' = generation + 1 /\ stores' = c.keys /\ scaled' = {}
      /\ events' = events \o <<"configured">>
      /\ UNCHANGED <<active, session, files, profile, shown, override>>
  BY DEF DoConfigure, Call1, NewStores, Tell, EngineOnly, viewVars
<1>3. calls' \in Seq(Calls) /\ c \in Calls
  BY <1>1, <1>2, Taken1
<1> HIDE DEF c
<1>4. c.keys \in SUBSET StreamNames
  BY <1>1, <1>3 DEF Calls
<1>5. events' \in Seq(Events) /\ ~Silent(events', "configured")
  <2>1. <<"configured">> \in Seq(Events) /\ ~Silent(<<"configured">>, "configured")
    BY DEF Events, Silent
  <2> QED
    BY <2>1, <1>1, <1>2, SilentJoined, ConcatProperties
<1>6. QueueOf(calls', c.keys, ToSet(files[profile]), active, shown, {}, override)
  BY <1>1, <1>2, StoresTaken, StreamTaken, PeriodsTaken DEF QueueOf, c
<1>7. QueueTypes'
  BY <1>1, <1>2, <1>3, <1>4, <1>5 DEF QueueTypes
<1>8. FeedComing'
  BY <1>5 DEF FeedComing, NotTold
<1>9. QueueOf(calls, stores, ToSet(files[profile]), active, shown, scaled, override)'
  BY <1>2, <1>6
<1> QED
  BY <1>7, <1>8, <1>9 DEF QueueInv

\* What the engine tells of a session is not of its streams.
LEMMA ToldOfSession ==
  ASSUME NEW es \in Seq(Events),
         NEW fs \in {<<>>, <<"running">>, <<"failed">>, <<"stopped">>, <<"stopped", "failed">>}
  PROVE  /\ es \o fs \in Seq(Events)
         /\ \A e : Silent(es \o fs, e) => Silent(es, e)
         /\ fs = <<"running">> => ~Silent(es \o fs, "running")
<1>1. fs \in Seq(Events)
  <2>1. "running" \in Events /\ "failed" \in Events /\ "stopped" \in Events
    BY DEF Events
  <2>2. /\ <<>> \in Seq(Events) /\ <<"running">> \in Seq(Events) /\ <<"failed">> \in Seq(Events)
        /\ <<"stopped">> \in Seq(Events) /\ <<"stopped", "failed">> \in Seq(Events)
    BY <2>1
  <2> QED
    BY <2>2
<1>2. ~Silent(<<"running">>, "running")
  BY DEF Silent
<1> QED
  BY <1>1, <1>2, SilentJoined, ConcatProperties

\* It takes any other call.
LEMMA CallKeepsQueue ==
  ASSUME QueueInv, NEW fs \in {<<>>, <<"running">>, <<"failed">>, <<"stopped">>, <<"stopped", "failed">>},
         Call1, Head(calls).do # "configure",
         UNCHANGED <<generation, stores, shown, feed, watched, files, profile, override>>,
         events' = events \o fs, session' \in Nat,
         Head(calls).do # "select" => active' = active,
         Head(calls).do = "select" => active' = Head(calls).key,
         Head(calls).do # "scale" => scaled' = scaled,
         Head(calls).do = "scale" => scaled' = scaled \cup ({Head(calls).key} \cap stores)
  PROVE  QueueInv'
<1> DEFINE c == Head(calls)
<1>1. /\ QueueTypes /\ FeedComing /\ calls \in Seq(Calls) /\ events \in Seq(Events) /\ calls # <<>>
      /\ stores \in SUBSET StreamNames /\ scaled \in SUBSET stores
      /\ QueueOf(calls, stores, ToSet(files[profile]), active, shown, scaled, override)
  BY DEF QueueInv, QueueTypes, Call1
<1>2. calls' = Tail(calls) /\ calls' \in Seq(Calls)
  BY <1>1, Taken1 DEF Call1
<1> HIDE DEF c
<1>3. events' \in Seq(Events) /\ (Silent(events', "configured") => Silent(events, "configured"))
  BY <1>1, ToldOfSession
<1>4. Without(calls', "configure") => Without(calls, "configure")
  BY <1>1, <1>2, WithoutTaken
<1>5. StoresFrom(calls', stores, ToSet(files[profile])) /\ (shown # None => StreamFrom(calls', active', shown))
  BY <1>1, <1>2, StoresTaken, StreamTaken DEF QueueOf
<1>6. PeriodsFrom(calls', stores, scaled', override)
  BY <1>1, <1>2, PeriodsTaken DEF QueueOf
<1>7. QueueTypes'
  BY <1>1, <1>2, <1>3 DEF QueueTypes
<1>8. FeedComing'
  BY <1>1, <1>3, <1>4, FeedWaits
<1>9. QueueOf(calls, stores, ToSet(files[profile]), active, shown, scaled, override)'
  BY <1>5, <1>6 DEF QueueOf
<1> QED
  BY <1>7, <1>8, <1>9 DEF QueueInv

\* Nothing of the queues is touched but the engine's signals.
LEMMA SignalKeepsQueue ==
  ASSUME QueueInv, events' \in Seq(Events), Silent(events', "configured") => Silent(events, "configured"),
         UNCHANGED <<calls, generation, stores, scaled, active, session, shown, feed, watched, files, profile,
                     override>>
  PROVE  QueueInv'
<1>1. QueueTypes' /\ QueueOf(calls, stores, ToSet(files[profile]), active, shown, scaled, override)'
  BY DEF QueueInv, QueueTypes
<1>2. FeedComing'
  BY FeedWaits DEF QueueInv
<1> QED
  BY <1>1, <1>2 DEF QueueInv

\* The engine's steps.
LEMMA EngineStepKeepsQueue ==
  ASSUME QueueInv, EngineStep
  PROVE  QueueInv'
<1>1. UNCHANGED <<shown, feed, watched, files, profile, override>>
  BY DEF EngineStep, DoConfigure, DoSelect, DoScale, DoStart, DoStop, EndOfSession, Stored, EngineOnly, viewVars,
     plotVars
<1>2. QueueTypes /\ events \in Seq(Events) /\ session \in Nat
  BY DEF QueueInv, QueueTypes
<1>3. events \o <<>> = events /\ Append(events, "stopped") = events \o <<"stopped">>
  <2>1. "stopped" \in Events
    BY DEF Events
  <2> QED
    BY <1>2, <2>1, AppendIsConcat, ConcatEmptySeq
<1>4. CASE DoConfigure
  BY <1>4, ConfigureKeepsQueue
<1>5. CASE DoSelect
  BY <1>1, <1>2, <1>3, <1>5, CallKeepsQueue DEF DoSelect
<1>6. CASE DoScale
  BY <1>1, <1>2, <1>3, <1>6, CallKeepsQueue DEF DoScale
<1>7. CASE DoStart
  <2>1. Call1 /\ Head(calls).do = "start" /\ UNCHANGED <<generation, stores, scaled, active>>
    BY <1>7 DEF DoStart
  <2>2. PICK fs \in {<<>>, <<"running">>, <<"failed">>} : events' = events \o fs
    BY <1>3, <1>7 DEF DoStart, Tell
  <2>3. session' \in Nat
    BY <1>2, <1>7 DEF DoStart
  <2> QED
    BY <1>1, <2>1, <2>2, <2>3, CallKeepsQueue
<1>8. CASE DoStop
  <2>1. Call1 /\ Head(calls).do = "stop" /\ UNCHANGED <<generation, stores, scaled, active, session>>
    BY <1>8 DEF DoStop
  <2>2. PICK fs \in {<<>>, <<"stopped">>} : events' = events \o fs
    BY <1>3, <1>8 DEF DoStop
  <2> QED
    BY <1>1, <1>2, <2>1, <2>2, CallKeepsQueue
<1>9. CASE EndOfSession
  <2>1. UNCHANGED <<calls, generation, stores, scaled, active, session>>
    BY <1>9 DEF EndOfSession
  <2>2. PICK fs \in {<<"stopped">>, <<"stopped", "failed">>} : events' = events \o fs
    BY <1>9 DEF EndOfSession, Tell
  <2>3. events' \in Seq(Events) /\ (Silent(events', "configured") => Silent(events, "configured"))
    BY <1>2, <2>2, ToldOfSession
  <2> QED
    BY <1>1, <2>1, <2>3, SignalKeepsQueue
<1>10. CASE Stored
  <2>1. UNCHANGED <<calls, events, generation, stores, scaled, active, session>>
    BY <1>10 DEF Stored, queueVars
  <2> QED
    BY <1>1, <1>2, <2>1, SignalKeepsQueue
<1> QED
  BY <1>4, <1>5, <1>6, <1>7, <1>8, <1>9, <1>10 DEF EngineStep

\* The window takes a signal.
LEMMA WindowEventKeepsQueue ==
  ASSUME QueueInv, WindowEvent
  PROVE  QueueInv'
<1>1. QueueTypes /\ events \in Seq(Events)
  BY DEF QueueInv, QueueTypes
<1>2. CASE OnRunning \/ OnStopped \/ OnFailed
  <2>1. UNCHANGED <<calls, generation, stores, scaled, active, session, shown, feed, watched, files, profile,
                    override>>
    BY <1>2 DEF OnRunning, OnStopped, OnFailed, viewVars, plotVars, engineVars
  <2>2. events # <<>> /\ Head(events) # "configured" /\ events' = Tail(events)
    BY <1>2 DEF OnRunning, OnStopped, OnFailed, Event
  <2>3. events' \in Seq(Events) /\ (Silent(events', "configured") => Silent(events, "configured"))
    BY <1>1, <2>2, SilentTaken
  <2> QED
    BY <2>1, <2>3, SignalKeepsQueue
<1>3. CASE OnConfigured
  <2>1. /\ UNCHANGED <<calls, generation, stores, scaled, active, session, shown, files, profile, override>>
        /\ Bind(shown) /\ events # <<>> /\ events' = Tail(events)
    BY <1>3 DEF OnConfigured, Event, viewVars, engineVars
  <2>2. events' \in Seq(Events)
    BY <1>1, <2>1, SilentTaken
  <2>3. QueueTypes' /\ QueueOf(calls, stores, ToSet(files[profile]), active, shown, scaled, override)'
    BY <2>1, <2>2 DEF QueueInv, QueueTypes
  <2>4. FeedComing'
    BY <2>1, BoundFeed
  <2> QED
    BY <2>3, <2>4 DEF QueueInv
<1> QED
  BY <1>2, <1>3 DEF WindowEvent

\* Nothing of the queues is touched.
LEMMA QuietKeepsQueue ==
  ASSUME QueueInv,
         UNCHANGED <<calls, events, generation, stores, scaled, active, session, shown, feed, watched, files,
                     profile, override>>
  PROVE  QueueInv'
BY SignalKeepsQueue DEF QueueInv, QueueTypes

\* The user's steps.
LEMMA LookingKeepsQueue ==
  ASSUME QueueInv, ViewTypes, Looking
  PROVE  QueueInv'
<1>1. ASSUME NEW k \in StreamNames, SelectStream(k)
      PROVE  QueueInv'
  BY <1>1, StreamStepKeepsQueue DEF SelectStream
<1>2. CASE ResetView
  <2>1. shown \in StreamNames
    BY <1>2 DEF ResetView, ViewTypes
  <2> QED
    BY <1>2, <2>1, StreamStepKeepsQueue DEF ResetView
<1>3. ASSUME UNCHANGED <<files, profile, shown, plotVars, override, engineVars, queueVars>>
      PROVE  QueueInv'
  BY <1>3, QuietKeepsQueue DEF plotVars, engineVars, queueVars
<1>4. Looking => \/ \E k \in StreamNames : SelectStream(k)
                 \/ ResetView
                 \/ UNCHANGED <<files, profile, shown, plotVars, override, engineVars, queueVars>>
  BY DEF Looking, SetVisible, SetLaneVisible, Show, ChangePanes, MoveTo, SetEnding
<1> QED
  BY <1>1, <1>2, <1>3, <1>4

LEMMA WorkingKeepsQueue ==
  ASSUME QueueInv, ViewTypes, Working
  PROVE  QueueInv'
<1>1. QueueTypes
  BY DEF QueueInv
<1>2. ASSUME NEW p \in Scopes, SwitchProfile(p)
      PROVE  QueueInv'
  <2> DEFINE k == Tab(files[p], views[p].stream)
  <2>1. files[p] \in Seq(StreamNames)
    BY FilesAre
  <2>2. k \in StreamNames \cup {None}
    BY <2>1, TabIsThere
  <2>3. /\ shown' = k /\ Bind(k) /\ override' = {} /\ Call(Selected(k) \o Configured(files[p]))
        /\ files'[profile'] = files[p] /\ UNCHANGED <<engineVars, events>>
    BY <1>2 DEF SwitchProfile, ScopeOf, Select, Cleared
  <2> HIDE DEF k
  <2> QED
    BY <1>1, <2>1, <2>2, <2>3, ConfigStepKeepsQueue
<1>3. ASSUME NEW keys \in Documents, SaveConfig(keys)
      PROVE  QueueInv'
  <2> DEFINE k == Tab(keys, shown)
  <2>1. keys \in Seq(StreamNames)
    BY DeskAssumption
  <2>2. k \in StreamNames \cup {None}
    BY <2>1, TabIsThere
  <2>3. /\ shown' = k /\ (k # None => Bind(k)) /\ override' = {} /\ Call(Selected(k) \o Configured(keys))
        /\ files'[profile'] = keys /\ UNCHANGED <<engineVars, events>>
    BY <1>3 DEF SaveConfig, Select, Cleared, ViewTypes
  <2> HIDE DEF k
  <2> QED
    BY <1>1, <2>1, <2>2, <2>3, ConfigStepKeepsQueue
<1>4. CASE Restart
  BY <1>1, <1>4, RestartKeepsQueue
<1>5. CASE Connect \/ Disconnect \/ StartReplay
  BY <1>5, SessionCallsKeepQueue
<1>6. CASE SetPeriod
  BY <1>6, PeriodKeepsQueue DEF ViewTypes
<1>7. ASSUME UNCHANGED <<files, profile, shown, feed, watched, override, engineVars, queueVars>>
      PROVE  QueueInv'
  BY <1>7, QuietKeepsQueue DEF engineVars, queueVars
<1>8. PressStop \/ PressRun \/ DropAnchor \/ Arm \/ Disarm \/ Captured \/ LiveFrame =>
        UNCHANGED <<files, profile, shown, feed, watched, override, engineVars, queueVars>>
  BY DEF PressStop, PressRun, DropAnchor, Arm, Disarm, Captured, LiveFrame, viewVars
<1> QED
  BY <1>2, <1>3, <1>4, <1>5, <1>6, <1>7, <1>8 DEF Working

\* The queue's part is kept by every step.
LEMMA QueueStepKeeps ==
  ASSUME QueueInv, ViewTypes, [Next]_vars
  PROVE  QueueInv'
<1>1. CASE UNCHANGED <<viewVars, plotVars, override, engineVars, queueVars>>
  BY <1>1, QuietKeepsQueue DEF viewVars, plotVars, engineVars, queueVars
<1>2. CASE PanelStep \/ SendLine \/ UNCHANGED vars
  <2>1. UNCHANGED <<viewVars, plotVars, override, engineVars, queueVars>>
    BY <1>2 DEF PanelStep, SendLine, vars, dvars
  <2> QED
    BY <2>1, <1>1
<1> QED
  BY <1>2, LookingKeepsQueue, WorkingKeepsQueue, EngineStepKeepsQueue, WindowEventKeepsQueue DEF Next

\* The first run asks for its streams, and then for the one it shows.
LEMMA QueueStart ==
  ASSUME Init
  PROVE  QueueInv
<1> DEFINE keys == files[profile]
           k == Tab(keys, None)
           c == Conf(ToSet(keys))
<1>1. keys \in Seq(StreamNames)
  BY DeskAssumption DEF Init
<1>2. k \in StreamNames \cup {None} /\ ToSet(keys) \in SUBSET StreamNames
  BY <1>1, TabIsThere, StreamsOfFile
<1>3. c \in Calls /\ c.do = "configure" /\ c.keys = ToSet(keys) /\ Configured(keys) = <<c>>
  BY <1>2, CallsAre DEF Configured, Conf
<1>4. /\ calls = Configured(keys) \o Selected(k) /\ events = <<>> /\ shown = k /\ override = {}
      /\ stores = {} /\ scaled = {} /\ active = None /\ generation = 0 /\ session = 0
  BY DEF Init
<1> HIDE DEF c, k, keys
<1>5. calls \in Seq(Calls) /\ ~Without(calls, "configure") /\ QueueOf(calls, {}, c.keys, None, k, {}, {})
  BY <1>2, <1>3, <1>4, FirstCalls
<1>6. QueueTypes
  BY <1>4, <1>5, EmptySeq DEF QueueTypes
<1>7. FeedComing
  BY <1>5 DEF FeedComing
<1>8. QueueOf(calls, stores, ToSet(files[profile]), active, shown, scaled, override)
  BY <1>3, <1>4, <1>5 DEF keys
<1> QED
  BY <1>6, <1>7, <1>8 DEF QueueInv

\* With nothing under way there is nothing to wait for.
LEMMA QueueInvSays ==
  ASSUME QueueInv
  PROVE  WindowSeesTheStores
<1> SUFFICES ASSUME calls = <<>>, events = <<>>
             PROVE  /\ stores = ToSet(files[profile]) /\ feed = Store(shown) /\ watched = feed
                    /\ override \cap stores = scaled /\ (shown # None => active = shown)
  BY DEF WindowSeesTheStores, Settled
<1>1. /\ Without(calls, "configure") /\ Without(calls, "select") /\ NotTold("configured")
      /\ \A k : ~Scales(calls, 0, k)
  BY DEF Without, NotTold, Silent, Scales
<1>2. /\ FeedComing /\ StoresFrom(calls, stores, ToSet(files[profile])) /\ scaled \subseteq stores
      /\ shown # None => StreamFrom(calls, active, shown)
      /\ PeriodsFrom(calls, stores, scaled, override)
  BY DEF QueueInv, QueueTypes, QueueOf
<1>3. stores = ToSet(files[profile]) /\ (shown # None => active = shown)
  BY <1>1, <1>2 DEF StoresFrom, StreamFrom
<1>4. feed = Store(shown) /\ watched = feed
  BY <1>1, <1>2 DEF FeedComing
<1>5. \A k \in stores : k \in override <=> k \in scaled
  BY <1>1, <1>2 DEF PeriodsFrom
<1> QED
  BY <1>2, <1>3, <1>4, <1>5

----------------------------------------------------------------------------
(* The marks, and the stopped view. *)

\* A stream's newest markers are markers too.
LEMMA MarkedAre ==
  ASSUME NEW S, NEW ms \in Seq(S), NEW m \in S
  PROVE  Marked(ms, m) \in Seq(S)
<1> DEFINE ns == Append(ms, m)
           n == Len(ms) + 1
           from == IF Len(ms) < MaxMarkers THEN 1 ELSE 2
<1>1. Len(ms) \in Nat /\ ns \in Seq(S) /\ Len(ns) = n
  BY AppendProperties, LenProperties
<1>2. \A i \in 1..n : ns[i] \in S
  BY <1>1, ElementOfSeq
<1>3. from \in Int /\ n \in Int /\ \A i \in from..n : i \in 1..n
  BY <1>1
<1> HIDE DEF ns, from, n
<1>4. SubSeq(ns, from, n) \in Seq(S)
  BY <1>2, <1>3, SubSeqProperties
<1> QED
  BY <1>4 DEF Marked, ns, from, n

\* What is sent is marked in the session there is.
LEMMA SendMarksSession ==
  ASSUME QueueTypes, NotTold("running") => \A k \in DOMAIN markers : markers[k] \in Seq(Marks(session)),
         MarkSend, UNCHANGED <<events, session, shown>>
  PROVE  /\ NotTold("running")' => \A k \in DOMAIN markers' : markers'[k] \in Seq(Marks(session'))
         /\ drawn' = MarkersOf(markers, shown)'
<1> DEFINE keys == {k \in stores : Store(k) \in data}
           new(k) == Marked(MarkersOf(markers, k), [session |-> session, store |-> Store(k)])
<1>1. /\ markers' = [k \in keys \cup DOMAIN markers |-> IF k \in keys THEN new(k) ELSE markers[k]]
      /\ drawn' = MarkersOf(markers', shown)
  BY DEF MarkSend
<1>2. ASSUME NotTold("running"), NEW k \in keys
      PROVE  new(k) \in Seq(Marks(session))
  <2>1. [session |-> session, store |-> Store(k)] \in Marks(session)
    BY <1>2 DEF Marks, Store, QueueTypes
  <2>2. MarkersOf(markers, k) \in Seq(Marks(session))
    BY <1>2, EmptySeq DEF MarkersOf
  <2> QED
    BY <2>1, <2>2, MarkedAre
<1> HIDE DEF keys, new
<1>3. ASSUME NotTold("running"), NEW k \in DOMAIN markers'
      PROVE  markers'[k] \in Seq(Marks(session))
  BY <1>1, <1>2, <1>3
<1>4. NotTold("running")' => NotTold("running")
  BY DEF NotTold, Silent
<1> QED
  BY <1>1, <1>3, <1>4 DEF MarkersOf

\* Nothing of the markers is touched, and no session starts.
LEMMA QuietKeepsMarks ==
  ASSUME MarksInv, UNCHANGED <<markers, drawn, shown, session>>,
         NotTold("running")' => NotTold("running"),
         button' \in BOOLEAN, button' <=> mode' = "ANALYSIS", mode' = "LIVE" => overlays' = {} /\ packet' = None
  PROVE  MarksInv'
BY DEF MarksInv, MarkersOf

\* The stopped view is entered and left.
LEMMA ViewOf ==
  ASSUME MarksInv,
         \/ UNCHANGED <<mode, button, packet, overlays>>
         \/ Unpause
         \/ mode' = "ANALYSIS" /\ button' = TRUE
         \/ UNCHANGED <<mode, button, packet>> /\ overlays' = overlays \ {"anchor"}
         \/ UNCHANGED <<mode, button, packet>> /\ mode = "ANALYSIS"
  PROVE  button' \in BOOLEAN /\ (button' <=> mode' = "ANALYSIS")
         /\ (mode' = "LIVE" => overlays' = {} /\ packet' = None)
<1>1. CASE UNCHANGED <<mode, button, packet, overlays>>
  BY <1>1 DEF MarksInv
<1>2. CASE Unpause
  BY <1>2 DEF Unpause, LeaveAnalysis
<1>3. CASE mode' = "ANALYSIS" /\ button' = TRUE
  BY <1>3
<1>4. CASE UNCHANGED <<mode, button, packet>> /\ overlays' = overlays \ {"anchor"}
  BY <1>4 DEF MarksInv
<1>5. CASE UNCHANGED <<mode, button, packet>> /\ mode = "ANALYSIS"
  BY <1>5 DEF MarksInv
<1> QED
  BY <1>1, <1>2, <1>3, <1>4, <1>5

\* A stream is shown, with its markers or with none.
LEMMA SelectKeepsMarks ==
  ASSUME MarksInv, NEW k, NEW v, NEW ms \in {markers, <<>>}, Select(k, v, ms), markers' = ms,
         UNCHANGED <<mode, button, packet, events, session>>
  PROVE  MarksInv'
<1>1. shown' = k /\ drawn' = MarkersOf(markers', k) /\ overlays' = overlays \ {"anchor"}
  BY DEF Select
<1>2. drawn' = MarkersOf(markers, shown)'
  BY <1>1 DEF MarkersOf
<1>3. NotTold("running")' => \A j \in DOMAIN markers' : markers'[j] \in Seq(Marks(session'))
  <2>1. CASE ms = markers
    BY <2>1 DEF MarksInv, NotTold, Silent
  <2>2. CASE ms = <<>>
    BY <2>2
  <2> QED
    BY <2>1, <2>2
<1>4. button' \in BOOLEAN /\ (button' <=> mode' = "ANALYSIS") /\ (mode' = "LIVE" => overlays' = {} /\ packet' = None)
  BY <1>1, ViewOf
<1> QED
  BY <1>2, <1>3, <1>4 DEF MarksInv

\* The user's steps, the engine's, and the window's signals.
LEMMA LookingKeepsMarks ==
  ASSUME MarksInv, Looking
  PROVE  MarksInv'
<1>1. ASSUME NEW k \in StreamNames, SelectStream(k)
      PROVE  MarksInv'
  BY <1>1, SelectKeepsMarks DEF SelectStream, engineVars
<1>2. CASE ResetView
  BY <1>2, SelectKeepsMarks DEF ResetView, engineVars
<1>3. ASSUME UNCHANGED <<shown, plotVars, markVars, engineVars, queueVars>>
      PROVE  MarksInv'
  BY <1>3, QuietKeepsMarks, ViewOf DEF plotVars, markVars, engineVars, queueVars, NotTold, Silent
<1>4. Looking => \/ \E k \in StreamNames : SelectStream(k)
                 \/ ResetView
                 \/ UNCHANGED <<shown, plotVars, markVars, engineVars, queueVars>>
  BY DEF Looking, SetVisible, SetLaneVisible, Show, ChangePanes, MoveTo, SetEnding
<1> QED
  BY <1>1, <1>2, <1>3, <1>4

LEMMA WorkingKeepsMarks ==
  ASSUME MarksInv, Working
  PROVE  MarksInv'
<1>1. ASSUME NEW p \in Scopes, SwitchProfile(p)
      PROVE  MarksInv'
  BY <1>1, SelectKeepsMarks DEF SwitchProfile, engineVars
<1>2. ASSUME NEW keys \in Documents, SaveConfig(keys)
      PROVE  MarksInv'
  <2> DEFINE k == Tab(keys, shown)
  <2>1. UNCHANGED <<mode, button, packet, markers, events, session>>
    BY <1>2 DEF SaveConfig, engineVars
  <2>2. CASE k # None
    <3>1. Select(k, views[scope], markers)
      BY <1>2, <2>2 DEF SaveConfig
    <3> QED
      BY <2>1, <3>1, SelectKeepsMarks
  <2>3. CASE k = None
    <3>1. shown' = None /\ UNCHANGED overlays
      BY <1>2, <2>3 DEF SaveConfig
    <3> QED
      BY <2>1, <3>1 DEF MarksInv, NotTold, Silent
  <2> QED
    BY <2>2, <2>3
<1>3. CASE Restart
  <2>1. /\ markers' = <<>> /\ drawn' = <<>> /\ mode' = "LIVE" /\ button' = FALSE /\ packet' = None /\ overlays' = {}
    BY <1>3 DEF Restart, LeaveAnalysis
  <2>2. DOMAIN markers' = {} /\ drawn' = MarkersOf(markers, shown)'
    BY <2>1 DEF MarkersOf
  <2> QED
    BY <2>1, <2>2 DEF MarksInv
<1>4. ASSUME UNCHANGED <<shown, markVars, session, events>>,
             \/ UNCHANGED <<mode, button, packet, overlays>>
             \/ Unpause
             \/ mode' = "ANALYSIS" /\ button' = TRUE
             \/ UNCHANGED <<mode, button, packet>> /\ mode = "ANALYSIS"
      PROVE  MarksInv'
  BY <1>4, QuietKeepsMarks, ViewOf DEF markVars, NotTold, Silent
<1>5. CASE \/ Connect \/ Disconnect \/ StartReplay \/ PressStop \/ PressRun \/ DropAnchor
           \/ Arm \/ Disarm \/ Captured \/ LiveFrame \/ SetPeriod
  <2>1. UNCHANGED <<shown, markVars, session, events>>
    BY <1>5 DEF Connect, Disconnect, StartReplay, PressStop, PressRun, DropAnchor, Arm, Disarm, Captured,
       LiveFrame, SetPeriod, viewVars, engineVars, queueVars
  <2>2. \/ UNCHANGED <<mode, button, packet, overlays>>
        \/ Unpause
        \/ mode' = "ANALYSIS" /\ button' = TRUE
        \/ UNCHANGED <<mode, button, packet>> /\ mode = "ANALYSIS"
    BY <1>5 DEF Connect, Disconnect, StartReplay, PressStop, PressRun, DropAnchor, Arm, Disarm, Captured,
       LiveFrame, SetPeriod, plotVars
  <2> QED
    BY <2>1, <2>2, <1>4
<1> QED
  BY <1>1, <1>2, <1>3, <1>5 DEF Working

LEMMA EngineStepKeepsMarks ==
  ASSUME MarksInv, QueueTypes, EngineStep
  PROVE  MarksInv'
<1>1. UNCHANGED <<shown, markers, drawn, mode, button, packet, overlays>>
  BY DEF EngineStep, DoConfigure, DoSelect, DoScale, DoStart, DoStop, EndOfSession, Stored, EngineOnly, viewVars,
     plotVars, markVars
<1>2. events \in Seq(Events)
  BY DEF QueueTypes
<1>3. button' \in BOOLEAN /\ (button' <=> mode' = "ANALYSIS") /\ (mode' = "LIVE" => overlays' = {} /\ packet' = None)
  BY <1>1, ViewOf
<1>4. events \o <<>> = events /\ Append(events, "stopped") = events \o <<"stopped">>
  <2>1. "stopped" \in Events
    BY DEF Events
  <2> QED
    BY <1>2, <2>1, AppendIsConcat, ConcatEmptySeq
<1>5. ASSUME NEW fs \in {<<>>, <<"failed">>, <<"stopped">>, <<"stopped", "failed">>}, events' = events \o fs,
             session' = session
      PROVE  MarksInv'
  <2>1. NotTold("running")' => NotTold("running")
    BY <1>2, <1>5, ToldOfSession DEF NotTold
  <2> QED
    BY <1>1, <1>3, <1>5, <2>1, QuietKeepsMarks
<1>6. ASSUME events' = events \o <<"running">>
      PROVE  MarksInv'
  <2>1. ~NotTold("running")'
    BY <1>2, <1>6, ToldOfSession DEF NotTold
  <2> QED
    BY <1>1, <1>3, <2>1 DEF MarksInv, MarkersOf
<1>7. CASE DoConfigure
  <2>1. <<"configured">> \in Seq(Events)
    BY DEF Events
  <2>2. events' = events \o <<"configured">> /\ session' = session
    BY <1>7 DEF DoConfigure, Tell
  <2>3. NotTold("running")' => NotTold("running")
    BY <1>2, <2>1, <2>2, SilentJoined DEF NotTold
  <2> QED
    BY <1>1, <1>3, <2>2, <2>3, QuietKeepsMarks
<1>8. CASE DoSelect \/ DoScale \/ Stored
  BY <1>4, <1>5, <1>8 DEF DoSelect, DoScale, Stored, queueVars
<1>9. CASE DoStart
  BY <1>4, <1>5, <1>6, <1>9 DEF DoStart, Tell
<1>10. CASE DoStop
  BY <1>4, <1>5, <1>10 DEF DoStop
<1>11. CASE EndOfSession
  BY <1>5, <1>11 DEF EndOfSession, Tell
<1> QED
  BY <1>7, <1>8, <1>9, <1>10, <1>11 DEF EngineStep

LEMMA WindowEventKeepsMarks ==
  ASSUME MarksInv, QueueTypes, WindowEvent
  PROVE  MarksInv'
<1>1. events \in Seq(Events)
  BY DEF QueueTypes
<1>2. CASE OnRunning
  <2>1. /\ markers' = <<>> /\ drawn' = <<>> /\ UNCHANGED <<mode, button, packet, overlays>>
    BY <1>2 DEF OnRunning, NewMarkers, plotVars
  <2> QED
    BY <2>1, ViewOf DEF MarksInv, MarkersOf
<1>3. CASE OnStopped \/ OnFailed \/ OnConfigured
  <2>1. /\ events # <<>> /\ Head(events) # "running" /\ events' = Tail(events)
        /\ UNCHANGED <<shown, markers, drawn, session>>
    BY <1>3 DEF OnStopped, OnFailed, OnConfigured, Event, viewVars, markVars, engineVars
  <2>2. NotTold("running")' => NotTold("running")
    BY <1>1, <2>1, SilentTaken DEF NotTold
  <2>3. Unpause \/ UNCHANGED <<mode, button, packet, overlays>>
    BY <1>3 DEF OnStopped, OnFailed, OnConfigured, plotVars
  <2> QED
    BY <2>1, <2>2, <2>3, ViewOf, QuietKeepsMarks
<1> QED
  BY <1>2, <1>3 DEF WindowEvent

\* The marks' part is kept by every step, and true at the start.
LEMMA MarksStepKeeps ==
  ASSUME MarksInv, QueueTypes, [Next]_vars
  PROVE  MarksInv'
<1>1. CASE PanelStep \/ SendLine \/ UNCHANGED vars
  <2>1. UNCHANGED <<events, session, shown, mode, button, packet, overlays>>
    BY <1>1 DEF PanelStep, SendLine, vars, dvars, viewVars, plotVars, engineVars, queueVars
  <2>2. CASE MarkSend
    <3>1. /\ NotTold("running")' => \A k \in DOMAIN markers' : markers'[k] \in Seq(Marks(session'))
          /\ drawn' = MarkersOf(markers, shown)'
      BY <2>1, <2>2, SendMarksSession DEF MarksInv
    <3> QED
      BY <2>1, <3>1, ViewOf DEF MarksInv
  <2>3. CASE UNCHANGED markVars
    BY <2>1, <2>3, ViewOf, QuietKeepsMarks DEF markVars, NotTold, Silent
  <2> QED
    BY <1>1, <2>2, <2>3 DEF PanelStep, SendLine, vars, dvars
<1> QED
  BY <1>1, LookingKeepsMarks, WorkingKeepsMarks, EngineStepKeepsMarks, WindowEventKeepsMarks DEF Next

LEMMA MarksStart ==
  ASSUME Init
  PROVE  MarksInv
<1>1. markers = <<>> /\ drawn = <<>> /\ mode = "LIVE" /\ button = FALSE /\ packet = None /\ overlays = {}
  BY DEF Init
<1>2. DOMAIN markers = {} /\ drawn = MarkersOf(markers, shown)
  BY <1>1 DEF MarkersOf
<1> QED
  BY <1>1, <1>2 DEF MarksInv

\* With nothing under way, no start of a session is.
LEMMA MarksInvSays ==
  ASSUME MarksInv
  PROVE  MarksAreOfThisSession
<1>1. ASSUME Settled, NEW k \in DOMAIN markers, NEW i \in DOMAIN markers[k]
      PROVE  markers[k][i].session = session
  <2>1. markers[k] \in Seq(Marks(session))
    BY <1>1 DEF Settled, MarksInv, NotTold, Silent
  <2>2. markers[k][i] \in Marks(session)
    BY <1>1, <2>1, LenProperties, ElementOfSeq
  <2> QED
    BY <2>2 DEF Marks
<1> QED
  BY <1>1 DEF MarksInv, MarksAreOfThisSession

----------------------------------------------------------------------------
(* The theorems. *)

\* What is proved of a state and of a step, together.
DeskInv == PanelInv /\ ViewInv /\ QueueInv /\ MarksInv

\* It is true at the start, and kept.
LEMMA DeskStart ==
  Init => DeskInv
BY PanelStart, ViewStart, QueueStart, MarksStart DEF DeskInv

LEMMA DeskStepKeeps ==
  DeskInv /\ [Next]_vars => DeskInv'
<1> SUFFICES ASSUME DeskInv, [Next]_vars PROVE DeskInv'
  OBVIOUS
<1>1. PanelInv /\ ViewInv /\ QueueInv /\ MarksInv /\ ViewTypes /\ QueueTypes /\ PanelTypes /\ profile \in Scopes
  BY DEF DeskInv, ViewInv, QueueInv, PanelInv, ViewTypes
<1>2. PanelInv'
  BY <1>1, PanelStepKeeps
<1>3. PanelTypes'
  BY <1>2 DEF PanelInv
<1>4. ViewInv'
  BY <1>1, <1>3, ViewStepKeeps
<1>5. QueueInv'
  BY <1>1, QueueStepKeeps
<1>6. MarksInv'
  BY <1>1, MarksStepKeeps
<1> QED
  BY <1>2, <1>4, <1>5, <1>6 DEF DeskInv

LEMMA DeskIsKept == Spec => []DeskInv
BY DeskStart, DeskStepKeeps, PTL DEF Spec

\* CommandPanel, marks: of the cells the panel itself set last on the device, exactly those
\* are marked that differ there, and none it never sent, whatever was typed, dragged,
\* linked, reverted, loaded or sent before.
THEOREM MarksHold == Spec => []MarksAreTrue
<1>1. DeskInv => MarksAreTrue
  BY PanelInvSays DEF DeskInv
<1> QED
  BY <1>1, DeskIsKept, PTL

\* CommandPanel, Live mode: when no live send of a column is due, the device has the
\* column's own cells as they are typed, unless a send was refused or another command
\* wrote them since (the columns excused).
THEOREM LiveSends == Spec => []LiveSendsWhatIsTyped
<1>1. DeskInv => LiveSendsWhatIsTyped
  BY PanelInvSays DEF DeskInv
<1> QED
  BY <1>1, DeskIsKept, PTL

\* CommandPanel, _fire_live: no packet of Live mode leaves before the pause after the
\* column's last edit, nor before the interval after its last one.
THEOREM LivePaces == Spec => LiveIsPaced
<1>1. DeskInv /\ [Next]_vars => \A c \in Columns : Paced(c)
  <2> SUFFICES ASSUME DeskInv, [Next]_vars, NEW c \in Columns PROVE Paced(c)
    OBVIOUS
  <2>1. PanelInv /\ profile \in Scopes
    BY DEF DeskInv, ViewInv, ViewTypes
  <2> QED
    BY <2>1, StepIsPaced
<1>2. DeskInv /\ [Next]_vars =>
        [\A c \in Columns : timers[c] = 0 /\ timers'[c] = None /\ live' /\ live /\ lastLive'[c] = 0 =>
            sinceEdit[c] >= Debounce /\ lastLive[c] >= MinInterval]_pvars
  BY <1>1 DEF Paced
<1> QED
  BY <1>2, DeskIsKept, PTL DEF Spec, LiveIsPaced

\* ui_state.py, "remembered per profile": whatever was shown, hidden, moved, opened, typed
\* and reloaded, the next run of the application shows it as it is.
THEOREM RestartIsSame == Spec => []RestartShowsTheSame
<1>1. DeskInv => RestartShowsTheSame
  BY DEF DeskInv, ViewInv
<1> QED
  BY <1>1, DeskIsKept, PTL

\* main_window.py: with nothing under way between the threads, the window's feed, trigger,
\* periods, stream and marks are those of the engine's own stores and session, whatever the
\* order in which calls and signals crossed.
THEOREM WindowFollows == Spec => []WindowFollowsTheEngine
<1>1. DeskInv => WindowFollowsTheEngine
  BY QueueInvSays, MarksInvSays DEF DeskInv, WindowFollowsTheEngine
<1> QED
  BY <1>1, DeskIsKept, PTL
=============================================================================
