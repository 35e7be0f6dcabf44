--------------------------- MODULE ServiceProofs ---------------------------
(***************************************************************************)
(* Theorems about Service for every set of outputs, every configuration    *)
(* and every order in which a compositor announces its globals.            *)
(***************************************************************************)
EXTENDS Service, TLAPS

-----------------------------------------------------------------------------
(* The lid.  The last event that is not read is the state of the switch,   *)
(* and events come only once there is a g_lid.                             *)

LidInv ==
    /\ switch \in {"open", "closed"}
    /\ queue \in Seq({"open", "closed"})
    /\ queue # <<>> => queue[Len(queue)] = switch /\ (g_lid # NULL \/ stage = "ended")
    /\ stage \in {"log", "cfg", "playback", "lid"} => g_lid = NULL
    /\ LidTracked

(* No event at first.                                                      *)
LEMMA LidInit == Init => LidInv
BY DEF Init, LidInv, LidTracked

(* Every step keeps what is known of the lid.                              *)
LEMMA LidNext ==
    ASSUME LidInv, [Next]_vars
    PROVE  LidInv'
<1>1. CASE g_lid_init
  <2>1. /\ stage = "lid" /\ stage' = "connect" /\ UNCHANGED <<switch, queue, ignored>>
        /\ g_lid' = NULL \/ (g_cfg.laptop_lid_monitor /\ g_lid' = g_lid_update("open", IF switch = "closed" THEN <<"closed">> ELSE <<>>))
    BY <1>1 DEF g_lid_init, At, Goto, NoLid
  <2>2. g_lid' # NULL => g_lid' = switch
    <3>1. CASE switch = "closed"
      BY <2>1, <3>1 DEF g_lid_update, Switched
    <3>2. CASE switch = "open"
      BY <2>1, <3>2 DEF g_lid_update, Switched
    <3>3. QED
      BY <3>1, <3>2 DEF LidInv
  <2>3. queue = <<>>
    BY <2>1 DEF LidInv
  <2>4. QED
    BY <2>1, <2>2, <2>3 DEF LidInv, LidTracked
<1>2. CASE ReadLid
  <2>1. /\ stage = "loop" /\ queue # <<>> /\ queue' = <<>> /\ switch' = switch /\ stage' = stage
        /\ ignored' = ~g_cfg.laptop_lid_monitor /\ g_lid' = g_lid_update(g_lid, queue)
    BY <1>2 DEF ReadLid, Poll, At, serverVars
  <2>2. ~ignored' => g_lid' = switch
    BY <2>1 DEF LidInv, g_lid_update, Switched
  <2>3. queue' \in Seq({"open", "closed"})
    BY <2>1
  <2>4. QED
    BY <2>1, <2>2, <2>3 DEF LidInv, LidTracked
<1>3. CASE MoveLid
  <2>1. /\ stage # "ended" /\ stage' = stage /\ g_lid' = g_lid /\ ignored' = ignored
        /\ switch' = IF switch = "open" THEN "closed" ELSE "open"
        /\ queue' = IF g_lid # NULL THEN Append(queue, switch') ELSE queue
    BY <1>3 DEF MoveLid, At, serverVars
  <2>2. switch' \in {"open", "closed"}
    BY <2>1
  <2>3. CASE g_lid = NULL
    <3>1. queue' = <<>>
      BY <2>1, <2>3 DEF LidInv
    <3>2. QED
      BY <2>1, <2>2, <2>3, <3>1 DEF LidInv, LidTracked
  <2>4. CASE g_lid # NULL
    <3>1. /\ queue' \in Seq({"open", "closed"}) /\ queue' # <<>> /\ queue'[Len(queue')] = switch'
      BY <2>1, <2>2, <2>4 DEF LidInv
    <3>2. QED
      BY <2>1, <2>2, <2>4, <3>1 DEF LidInv, LidTracked
  <2>5. QED
    BY <2>3, <2>4
<1>4. CASE Teardown
  BY <1>4 DEF Teardown, g_lid_destroy, End, At, LidInv, LidTracked
<1>5. ASSUME g_lid' = g_lid, switch' = switch, queue' = queue, ignored' = ignored,
             stage' \in {"log", "cfg", "playback", "lid"} => stage \in {"log", "cfg", "playback", "lid"},
             stage = "ended" => stage' = "ended"
      PROVE  LidInv'
  BY <1>5 DEF LidInv, LidTracked
<1>6. CASE LogStart \/ (\E t \in DEBUG..ERROR : CfgSays(t)) \/ CfgMigrates \/ CfgRead \/ PlayLine \/ PlayedBack \/ g_displ_init
  <2>1. /\ g_lid' = g_lid /\ switch' = switch /\ queue' = queue /\ ignored' = ignored
        /\ stage' \in {"log", "cfg", "playback", "lid"} => stage \in {"log", "cfg", "playback", "lid"}
        /\ stage = "ended" => stage' = "ended"
    BY <1>6 DEF LogStart, CfgSays, CfgMigrates, CfgRead, PlayLine, PlayedBack, g_displ_init, At, Goto, End, lidVars, serverVars
  <2>2. QED
    BY <1>5, <2>1
<1>7. CASE bind_zwlr_output_manager \/ bind_zxdg_output_manager \/ bind_wl_output
           \/ GlobalRemoveOutput \/ GlobalRemoveManager
  <2>1. /\ g_lid' = g_lid /\ switch' = switch /\ queue' = queue /\ ignored' = ignored
        /\ stage' \in {"log", "cfg", "playback", "lid"} => stage \in {"log", "cfg", "playback", "lid"}
        /\ stage = "ended" => stage' = "ended"
    BY <1>7 DEF bind_zwlr_output_manager, bind_zxdg_output_manager, bind_wl_output,
           GlobalRemoveOutput, GlobalRemoveManager, Registry, End, lidVars, serverVars
  <2>2. QED
    BY <1>5, <2>1
<1>8. CASE (\E o \in Outputs : zxdg_output_name(o)) \/ ManagerFinished \/ RoundTrip \/ create_fds
  <2>1. /\ g_lid' = g_lid /\ switch' = switch /\ queue' = queue /\ ignored' = ignored
        /\ stage' \in {"log", "cfg", "playback", "lid"} => stage \in {"log", "cfg", "playback", "lid"}
        /\ stage = "ended" => stage' = "ended"
    BY <1>8 DEF zxdg_output_name, ManagerFinished, RoundTrip, create_fds, At, Goto, End, lidVars, serverVars
  <2>2. QED
    BY <1>5, <2>1
<1>9. CASE (\E cfg \in StartCfgs : Reload(cfg)) \/ (\E t \in INFO..FATAL : Report(t)) \/ Compositor \/ UNCHANGED vars
  <2>1. /\ g_lid' = g_lid /\ switch' = switch /\ queue' = queue /\ ignored' = ignored
        /\ stage' \in {"log", "cfg", "playback", "lid"} => stage \in {"log", "cfg", "playback", "lid"}
        /\ stage = "ended" => stage' = "ended"
    BY <1>9 DEF Reload, Report, Compositor, lidVars, serverVars, vars
  <2>2. QED
    BY <1>5, <2>1
<1>10. CASE Killed \/ LoopReturns \/ WaylandFails
  <2>1. /\ g_lid' = g_lid /\ switch' = switch /\ queue' = queue /\ ignored' = ignored
        /\ stage' \in {"log", "cfg", "playback", "lid"} => stage \in {"log", "cfg", "playback", "lid"}
        /\ stage = "ended" => stage' = "ended"
    BY <1>10 DEF Killed, LoopReturns, WaylandFails, Poll, At, Goto, End, lidVars
  <2>2. QED
    BY <1>5, <2>1
<1>11. QED
  BY <1>1, <1>2, <1>3, <1>4, <1>6, <1>7, <1>8, <1>9, <1>10 DEF Next

(* Whenever no event of the switch waits and the last one was not ignored, *)
(* the server knows the lid as it is, however moves of the lid interleave  *)
(* with the start, with reloads that turn the monitoring on and off, and   *)
(* with the loop (lid.c g_lid_init, g_lid_update).                         *)
THEOREM LidIsTracked == Spec => []LidTracked
<1>1. LidInv /\ [Next]_vars => LidInv'
  BY LidNext
<1>2. LidInv => LidTracked
  BY DEF LidInv
<1>3. QED
  BY LidInit, <1>1, <1>2, PTL DEF Spec

-----------------------------------------------------------------------------
(* The proxies.  An output whose global is on its way is not bound yet, so *)
(* each is bound once; the same for the xdg output manager.                *)

WireInv ==
    /\ wire \in Seq(RegistryEvent)
    /\ AnnouncedOnce(wire)
    /\ \A k \in DOMAIN wire : wire[k].type = "wl_output" => wire[k].output \in Outputs \ displ.outputs
    /\ \A k \in DOMAIN wire : wire[k].type = "zxdg" => ~displ.zxdg

ProxyInv ==
    /\ displ \in [zwlr : BOOLEAN, zxdg : BOOLEAN, outputs : SUBSET Outputs, named : SUBSET Outputs]
    /\ wl_output \in [Outputs -> Int] /\ xdg_output \in [Outputs -> Int]
    /\ manager \in [zwlr : Int, zxdg : Int]
    /\ manager.zxdg = IF displ.zxdg THEN 1 ELSE 0
    /\ ended = "clean" => stage = "ended"

ReleaseInv == WireInv /\ ProxyInv /\ Released

(* The greeting, and nothing bound.                                        *)
LEMMA ReleaseInit == Init => ReleaseInv
<1> SUFFICES ASSUME Init PROVE ReleaseInv
  OBVIOUS
<1>1. wire \in Seq(Announcement) /\ AnnouncedOnce(wire)
  BY GreetingsAssumption DEF Init
<1>2. /\ \A k \in DOMAIN wire : wire[k] \in Announcement
      /\ \A e \in Announcement : e.type = "wl_output" => e.output \in Outputs
  BY <1>1 DEF Announcement
<1>3. wire \in Seq(RegistryEvent)
  <2>1. Announcement \subseteq RegistryEvent
    BY DEF RegistryEvent
  <2>2. QED
    BY <1>1, <2>1
<1>4. displ.outputs = {} /\ ~displ.zxdg
  BY DEF Init
<1>5. WireInv
  BY <1>1, <1>2, <1>3, <1>4 DEF WireInv
<1>6. ProxyInv /\ Released
  BY DEF Init, ProxyInv, Released
<1>7. QED
  BY <1>5, <1>6 DEF ReleaseInv

(* What is left when the first event is dispatched.                        *)
LEMMA Dispatched ==
    ASSUME WireInv, wire # <<>>
    PROVE  /\ Head(wire) \in RegistryEvent
           /\ Head(wire).type = "wl_output" => Head(wire).output \in Outputs \ displ.outputs
           /\ Head(wire).type = "zxdg" => ~displ.zxdg
           /\ Tail(wire) \in Seq(RegistryEvent)
           /\ AnnouncedOnce(Tail(wire))
           /\ \A k \in DOMAIN Tail(wire) :
                 /\ Tail(wire)[k].type = "wl_output" =>
                       /\ Tail(wire)[k].output \in Outputs \ displ.outputs
                       /\ Head(wire).type = "wl_output" => Tail(wire)[k].output # Head(wire).output
                 /\ Tail(wire)[k].type = "zxdg" => ~displ.zxdg /\ Head(wire).type # "zxdg"
<1>1. wire \in Seq(RegistryEvent)
  BY DEF WireInv
<1>2. /\ Head(wire) = wire[1] /\ 1 \in DOMAIN wire /\ Tail(wire) \in Seq(RegistryEvent)
      /\ \A k \in DOMAIN Tail(wire) : k \in Int /\ k + 1 # 1 /\ k + 1 \in DOMAIN wire /\ Tail(wire)[k] = wire[k + 1]
  BY <1>1
<1>3. AnnouncedOnce(Tail(wire))
  BY <1>2 DEF WireInv, AnnouncedOnce
<1>4. wire[1] \in RegistryEvent
  BY <1>1, <1>2
<1>5. QED
  BY <1>2, <1>3, <1>4 DEF WireInv, AnnouncedOnce

(* A step that leaves the proxies and the registry alone.                  *)
LEMMA ProxiesKept ==
    ASSUME ReleaseInv, UNCHANGED <<wire, displ, wl_output, xdg_output, manager, g_lid, held>>,
           ended' = ended, stage' = stage \/ stage # "ended"
    PROVE  ReleaseInv'
<1>1. WireInv' /\ Released'
  BY DEF ReleaseInv, WireInv, AnnouncedOnce, Released
<1>2. ProxyInv'
  BY DEF ReleaseInv, ProxyInv
<1>3. QED
  BY <1>1, <1>2 DEF ReleaseInv

(* The end without a teardown.                                             *)
LEMMA ProxiesLeft ==
    ASSUME ReleaseInv, UNCHANGED <<displ, wl_output, xdg_output, manager, g_lid, held>>, WireInv',
           NEW how \in {"exit", "killed"}, End(how)
    PROVE  ReleaseInv'
BY DEF ReleaseInv, ProxyInv, Released, End

(* The steps that bind or destroy a proxy.                                 *)
LEMMA ReleaseNext ==
    ASSUME ReleaseInv, [Next]_vars
    PROVE  ReleaseInv'
<1> USE DEF ReleaseInv
<1>1. CASE bind_zwlr_output_manager
  <2>1. wire # <<>> /\ wire' = Tail(wire) /\ UNCHANGED <<g_lid, held, wl_output, xdg_output>>
    BY <1>1 DEF bind_zwlr_output_manager, Registry, lidVars
  <2>2. CASE Head(wire).old
    <3>1. End("exit") /\ UNCHANGED <<displ, manager>>
      BY <1>1, <2>2 DEF bind_zwlr_output_manager
    <3>2. WireInv'
      BY <2>1, <3>1, Dispatched DEF WireInv
    <3>3. QED
      BY <2>1, <3>1, <3>2, ProxiesLeft
  <2>3. CASE ~Head(wire).old
    <3>1. /\ displ' = [displ EXCEPT !.zwlr = TRUE] /\ manager' = [manager EXCEPT !.zwlr = @ + 1]
          /\ UNCHANGED <<stage, ended>>
      BY <1>1, <2>3 DEF bind_zwlr_output_manager, serverVars
    <3>2. /\ displ' \in [zwlr : BOOLEAN, zxdg : BOOLEAN, outputs : SUBSET Outputs, named : SUBSET Outputs]
          /\ displ'.outputs = displ.outputs /\ displ'.zxdg = displ.zxdg
      BY <3>1 DEF ProxyInv
    <3>3. manager' \in [zwlr : Int, zxdg : Int] /\ manager'.zxdg = manager.zxdg
      BY <3>1 DEF ProxyInv
    <3>4. WireInv'
      BY <2>1, <3>2, Dispatched DEF WireInv
    <3>5. ProxyInv'
      BY <2>1, <3>1, <3>2, <3>3 DEF ProxyInv
    <3>6. Released'
      BY <2>1, <3>1, <3>2, <3>3 DEF Released
    <3>7. QED
      BY <3>4, <3>5, <3>6
  <2>4. QED
    BY <2>2, <2>3
<1>2. CASE bind_zxdg_output_manager
  <2>1. /\ wire # <<>> /\ wire' = Tail(wire) /\ UNCHANGED <<g_lid, held, wl_output, xdg_output, stage, ended>>
        /\ Head(wire).type = "zxdg"
        /\ displ' = [displ EXCEPT !.zxdg = TRUE] /\ manager' = [manager EXCEPT !.zxdg = @ + 1]
        /\ stage \in {"roundtrip", "loop"}
    BY <1>2 DEF bind_zxdg_output_manager, Registry, lidVars, serverVars
  <2>2. /\ displ' \in [zwlr : BOOLEAN, zxdg : BOOLEAN, outputs : SUBSET Outputs, named : SUBSET Outputs]
        /\ displ'.outputs = displ.outputs /\ displ'.zxdg
    BY <2>1 DEF ProxyInv
  <2>3. ~displ.zxdg
    BY <2>1, Dispatched
  <2>4. manager' \in [zwlr : Int, zxdg : Int] /\ manager'.zxdg = 1
    BY <2>1, <2>3 DEF ProxyInv
  <2>5. WireInv'
    BY <2>1, <2>2, Dispatched DEF WireInv
  <2>6. ProxyInv'
    BY <2>1, <2>2, <2>4 DEF ProxyInv
  <2>7. Released'
    BY <2>1, <2>2 DEF Released, ProxyInv
  <2>8. QED
    BY <2>5, <2>6, <2>7
<1>3. CASE bind_wl_output
  <2> DEFINE o == Head(wire).output
  <2>1. /\ wire # <<>> /\ wire' = Tail(wire) /\ UNCHANGED <<g_lid, held, manager, stage, ended>>
        /\ Head(wire).type = "wl_output" /\ stage \in {"roundtrip", "loop"}
    BY <1>3 DEF bind_wl_output, Registry, lidVars, serverVars
  <2>2. o \in Outputs \ displ.outputs
    BY <2>1, Dispatched
  <2>3. CASE displ.zxdg
    <3>1. /\ wl_output' = [wl_output EXCEPT ![o] = @ + 1] /\ xdg_output' = [xdg_output EXCEPT ![o] = @ + 1]
          /\ displ' = [displ EXCEPT !.outputs = @ \cup {o}]
      BY <1>3, <2>3 DEF bind_wl_output, output_init
    <3> HIDE DEF o
    <3>2. /\ displ' \in [zwlr : BOOLEAN, zxdg : BOOLEAN, outputs : SUBSET Outputs, named : SUBSET Outputs]
          /\ displ'.outputs = displ.outputs \cup {o} /\ displ'.zxdg = displ.zxdg
      BY <2>2, <3>1 DEF ProxyInv
    <3>3. WireInv'
      BY <2>1, <3>2, Dispatched DEF WireInv, o
    <3>4. /\ wl_output' \in [Outputs -> Int] /\ xdg_output' \in [Outputs -> Int]
          /\ wl_output'[o] = 1 /\ xdg_output'[o] = 1
          /\ \A p \in Outputs : p # o => wl_output'[p] = wl_output[p] /\ xdg_output'[p] = xdg_output[p]
      BY <2>2, <3>1 DEF ProxyInv, Released
    <3>5. ProxyInv'
      BY <2>1, <3>2, <3>4 DEF ProxyInv
    <3>6. Released'
      BY <2>1, <3>2, <3>4 DEF Released, ProxyInv
    <3>7. QED
      BY <3>3, <3>5, <3>6
  <2>4. CASE ~displ.zxdg
    <3>1. UNCHANGED <<wl_output, xdg_output, displ>>
      BY <1>3, <2>2, <2>4 DEF bind_wl_output, output_init, ProxyInv
    <3>2. WireInv'
      BY <2>1, <3>1, Dispatched DEF WireInv
    <3>3. ProxyInv' /\ Released'
      BY <2>1, <3>1 DEF ProxyInv, Released
    <3>4. QED
      BY <3>2, <3>3
  <2>5. QED
    BY <2>3, <2>4
<1>4. CASE GlobalRemoveOutput
  <2> DEFINE os == {Head(wire).output} \cap displ.outputs
  <2>1. /\ wire # <<>> /\ wire' = Tail(wire) /\ UNCHANGED <<g_lid, held, manager, stage, ended>>
        /\ stage \in {"roundtrip", "loop"}
        /\ wl_output' = Destroyed(wl_output, os) /\ xdg_output' = Destroyed(xdg_output, os)
        /\ displ' = [displ EXCEPT !.outputs = @ \ os, !.named = @ \ os]
    BY <1>4 DEF GlobalRemoveOutput, Registry, lidVars, serverVars
  <2>2. os \subseteq displ.outputs
    OBVIOUS
  <2> HIDE DEF os
  <2>3. /\ displ' \in [zwlr : BOOLEAN, zxdg : BOOLEAN, outputs : SUBSET Outputs, named : SUBSET Outputs]
        /\ displ'.outputs = displ.outputs \ os /\ displ'.zxdg = displ.zxdg
    BY <2>1 DEF ProxyInv
  <2>4. WireInv'
    BY <2>1, <2>3, Dispatched DEF WireInv
  <2>5. ProxyInv'
    BY <2>1, <2>3 DEF ProxyInv, Destroyed
  <2>6. Released'
    BY <2>1, <2>2, <2>3 DEF Released, ProxyInv, Destroyed
  <2>7. QED
    BY <2>4, <2>5, <2>6
<1>5. CASE GlobalRemoveManager
  <2>1. /\ wire # <<>> /\ wire' = Tail(wire) /\ End("exit")
        /\ UNCHANGED <<displ, wl_output, xdg_output, manager, g_lid, held>>
    BY <1>5 DEF GlobalRemoveManager, Registry, lidVars
  <2>2. WireInv'
    BY <2>1, Dispatched DEF WireInv
  <2>3. QED
    BY <2>1, <2>2, ProxiesLeft
<1>6. CASE \E o \in Outputs : zxdg_output_name(o)
  <2>1. PICK o \in Outputs : zxdg_output_name(o)
    BY <1>6
  <2>2. /\ UNCHANGED <<wire, wl_output, xdg_output, manager, g_lid, held, stage, ended>>
        /\ displ' = [displ EXCEPT !.named = @ \cup {o}] /\ stage # "ended"
    BY <2>1 DEF zxdg_output_name, serverVars, lidVars
  <2>3. /\ displ' \in [zwlr : BOOLEAN, zxdg : BOOLEAN, outputs : SUBSET Outputs, named : SUBSET Outputs]
        /\ displ'.outputs = displ.outputs /\ displ'.zxdg = displ.zxdg
    BY <2>2 DEF ProxyInv
  <2>4. WireInv'
    BY <2>2, <2>3 DEF WireInv
  <2>5. ProxyInv' /\ Released'
    BY <2>2, <2>3 DEF ProxyInv, Released
  <2>6. QED
    BY <2>4, <2>5
<1>7. CASE ManagerFinished
  <2>1. /\ UNCHANGED <<wire, displ, wl_output, xdg_output, g_lid, held, stage, ended>> /\ stage # "ended"
        /\ manager' = [manager EXCEPT !.zwlr = @ - 1]
    BY <1>7 DEF ManagerFinished, At, serverVars, lidVars
  <2>2. manager' \in [zwlr : Int, zxdg : Int] /\ manager'.zxdg = manager.zxdg
    BY <2>1 DEF ProxyInv
  <2>3. QED
    BY <2>1, <2>2 DEF WireInv, ProxyInv, Released
<1>8. CASE g_lid_init
  <2>1. /\ UNCHANGED <<wire, displ, wl_output, xdg_output, manager, ended>> /\ stage = "lid"
        /\ g_lid' = NULL \/ held' = {"device_path", "monitor"}
    BY <1>8 DEF g_lid_init, NoLid, At, Goto, displVars
  <2>2. QED
    BY <2>1 DEF WireInv, ProxyInv, Released
<1>9. CASE ReadLid
  <2>1. /\ UNCHANGED <<wire, displ, wl_output, xdg_output, manager, ended, stage, held>> /\ stage = "loop"
        /\ "lid" \in pfds_init
    BY <1>9 DEF ReadLid, Poll, At, displVars, serverVars
  <2>2. g_lid # NULL
    BY <2>1 DEF pfds_init
  <2>3. QED
    BY <2>1, <2>2 DEF WireInv, ProxyInv, Released
<1>10. CASE Compositor
  <2>1. /\ UNCHANGED <<displ, wl_output, xdg_output, manager, g_lid, held, stage, ended>>
        /\ stage # "ended" /\ wire = <<>>
        /\ \/ \E o \in Outputs : wire' = <<IF o \in Present THEN Remove(o) ELSE Global(o)>>
           \/ wire' = <<Remove(NULL)>>
    BY <1>10 DEF Compositor, serverVars, lidVars
  <2>2. WireInv'
    <3>1. PICK e \in RegistryEvent :
             wire' = <<e>> /\ e.type # "zxdg" /\ (e.type = "wl_output" => e.output \in Outputs \ displ.outputs)
      <4>1. CASE wire' = <<Remove(NULL)>>
        <5>1. Remove(NULL) \in RegistryEvent /\ Remove(NULL).type = "remove"
          BY DEF Remove, RegistryEvent
        <5>2. QED
          BY <4>1, <5>1
      <4>2. CASE \E o \in Outputs : wire' = <<IF o \in Present THEN Remove(o) ELSE Global(o)>>
        <5>1. PICK o \in Outputs : wire' = <<IF o \in Present THEN Remove(o) ELSE Global(o)>>
          BY <4>2
        <5>2. CASE o \in Present
          <6>1. Remove(o) \in RegistryEvent /\ Remove(o).type = "remove"
            BY DEF Remove, RegistryEvent
          <6>2. QED
            BY <5>1, <5>2, <6>1
        <5>3. CASE o \notin Present
          <6>1. ~(wl_output[o] > 0)
            BY <2>1, <5>3 DEF Present
          <6>2. o \notin displ.outputs
            BY <6>1 DEF Released
          <6>3. Global(o) \in RegistryEvent /\ Global(o).type = "wl_output" /\ Global(o).output = o
            BY DEF Global, RegistryEvent, Announcement
          <6>4. QED
            BY <5>1, <5>3, <6>2, <6>3
        <5>4. QED
          BY <5>2, <5>3
      <4>3. QED
        BY <2>1, <4>1, <4>2
    <3>2. wire' \in Seq(RegistryEvent) /\ DOMAIN wire' = {1} /\ wire'[1] = e
      BY <3>1
    <3>3. QED
      BY <2>1, <3>1, <3>2 DEF WireInv, AnnouncedOnce
  <2>3. ProxyInv' /\ Released'
    BY <2>1 DEF ProxyInv, Released
  <2>4. QED
    BY <2>2, <2>3
<1>11. CASE Teardown
  <2>1. /\ stage' = "ended" /\ ended' = "clean" /\ wire' = wire
        /\ g_lid' = NULL
        /\ wl_output' = Destroyed(wl_output, displ.outputs) /\ xdg_output' = Destroyed(xdg_output, displ.outputs)
        /\ manager' = [zwlr |-> manager.zwlr - (IF displ.zwlr THEN 1 ELSE 0),
                       zxdg |-> manager.zxdg - (IF displ.zxdg THEN 1 ELSE 0)]
        /\ displ' = [zwlr |-> FALSE, zxdg |-> FALSE, outputs |-> {}, named |-> {}]
    BY <1>11 DEF Teardown, g_lid_destroy, g_displ_destroy, End
  <2>2. displ'.outputs = {} /\ displ'.zxdg = FALSE
    BY <2>1
  <2>3. manager' \in [zwlr : Int, zxdg : Int] /\ manager'.zxdg = 0
    BY <2>1 DEF ProxyInv
  <2>4. /\ wl_output' \in [Outputs -> Int] /\ xdg_output' \in [Outputs -> Int]
        /\ \A o \in Outputs : wl_output'[o] = 0 /\ xdg_output'[o] = 0
    BY <2>1 DEF ProxyInv, Released, Destroyed
  <2>5. WireInv'
    BY <2>1, <2>2 DEF WireInv
  <2>6. ProxyInv'
    BY <2>1, <2>2, <2>3, <2>4 DEF ProxyInv
  <2>7. Released'
    BY <2>1, <2>2, <2>3, <2>4 DEF Released
  <2>8. QED
    BY <2>5, <2>6, <2>7
<1>12. CASE LogStart \/ (\E t \in DEBUG..ERROR : CfgSays(t)) \/ CfgMigrates \/ CfgRead \/ PlayLine \/ PlayedBack
            \/ (\E cfg \in StartCfgs : Reload(cfg)) \/ (\E t \in INFO..FATAL : Report(t)) \/ MoveLid \/ LoopReturns
            \/ UNCHANGED vars
  <2>1. /\ UNCHANGED <<wire, displ, wl_output, xdg_output, manager, g_lid, held>>
        /\ ended' = ended /\ (stage' = stage \/ stage # "ended")
    BY <1>12 DEF LogStart, CfgSays, CfgMigrates, CfgRead, PlayLine, PlayedBack, Reload, Report, MoveLid, LoopReturns, vars,
                 Poll, At, Goto, serverVars, lidVars, displVars
  <2>2. QED
    BY <2>1, ProxiesKept
<1>13. CASE g_displ_init \/ RoundTrip \/ create_fds \/ Killed \/ WaylandFails
  <2>1. /\ UNCHANGED <<wire, displ, wl_output, xdg_output, manager, g_lid, held>>
        /\ \/ ended' = ended /\ stage # "ended"
           \/ End("exit") \/ End("killed")
    BY <1>13 DEF g_displ_init, RoundTrip, create_fds, Killed, WaylandFails,
                 Poll, At, Goto, lidVars, displVars
  <2>2. WireInv'
    BY <2>1 DEF WireInv
  <2>3. QED
    BY <2>1, <2>2, ProxiesKept, ProxiesLeft
<1>14. QED
  BY <1>1, <1>2, <1>3, <1>4, <1>5, <1>6, <1>7, <1>8, <1>9, <1>10, <1>11, <1>12, <1>13 DEF Next

(* Whatever the order in which the globals come and go, and wherever the   *)
(* process is stopped, no proxy of an output is lost or destroyed twice,   *)
(* and a clean end leaves none (registry.c, output.c, displ.c).            *)
THEOREM AllReleased == Spec => []Released
<1>1. ReleaseInv /\ [Next]_vars => ReleaseInv'
  BY ReleaseNext
<1>2. ReleaseInv => Released
  BY DEF ReleaseInv
<1>3. QED
  BY ReleaseInit, <1>1, <1>2, PTL DEF Spec

-----------------------------------------------------------------------------
(* The log.  Until the file is read everything is captured and nothing is  *)
(* printed; while the lines are played back the captured ones are those    *)
(* that were said, and what is printed is what is due of those before the  *)
(* iterator.                                                               *)

Lines == [n : Nat, threshold : DEBUG..FATAL]

LogRec == [threshold : DEBUG..FATAL, threshold_cli : BOOLEAN, suppressing : BOOLEAN, capturing : SUBSET CapLists,
           captured : [CapLists -> Seq(Lines)], printed : Seq(Lines)]

LogType ==
    /\ g_cfg \in StartCfgs /\ cli \in CliThresholds
    /\ log \in LogRec
    /\ said \in Seq(Lines) /\ \A n \in DOMAIN said : said[n].n = n
    /\ cli = 0 <=> ~log.threshold_cli
    /\ cli # 0 => log.threshold = cli

LogInv ==
    /\ LogType
    /\ At("log") => said = <<>> /\ log.captured["startup"] = <<>> /\ log.capturing = {}
    /\ At("cfg") => log.suppressing /\ log.captured["startup"] = said /\ log.capturing = {"startup"}
    /\ At("playback") => /\ ~log.suppressing /\ log.captured["startup"] = said
                         /\ it \in 1..(Len(said) + 1)
                         /\ \A k \in DOMAIN log.printed : log.printed[k].n # 0
                         /\ cli = 0 => log.threshold = g_cfg.log_threshold
    /\ ended = "killed" => At("ended")
    /\ StartupLogged

(* The operations of the log keep it well formed (log.c).                  *)
LEMMA LogOpsType ==
    ASSUME NEW lg \in LogRec, NEW line \in Lines, NEW t \in {0} \cup (DEBUG..FATAL), NEW b \in BOOLEAN
    PROVE  /\ print_line(lg, line) \in LogRec
           /\ capture_line(lg, line) \in LogRec
           /\ log_line(lg, line) \in LogRec
           /\ log_set_threshold(lg, t, b) \in LogRec
           /\ log_suppress_start(lg) \in LogRec /\ log_suppress_stop(lg) \in LogRec
           /\ log_cap_lines_start(lg, "startup") \in LogRec /\ log_cap_lines_stop(lg, "startup") \in LogRec
           /\ Freed(lg) \in LogRec
<1>1. ASSUME NEW l \in LogRec
      PROVE  capture_line(l, line) \in LogRec
  <2>1. [c \in CapLists |-> IF c \in l.capturing THEN Append(l.captured[c], line) ELSE l.captured[c]]
          \in [CapLists -> Seq(Lines)]
    BY DEF LogRec
  <2>2. QED
    BY <2>1 DEF LogRec, capture_line
<1>2. print_line(lg, line) \in LogRec
  <2>1. Append(lg.printed, line) \in Seq(Lines)
    BY DEF LogRec
  <2>2. [lg EXCEPT !.printed = Append(lg.printed, line)] \in LogRec
    BY <2>1 DEF LogRec
  <2>3. QED
    BY <2>2 DEF print_line
<1>3. log_set_threshold(lg, t, b) \in LogRec
  BY DEF LogRec, log_set_threshold
<1>4. /\ log_suppress_start(lg) \in LogRec /\ log_suppress_stop(lg) \in LogRec
      /\ log_cap_lines_start(lg, "startup") \in LogRec /\ log_cap_lines_stop(lg, "startup") \in LogRec
  BY ServiceAssumption DEF LogRec, log_suppress_start, log_suppress_stop, log_cap_lines_start, log_cap_lines_stop
<1>5. Freed(lg) \in LogRec
  <2>1. [c \in CapLists |-> IF c = "startup" THEN <<>> ELSE lg.captured[c]] \in [CapLists -> Seq(Lines)]
    BY DEF LogRec
  <2>2. QED
    BY <2>1 DEF LogRec, Freed
<1>6. QED
  BY <1>1, <1>2, <1>3, <1>4, <1>5 DEF log_line

(* What a line that is said does: it is printed unless it is suppressed or *)
(* below the threshold, and captured in the lists that are active.         *)
LEMMA LogLineDoes ==
    ASSUME NEW lg \in LogRec, NEW line \in Lines
    PROVE  LET after == log_line(lg, line)
           IN  /\ after.threshold = lg.threshold /\ after.threshold_cli = lg.threshold_cli
               /\ after.suppressing = lg.suppressing /\ after.capturing = lg.capturing
               /\ after.printed = IF line.threshold < lg.threshold \/ lg.suppressing THEN lg.printed
                                  ELSE Append(lg.printed, line)
               /\ after.captured["startup"] = IF "startup" \in lg.capturing THEN Append(lg.captured["startup"], line)
                                              ELSE lg.captured["startup"]
<1>1. ASSUME NEW l \in LogRec
      PROVE  /\ capture_line(l, line).threshold = l.threshold /\ capture_line(l, line).threshold_cli = l.threshold_cli
             /\ capture_line(l, line).suppressing = l.suppressing /\ capture_line(l, line).capturing = l.capturing
             /\ capture_line(l, line).printed = l.printed
             /\ capture_line(l, line).captured["startup"] =
                   IF "startup" \in l.capturing THEN Append(l.captured["startup"], line) ELSE l.captured["startup"]
  BY ServiceAssumption DEF LogRec, capture_line
<1>2. print_line(lg, line) \in LogRec
  BY LogOpsType, TRUE \in BOOLEAN, 0 \in {0} \cup (DEBUG..FATAL)
<1>3. /\ print_line(lg, line).threshold = lg.threshold /\ print_line(lg, line).threshold_cli = lg.threshold_cli
      /\ print_line(lg, line).suppressing = lg.suppressing /\ print_line(lg, line).capturing = lg.capturing
      /\ print_line(lg, line).captured = lg.captured
      /\ print_line(lg, line).printed = IF line.threshold < lg.threshold \/ lg.suppressing THEN lg.printed
                                        ELSE Append(lg.printed, line)
  BY DEF LogRec, print_line
<1>4. QED
  BY <1>1, <1>2, <1>3 DEF log_line

(* The threshold of the command line is set first.                         *)
LEMMA LogInit == Init => LogInv
<1> SUFFICES ASSUME Init
             PROVE  LogInv
  OBVIOUS
<1>1. /\ stage = "log" /\ ended = "no" /\ cli \in CliThresholds /\ g_cfg \in StartCfgs /\ said = <<>>
      /\ log = log_set_threshold(log_init, cli, TRUE)
  BY DEF Init
<1>2. log_init \in LogRec
  <2>1. [c \in CapLists |-> <<>>] \in [CapLists -> Seq(Lines)]
    OBVIOUS
  <2>2. QED
    BY <2>1 DEF log_init, LogRec, LOG_THRESHOLD_DEFAULT, DEBUG, INFO, FATAL
<1>3. cli \in {0} \cup (DEBUG..FATAL)
  BY <1>1, ServiceAssumption
<1>4. log \in LogRec
  BY <1>1, <1>2, <1>3 DEF log_set_threshold, LogRec
<1>5. /\ log.printed = <<>> /\ log.captured["startup"] = <<>> /\ log.capturing = {}
      /\ cli = 0 <=> ~log.threshold_cli
      /\ cli # 0 => log.threshold = cli
  BY <1>1, <1>3, ServiceAssumption DEF log_set_threshold, log_init
<1>6. said \in Seq(Lines) /\ \A n \in DOMAIN said : said[n].n = n
  BY <1>1
<1>7. LogType
  BY <1>1, <1>4, <1>5, <1>6 DEF LogType
<1>8. QED
  BY <1>1, <1>5, <1>7 DEF LogInv, StartupLogged, At

(* A line said while the file is read is captured and not printed.         *)
LEMMA LogSaid ==
    ASSUME LogInv, At("cfg"), NEW t \in DEBUG..FATAL,
           log' = log_line(log, Line(Len(said) + 1, t)), said' = Append(said, Line(Len(said) + 1, t)),
           UNCHANGED <<stage, ended, cli, g_cfg>>
    PROVE  LogInv'
<1> DEFINE line == Line(Len(said) + 1, t)
<1>1. line \in Lines /\ line.n = Len(said) + 1
  BY DEF LogInv, LogType, Line, Lines
<1>2. log \in LogRec /\ said \in Seq(Lines) /\ \A n \in DOMAIN said : said[n].n = n
  BY DEF LogInv, LogType
<1>3. log.suppressing /\ log.captured["startup"] = said /\ log.capturing = {"startup"} /\ log.printed = <<>>
  BY DEF LogInv, StartupLogged, At
<1> HIDE DEF line
<1>4. log' \in LogRec
  BY <1>1, <1>2, LogOpsType, TRUE \in BOOLEAN, 0 \in {0} \cup (DEBUG..FATAL) DEF line
<1>5. /\ log'.threshold = log.threshold /\ log'.threshold_cli = log.threshold_cli
      /\ log'.suppressing /\ log'.capturing = {"startup"} /\ log'.printed = <<>>
      /\ log'.captured["startup"] = Append(said, line)
  <2>1. log' = log_line(log, line)
    BY DEF line
  <2>2. /\ log'.threshold = log.threshold /\ log'.threshold_cli = log.threshold_cli
        /\ log'.suppressing = log.suppressing /\ log'.capturing = log.capturing
        /\ log'.printed = IF line.threshold < log.threshold \/ log.suppressing THEN log.printed
                          ELSE Append(log.printed, line)
        /\ log'.captured["startup"] = IF "startup" \in log.capturing THEN Append(log.captured["startup"], line)
                                      ELSE log.captured["startup"]
    BY <1>1, <1>2, <2>1, LogLineDoes
  <2>3. log'.printed = log.printed /\ log'.suppressing
    BY <1>3, <2>2, Zenon
  <2>4. "startup" \in log.capturing
    BY <1>3
  <2>5. log'.captured["startup"] = Append(log.captured["startup"], line)
    BY <2>2, <2>4, Zenon
  <2>6. QED
    BY <1>3, <2>2, <2>3, <2>5
<1>6. said' \in Seq(Lines) /\ \A n \in DOMAIN said' : said'[n].n = n
  <2>1. said' = Append(said, line)
    BY DEF line
  <2>2. QED
    BY <1>1, <1>2, <2>1
<1>7. LogType'
  BY <1>4, <1>5, <1>6 DEF LogInv, LogType
<1>8. said' = Append(said, line)
  BY DEF line
<1>9. QED
  BY <1>5, <1>7, <1>8 DEF LogInv, StartupLogged, At

(* Once the lines are played back, a step that says nothing more, or a     *)
(* line that is not of the start, leaves them as they were printed.        *)
LEMMA PlayedLater ==
    ASSUME NEW upto, NEW wanted, Played(upto, wanted), log \in LogRec, said' = said,
           \/ log'.printed = log.printed
           \/ \E line \in Lines : line.n = 0 /\ log'.printed = Append(log.printed, line)
    PROVE  Played(upto, wanted)'
<1> DEFINE p == log.printed
           q == log'.printed
<1>1. p \in Seq(Lines)
  BY DEF LogRec
<1>2. /\ \A k \in DOMAIN p : k \in DOMAIN q /\ q[k] = p[k]
      /\ \A k \in DOMAIN q : k \in DOMAIN p \/ q[k].n = 0
      /\ \A k \in DOMAIN p : k \in Nat /\ \A j \in 1..(k - 1) : j \in DOMAIN p
  <2>1. CASE q = p
    BY <1>1, <2>1
  <2>2. ASSUME NEW line \in Lines, line.n = 0, q = Append(p, line)
        PROVE  <1>2!1 /\ <1>2!2
    BY <1>1, <2>2
  <2>3. <1>2!3
    BY <1>1
  <2>4. QED
    BY <2>1, <2>2, <2>3
<1>3. {q[k].n : k \in {j \in DOMAIN q : q[j].n # 0}} = {p[k].n : k \in {j \in DOMAIN p : p[j].n # 0}}
  <2> HIDE DEF p, q
  <2>1. QED
    BY <1>2
<1>4. \A k \in DOMAIN q : q[k].n # 0 =>
        /\ q[k] = said[q[k].n]
        /\ \A j \in 1..(k - 1) : 0 < q[j].n /\ q[j].n < q[k].n
  <2>1. \A k \in DOMAIN p : p[k].n # 0 =>
          /\ p[k] = said[p[k].n]
          /\ \A j \in 1..(k - 1) : 0 < p[j].n /\ p[j].n < p[k].n
    BY DEF Played
  <2> HIDE DEF p, q
  <2>2. QED
    BY <1>2, <2>1
<1>5. QED
  BY <1>3, <1>4 DEF Played

(* One turn of the loop prints the line the iterator is at, if it is due.  *)
LEMMA PlayedOneMore ==
    ASSUME LogInv, PlayLine
    PROVE  LogInv'
<1> DEFINE line == said[it]
           p == log.printed
           q == log'.printed
           w == log.threshold
<1>1. /\ log \in LogRec /\ said \in Seq(Lines) /\ (\A n \in DOMAIN said : said[n].n = n)
      /\ stage = "playback" /\ stage' = stage /\ ended' = ended /\ said' = said /\ cli' = cli /\ g_cfg' = g_cfg
      /\ ~log.suppressing /\ log.captured["startup"] = said /\ it \in 1..(Len(said) + 1) /\ it <= Len(said)
      /\ it' = it + 1 /\ log' = print_line(log, said[it])
      /\ Played(it, w)
  BY DEF LogInv, LogType, PlayLine, At, serverVars, log_cap_lines_playback, StartupLogged
<1>2. it \in DOMAIN said /\ line \in Lines /\ line.n = it /\ line.threshold \in DEBUG..FATAL /\ it \in Nat /\ it > 0
  <2>1. DOMAIN said = 1..Len(said) /\ Len(said) \in Nat /\ \A n \in DOMAIN said : said[n] \in Lines
    BY <1>1
  <2>2. it \in DOMAIN said /\ it \in Nat /\ it > 0
    BY <1>1, <2>1
  <2>3. line \in Lines /\ line.n = it
    BY <1>1, <2>1, <2>2
  <2>4. QED
    BY <2>2, <2>3 DEF Lines
<1>3. /\ log' \in LogRec
      /\ log'.threshold = w /\ log'.threshold_cli = log.threshold_cli /\ log'.captured = log.captured
      /\ log'.suppressing = log.suppressing
      /\ q = IF line.threshold < w \/ log.suppressing THEN p ELSE Append(p, line)
  <2>1. log' \in LogRec
    BY <1>1, <1>2, LogOpsType, TRUE \in BOOLEAN, 0 \in {0} \cup (DEBUG..FATAL)
  <2>2. QED
    BY <1>1, <2>1 DEF print_line, LogRec
<1>4. p \in Seq(Lines) /\ w \in DEBUG..FATAL
  BY <1>1 DEF LogRec
<1>5. /\ {p[k].n : k \in {j \in DOMAIN p : p[j].n # 0}} = {n \in DOMAIN said : n < it /\ said[n].threshold >= w}
      /\ \A k \in DOMAIN p : p[k].n # 0 =>
           /\ p[k] = said[p[k].n]
           /\ \A j \in 1..(k - 1) : 0 < p[j].n /\ p[j].n < p[k].n
  BY <1>1 DEF Played
<1>6. /\ \A n \in DOMAIN said : n \in Nat /\ said[n].threshold \in DEBUG..FATAL
      /\ \A k \in DOMAIN p : p[k].n \in Nat /\ p[k].n # 0
  <2>1. DOMAIN said = 1..Len(said) /\ Len(said) \in Nat /\ \A n \in DOMAIN said : said[n] \in Lines
    BY <1>1
  <2>2. \A k \in DOMAIN p : p[k] \in Lines
    BY <1>4
  <2>3. \A k \in DOMAIN p : p[k].n # 0
    BY <1>1 DEF LogInv, At
  <2>4. QED
    BY <2>1, <2>2, <2>3 DEF Lines
<1>7. Played(it, log.threshold)' /\ \A k \in DOMAIN q : q[k].n # 0
  <2> HIDE DEF p, q, w, line
  <2>1. CASE line.threshold < w
    <3>1. q = p
      BY <1>3, <2>1, Zenon
    <3>2. {n \in DOMAIN said : n < it + 1 /\ said[n].threshold >= w}
            = {n \in DOMAIN said : n < it /\ said[n].threshold >= w}
      <4>1. ASSUME NEW n \in DOMAIN said, n < it + 1, said[n].threshold >= w
            PROVE  n < it
        BY <1>2, <1>4, <1>6, <2>1, <4>1 DEF DEBUG, FATAL, line
      <4>2. QED
        BY <1>2, <1>6, <4>1
    <3>3. Played(it, log.threshold)'
      <4>1. {q[k].n : k \in {j \in DOMAIN q : q[j].n # 0}} = {n \in DOMAIN said : n < it + 1 /\ said[n].threshold >= w}
        BY <1>5, <3>1, <3>2
      <4>2. ASSUME NEW k \in DOMAIN q, q[k].n # 0
            PROVE  /\ q[k] = said[q[k].n]
                   /\ \A j \in 1..(k - 1) : 0 < q[j].n /\ q[j].n < q[k].n
        BY <1>5, <3>1, <4>2
      <4>3. QED
        BY <1>1, <1>3, <4>1, <4>2 DEF Played, q, w
    <3>4. QED
      BY <1>6, <3>1, <3>3
  <2>2. CASE ~(line.threshold < w)
    <3>1. q = Append(p, line)
      BY <1>1, <1>3, <2>2, Zenon
    <3>2. /\ Len(p) \in Nat /\ DOMAIN p = 1..Len(p) /\ DOMAIN q = 1..(Len(p) + 1)
          /\ q[Len(p) + 1] = line /\ \A k \in 1..Len(p) : q[k] = p[k]
      BY <1>4, <3>1
    <3>3. \A k \in 1..Len(p) : p[k].n \in DOMAIN said /\ p[k].n < it /\ said[p[k].n].threshold >= w
      <4>1. \A k \in 1..Len(p) : p[k].n \in {p[j].n : j \in {i \in DOMAIN p : p[i].n # 0}}
        BY <1>6, <3>2
      <4>2. QED
        BY <1>5, <4>1
    <3>4. {q[k].n : k \in {j \in DOMAIN q : q[j].n # 0}} = {n \in DOMAIN said : n < it + 1 /\ said[n].threshold >= w}
      <4>1. ASSUME NEW k \in DOMAIN q
            PROVE  q[k].n \in DOMAIN said /\ q[k].n < it + 1 /\ said[q[k].n].threshold >= w
        <5>1. CASE k \in 1..Len(p)
          BY <1>2, <1>6, <3>2, <3>3, <5>1
        <5>2. CASE k = Len(p) + 1
          <6>1. q[k].n = it /\ said[it] = line
            BY <1>2, <3>2, <5>2 DEF line
          <6>2. QED
            BY <1>2, <1>4, <2>2, <6>1 DEF DEBUG, FATAL
        <5>3. QED
          BY <3>2, <5>1, <5>2
      <4>2. ASSUME NEW n \in DOMAIN said, n < it + 1, said[n].threshold >= w
            PROVE  \E k \in DOMAIN q : q[k].n # 0 /\ n = q[k].n
        <5>1. CASE n = it
          <6>1. Len(p) + 1 \in DOMAIN q /\ q[Len(p) + 1].n = it
            BY <1>2, <3>2
          <6>2. QED
            BY <1>2, <5>1, <6>1
        <5>2. CASE n # it
          <6>1. n < it
            BY <1>2, <1>6, <4>2, <5>2
          <6>2. PICK k \in DOMAIN p : p[k].n # 0 /\ n = p[k].n
            BY <1>5, <4>2, <6>1
          <6>3. QED
            BY <3>2, <6>2
        <5>3. QED
          BY <5>1, <5>2
      <4>3. QED
        BY <4>1, <4>2
    <3>5. ASSUME NEW k \in DOMAIN q
          PROVE  /\ q[k].n # 0 /\ q[k] = said[q[k].n]
                 /\ \A j \in 1..(k - 1) : 0 < q[j].n /\ q[j].n < q[k].n
      <4>1. CASE k \in 1..Len(p)
        <5>1. q[k] = p[k] /\ p[k].n # 0 /\ k \in DOMAIN p
          BY <1>6, <3>2, <4>1
        <5>2. \A j \in 1..(k - 1) : q[j] = p[j]
          BY <3>2, <4>1
        <5>3. QED
          BY <1>5, <5>1, <5>2
      <4>2. CASE k = Len(p) + 1
        <5>1. q[k] = line /\ line = said[it] /\ line.n = it
          BY <1>2, <3>2, <4>2 DEF line
        <5>2. \A j \in 1..(k - 1) : j \in DOMAIN p /\ q[j] = p[j] /\ p[j].n < it /\ p[j].n # 0 /\ p[j].n \in Nat
          BY <1>6, <3>2, <3>3, <4>2
        <5>3. QED
          BY <1>2, <5>1, <5>2
      <4>3. QED
        BY <3>2, <4>1, <4>2
    <3>6. Played(it, log.threshold)'
      BY <1>1, <1>3, <3>4, <3>5 DEF Played, q, w
    <3>7. QED
      BY <3>5, <3>6
  <2>3. QED
    BY <2>1, <2>2
<1>8. LogType'
  BY <1>1, <1>3 DEF LogInv, LogType
<1>9. (~log.suppressing)' /\ it' \in 1..(Len(said') + 1) /\ (log.captured["startup"] = said)'
      /\ (cli = 0 => log.threshold = g_cfg.log_threshold)' /\ (cli # 0 => log.threshold = cli)'
  <2>1. it + 1 \in 1..(Len(said) + 1)
    BY <1>1
  <2>2. QED
    BY <1>1, <1>3, <2>1 DEF LogInv, LogType, At
<1>10. stage' = "playback" /\ ended' # "killed"
  BY <1>1 DEF LogInv, At
<1>11. QED
  BY <1>7, <1>8, <1>9, <1>10 DEF LogInv, StartupLogged, At

(* Every step keeps what is known of the log.                              *)
LEMMA LogNext ==
    ASSUME LogInv, [Next]_vars
    PROVE  LogInv'
<1> DEFINE Early == {"log", "cfg", "playback"}
<1>1. CASE LogStart
  <2>1. /\ stage = "log" /\ stage' = "cfg" /\ ended' = ended /\ said = <<>> /\ said' = <<Line(1, INFO)>>
        /\ cli' = cli /\ g_cfg' = g_cfg
        /\ log' = log_info(log_suppress_start(log_cap_lines_start(log, "startup")), 1)
        /\ log \in LogRec /\ log.captured["startup"] = <<>> /\ log.capturing = {} /\ log.printed = <<>>
    BY <1>1 DEF LogStart, At, Goto, LogInv, LogType, StartupLogged
  <2> DEFINE line == Line(1, INFO)
             lg == log_suppress_start(log_cap_lines_start(log, "startup"))
  <2>2. line \in Lines /\ line.n = 1
    BY DEF Line, Lines, INFO, DEBUG, FATAL
  <2>3. lg \in LogRec
    BY <2>1, ServiceAssumption DEF LogRec, log_suppress_start, log_cap_lines_start
  <2>4. /\ lg.captured["startup"] = <<>> /\ "startup" \in lg.capturing /\ lg.capturing = {"startup"}
        /\ lg.suppressing = TRUE /\ lg.printed = <<>>
        /\ lg.threshold = log.threshold /\ lg.threshold_cli = log.threshold_cli
    BY <2>1 DEF LogRec, log_suppress_start, log_cap_lines_start
  <2> HIDE DEF line, lg
  <2>5. log' = log_line(lg, line)
    BY <2>1 DEF log_info, line, lg
  <2>6. log' \in LogRec
    BY <2>2, <2>3, <2>5, LogOpsType, TRUE \in BOOLEAN, 0 \in {0} \cup (DEBUG..FATAL)
  <2>7. /\ log'.threshold = lg.threshold /\ log'.threshold_cli = lg.threshold_cli
        /\ log'.suppressing = lg.suppressing /\ log'.capturing = lg.capturing
        /\ log'.printed = IF line.threshold < lg.threshold \/ lg.suppressing THEN lg.printed
                          ELSE Append(lg.printed, line)
        /\ log'.captured["startup"] = IF "startup" \in lg.capturing THEN Append(lg.captured["startup"], line)
                                      ELSE lg.captured["startup"]
    BY <2>2, <2>3, <2>5, LogLineDoes
  <2>8. log'.printed = <<>> /\ log'.suppressing = TRUE /\ log'.capturing = {"startup"}
    BY <2>4, <2>7, Zenon
  <2>9. log'.captured["startup"] = Append(<<>>, line)
    BY <2>4, <2>7, Zenon
  <2>10. said' = Append(<<>>, line) /\ said' \in Seq(Lines) /\ \A n \in DOMAIN said' : said'[n].n = n
    BY <2>1, <2>2 DEF line
  <2>11. LogType'
    BY <2>1, <2>4, <2>6, <2>7, <2>10 DEF LogInv, LogType
  <2>12. ended' # "killed"
    BY <2>1 DEF LogInv, At
  <2>13. QED
    BY <2>1, <2>8, <2>9, <2>10, <2>11, <2>12 DEF LogInv, LogType, StartupLogged, At
<1>2. CASE \E t \in DEBUG..ERROR : CfgSays(t)
  <2>1. PICK t \in DEBUG..ERROR : CfgSays(t)
    BY <1>2
  <2>2. t \in DEBUG..FATAL
    BY DEF DEBUG, ERROR, FATAL
  <2>3. QED
    BY <2>1, <2>2, LogSaid DEF CfgSays, log_, serverVars
<1>3. CASE CfgMigrates
  <2>1. WARNING \in DEBUG..FATAL
    BY DEF DEBUG, WARNING, FATAL
  <2>2. QED
    BY <1>3, <2>1, LogSaid DEF CfgMigrates, log_warn, serverVars
<1>4. CASE CfgRead
  <2>1. /\ stage = "cfg" /\ stage' = "playback" /\ ended' = ended /\ said' = said /\ it' = 1
        /\ cli' = cli /\ g_cfg' = g_cfg /\ log' = ThresholdKnown(log, g_cfg.log_threshold)
        /\ log \in LogRec /\ log.captured["startup"] = said /\ log.printed = <<>> /\ said \in Seq(Lines)
    BY <1>4 DEF CfgRead, At, Goto, LogInv, LogType, StartupLogged
  <2>2. g_cfg.log_threshold \in DEBUG..FATAL /\ g_cfg.log_threshold # 0
    BY ServiceAssumption DEF LogInv, LogType, DEBUG, FATAL
  <2> DEFINE lg == log_set_threshold(log, g_cfg.log_threshold, FALSE)
  <2>3. /\ lg \in LogRec /\ lg.threshold_cli = log.threshold_cli
        /\ lg.threshold = IF log.threshold_cli THEN log.threshold ELSE g_cfg.log_threshold
        /\ lg.captured = log.captured /\ lg.printed = log.printed
    BY <2>1, <2>2 DEF log_set_threshold, LogRec
  <2> HIDE DEF lg
  <2>4. /\ log' \in LogRec /\ log'.threshold_cli = lg.threshold_cli /\ log'.threshold = lg.threshold
        /\ log'.captured = lg.captured /\ log'.printed = lg.printed /\ ~log'.suppressing
    BY <2>1, <2>3 DEF ThresholdKnown, log_suppress_stop, log_cap_lines_stop, LogRec, lg
  <2>5. LogType' /\ (cli = 0 => log.threshold = g_cfg.log_threshold)' /\ (cli # 0 => log.threshold = cli)'
    BY <2>1, <2>3, <2>4 DEF LogInv, LogType
  <2>6. log'.printed = <<>> /\ log'.captured["startup"] = said' /\ it' \in 1..(Len(said') + 1)
    BY <2>1, <2>3, <2>4
  <2>7. Played(it, log.threshold)'
    <3>1. \A n \in DOMAIN said' : ~(n < it')
      BY <2>1
    <3>2. QED
      BY <2>6, <3>1 DEF Played
  <2>8. ended' # "killed"
    BY <2>1 DEF LogInv, At
  <2>9. QED
    BY <2>1, <2>4, <2>5, <2>6, <2>7, <2>8 DEF LogInv, StartupLogged, At
<1>5. CASE PlayLine
  BY <1>5, PlayedOneMore
<1>6. CASE PlayedBack
  <2>1. /\ stage = "playback" /\ stage' = "lid" /\ ended' = ended /\ said' = said /\ log' = Freed(log)
        /\ cli' = cli /\ g_cfg' = g_cfg /\ log \in LogRec /\ log.captured["startup"] = said
        /\ said \in Seq(Lines) /\ it \in 1..(Len(said) + 1) /\ it > Len(log.captured["startup"])
        /\ Played(it, log.threshold) /\ (cli = 0 => log.threshold = g_cfg.log_threshold)
    BY <1>6 DEF PlayedBack, At, Goto, LogInv, LogType, StartupLogged
  <2>2. it = Len(said) + 1
    BY <2>1
  <2>3. /\ log' \in LogRec /\ log'.threshold_cli = log.threshold_cli /\ log'.threshold = log.threshold
        /\ log'.printed = log.printed
    <3>1. Freed(log) \in LogRec
      <4>1. [c \in CapLists |-> IF c = "startup" THEN <<>> ELSE log.captured[c]] \in [CapLists -> Seq(Lines)]
        BY <2>1 DEF LogRec
      <4>2. QED
        BY <2>1, <4>1 DEF Freed, LogRec
    <3>2. QED
      BY <2>1, <3>1 DEF Freed, LogRec
  <2>4. Played(Len(said) + 1, log.threshold)'
    BY <2>1, <2>2, <2>3 DEF Played
  <2>5. LogType' /\ (cli # 0 => log.threshold = cli)' /\ (cli = 0 => log.threshold = g_cfg.log_threshold)'
    BY <2>1, <2>3 DEF LogInv, LogType
  <2>6. ended' # "killed"
    BY <2>1 DEF LogInv, At
  <2>7. QED
    BY <2>1, <2>4, <2>5, <2>6 DEF LogInv, StartupLogged, At
<1>7. ASSUME stage \notin Early, stage' \notin Early \cup {"lid"}, said' = said, cli' = cli, LogType',
             ended' = "killed" => stage' = "ended", ended = "killed" => ended' = "killed",
             \/ log'.printed = log.printed
             \/ \E line \in Lines : line.n = 0 /\ log'.printed = Append(log.printed, line)
      PROVE  LogInv'
  <2>1. CASE ended' = "killed"
    BY <1>7, <2>1 DEF LogInv, LogType, StartupLogged, At
  <2>2. CASE ended' # "killed"
    <3>1. PICK wanted \in IF cli # 0 THEN {cli} ELSE DEBUG..FATAL : Played(Len(said) + 1, wanted)
      <4>1. CASE At("lid") /\ cli = 0
        BY <1>7, <2>2, <4>1, ServiceAssumption DEF LogInv, LogType, StartupLogged
      <4>2. CASE ~(At("lid") /\ cli = 0)
        BY <1>7, <2>2, <4>2 DEF LogInv, StartupLogged
      <4>3. QED
        BY <4>1, <4>2
    <3>2. Played(Len(said) + 1, wanted)'
      <4>1. log \in LogRec
        BY DEF LogInv, LogType
      <4>2. PICK upto : upto = Len(said) + 1
        OBVIOUS
      <4>3. Played(upto, wanted)
        BY <3>1, <4>2
      <4>4. Played(upto, wanted)'
        BY <1>7, <4>1, <4>3, PlayedLater
      <4>5. Len(said') + 1 = upto
        BY <1>7, <4>2
      <4>6. QED
        BY <4>4, <4>5 DEF Played
    <3>3. QED
      BY <1>7, <2>2, <3>1, <3>2 DEF LogInv, LogType, StartupLogged, At
  <2>3. QED
    BY <2>1, <2>2
<1>8. ASSUME stage \notin Early, stage' \notin Early \cup {"lid"}, UNCHANGED <<log, said, cli>>, g_cfg' \in StartCfgs,
             ended' = "killed" => stage' = "ended", ended = "killed" => ended' = "killed"
      PROVE  LogInv'
  <2>1. LogType'
    BY <1>8 DEF LogInv, LogType
  <2>2. QED
    BY <1>7, <1>8, <2>1
<1>9. ASSUME UNCHANGED <<stage, ended, log, said, it, cli, g_cfg>>
      PROVE  LogInv'
  <2>1. LogType' <=> LogType
    BY <1>9 DEF LogType
  <2>2. Played(it, log.threshold)' <=> Played(it, log.threshold)
    BY <1>9 DEF Played
  <2>3. \A wanted : Played(Len(said) + 1, wanted)' <=> Played(Len(said) + 1, wanted)
    BY <1>9 DEF Played
  <2>4. StartupLogged'
    BY <1>9, <2>2, <2>3 DEF LogInv, StartupLogged, At
  <2>5. QED
    BY <1>9, <2>1, <2>4 DEF LogInv, At
<1>10. g_cfg \in StartCfgs /\ (ended = "killed" => stage = "ended")
  BY DEF LogInv, LogType, At
<1>11. CASE g_lid_init \/ g_displ_init
  <2>1. /\ stage \notin Early /\ stage' \notin Early \cup {"lid"} /\ UNCHANGED <<log, said, cli, g_cfg>>
        /\ stage # "ended" /\ (ended' = ended \/ ended' = "exit")
    BY <1>11 DEF g_lid_init, g_displ_init, At, Goto, End, logVars
  <2>2. QED
    BY <1>8, <1>10, <2>1
<1>12. CASE bind_zwlr_output_manager \/ bind_zxdg_output_manager \/ bind_wl_output
            \/ GlobalRemoveOutput \/ GlobalRemoveManager
  <2>1. /\ stage \notin Early /\ stage' \notin Early \cup {"lid"} /\ UNCHANGED <<log, said, cli, g_cfg>>
        /\ stage # "ended" /\ (ended' = ended \/ ended' = "exit")
    BY <1>12 DEF bind_zwlr_output_manager, bind_zxdg_output_manager, bind_wl_output,
           GlobalRemoveOutput, GlobalRemoveManager, Registry, End, logVars, serverVars
  <2>2. QED
    BY <1>8, <1>10, <2>1
<1>13. CASE RoundTrip \/ create_fds \/ LoopReturns \/ WaylandFails \/ Teardown
  <2>1. /\ stage \notin Early /\ stage' \notin Early \cup {"lid"} /\ UNCHANGED <<log, said, cli, g_cfg>>
        /\ stage # "ended" /\ (ended' = ended \/ ended' \in {"exit", "clean"})
    BY <1>13 DEF RoundTrip, create_fds, LoopReturns, WaylandFails, Teardown, Poll, At, Goto, End, logVars
  <2>2. QED
    BY <1>8, <1>10, <2>1
<1>14. CASE (\E o \in Outputs : zxdg_output_name(o)) \/ ManagerFinished \/ ReadLid \/ MoveLid \/ Compositor
            \/ UNCHANGED vars
  BY <1>9, <1>14 DEF zxdg_output_name, ManagerFinished, ReadLid, MoveLid, Compositor, vars, logVars, serverVars
<1>15. CASE Killed
  <2>1. stage' = "ended" /\ ended' = "killed" /\ UNCHANGED <<log, said, it, cli, g_cfg>>
    BY <1>15 DEF Killed, End, logVars
  <2>2. LogType'
    BY <2>1 DEF LogInv, LogType
  <2>3. QED
    BY <2>1, <2>2 DEF LogInv, LogType, StartupLogged, At
<1>16. CASE \E cfg \in StartCfgs : Reload(cfg)
  <2>1. PICK cfg \in StartCfgs : Reload(cfg)
    BY <1>16
  <2>2. /\ stage = "loop" /\ UNCHANGED <<stage, ended, said, cli>> /\ g_cfg' = cfg
        /\ log' = log_set_threshold(log, cfg.log_threshold, FALSE) /\ log \in LogRec
    BY <2>1 DEF Reload, Poll, At, serverVars, LogInv, LogType
  <2>3. cfg.log_threshold \in DEBUG..FATAL
    BY ServiceAssumption
  <2>4. /\ log' \in LogRec /\ log'.threshold_cli = log.threshold_cli /\ log'.printed = log.printed
        /\ log.threshold_cli => log'.threshold = log.threshold
    BY <2>2, <2>3 DEF log_set_threshold, LogRec
  <2>5. LogType'
    BY <2>1, <2>2, <2>4 DEF LogInv, LogType
  <2>6. QED
    BY <1>7, <1>10, <2>2, <2>4, <2>5
<1>17. CASE \E t \in INFO..FATAL : Report(t)
  <2>1. PICK t \in INFO..FATAL : Report(t)
    BY <1>17
  <2>2. /\ stage = "loop" /\ UNCHANGED <<stage, ended, said, cli, g_cfg>>
        /\ log' = log_line(log, Line(0, t)) /\ log \in LogRec
    BY <2>1 DEF Report, At, serverVars, log_, LogInv, LogType
  <2> DEFINE line == Line(0, t)
  <2>3. line \in Lines /\ line.n = 0
    BY DEF Line, Lines, INFO, DEBUG, FATAL
  <2> HIDE DEF line
  <2>4. log' \in LogRec
    BY <2>2, <2>3, LogOpsType, TRUE \in BOOLEAN, 0 \in {0} \cup (DEBUG..FATAL) DEF line
  <2>5. log' = log_line(log, line)
    BY <2>2 DEF line
  <2>6. /\ log'.threshold = log.threshold /\ log'.threshold_cli = log.threshold_cli
        /\ log'.printed = IF line.threshold < log.threshold \/ log.suppressing THEN log.printed
                          ELSE Append(log.printed, line)
    BY <2>2, <2>3, <2>5, LogLineDoes
  <2>7. LogType'
    BY <2>2, <2>4, <2>6 DEF LogInv, LogType
  <2>8. log'.printed = log.printed \/ log'.printed = Append(log.printed, line)
    BY <2>6
  <2>9. QED
    BY <1>7, <1>10, <2>2, <2>3, <2>7, <2>8
<1>18. QED
  BY <1>1, <1>2, <1>3, <1>4, <1>5, <1>6, <1>11, <1>12, <1>13, <1>14, <1>15, <1>16, <1>17 DEF Next

(* Every line said before the threshold was known is printed exactly once, *)
(* in order and before any later line, if it reaches the threshold of the  *)
(* command line or else of the file, and never otherwise; at every turn of *)
(* the playback that holds of the lines it has passed; no reload displaces *)
(* the command line's threshold (server.c server, log.c                    *)
(* log_cap_lines_playback, log_set_threshold).                             *)
THEOREM StartupIsLogged == Spec => []StartupLogged
<1>1. LogInv /\ [Next]_vars => LogInv'
  BY LogNext
<1>2. LogInv => StartupLogged
  BY DEF LogInv
<1>3. QED
  BY LogInit, <1>1, <1>2, PTL DEF Spec
=============================================================================
