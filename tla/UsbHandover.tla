----------------------------- MODULE UsbHandover -----------------------------
(***************************************************************************)
(* How the disk passes from the player to the computer and back: the cable *)
(* and its debounce timer, the usb thread (firmware/usb.c), the part of    *)
(* usb_core.c that decides when exclusive storage is needed, and the       *)
(* threads that must acknowledge SYS_USB_CONNECTED, each with its queue.   *)
(* The build is the iPod Classic's: HAVE_USBSTACK, USB_STATUS_BY_EVENT,    *)
(* USB_DETECT_BY_REQUEST, HAVE_USB_POWER.                                  *)
(*                                                                         *)
(* The scheduler is cooperative, so a step is the handling of one message; *)
(* a thread that works between taking SYS_USB_CONNECTED and acknowledging  *)
(* it (stops playback, saves, closes its files) takes a step for each.     *)
(* Queues are their contents: EventQueue models the ring, and no queue     *)
(* comes near its 16 entries here.                                         *)
(***************************************************************************)
EXTENDS Naturals, Sequences, FiniteSets, SequencesExt

CONSTANTS
    Stoppers,      \* threads that acknowledge and wait for the disconnect
    Players,       \* those of them that may be playing: the audio thread
    Ackers,        \* threads that acknowledge and go on: storage, backlight, iap
    Gui,           \* the stopper that runs plugins: the main thread
    Plugins,       \* plugin threads with a registered queue that never acknowledge
    MaxSeq,        \* bound: exclusive storage requests
    MaxUsbQueue    \* bound: messages in usb_queue when hardware adds one

Clients == Stoppers \cup Ackers \cup Plugins

ASSUME UsbAssumption ==
    /\ Gui \in Stoppers
    /\ Players \subseteq Stoppers \ {Gui}
    /\ Stoppers \cap Ackers = {} /\ (Stoppers \cup Ackers) \cap Plugins = {}
    /\ IsFiniteSet(Clients)
    /\ MaxSeq \in Nat
    /\ MaxUsbQueue \in Nat

VARIABLES
    cable,          \* usb_status of usb-s5l8702.c: the cable is in
    monitoring,     \* usb_monitor_enabled
    lastStatus,     \* last_status of usb_status_event
    debouncing,     \* its timeout is registered
    usbQueue,       \* usb_queue
    usbState,       \* usb_state of usb.c
    powerOnly,      \* usb_power_only
    hostPresent,    \* usb_host_present
    storageDriver,  \* drivers[USB_DRIVER_MASS_STORAGE].enabled
    usbConfig,      \* usb_config of usb_core.c: the selected configuration
    resetPending,   \* bus_reset_pending
    requested,      \* exclusive_storage_requested
    enabled,        \* exclusive_storage_enabled
    acks,           \* usb_num_acks_to_expect
    seqnum,         \* usb_broadcast_seqnum, counted from its first value
    mounted,        \* the volumes are mounted
    queue,          \* client -> messages of its queue that matter here
    pc,             \* client -> where its thread is
    ackSeq,         \* client -> ev.data it will acknowledge with
    playing         \* the clients that are inside audio_playback_handler

detectVars == <<cable, monitoring, lastStatus, debouncing>>
connVars   == <<usbState, powerOnly, hostPresent, storageDriver>>
coreVars   == <<usbConfig, resetPending>>
diskVars   == <<requested, enabled, acks, seqnum, mounted>>
clientVars == <<queue, pc, ackSeq, playing>>
vars == <<detectVars, usbQueue, connVars, coreVars, diskVars, clientVars>>

------------------------------------------------------------------------------
(* Messages *)

Msg(id, data) == [id |-> id, data |-> data]
Connected(n)  == Msg("SYS_USB_CONNECTED", n)
Disconnected  == Msg("SYS_USB_DISCONNECTED", 0)
Ack(n)        == Msg("SYS_USB_CONNECTED_ACK", n)

ClientMsgs == {Connected(n) : n \in 1..MaxSeq} \cup {Disconnected}

Configs == 0..2     \* NUM_CONFIGS; 1 holds mass storage, 2 audio and iAP

(* A TRANSFER_COMPLETION carries a request of the host; one that selects a *)
(* configuration is told from all the others.                              *)
Completion(m) == m.id \in {"SET_CONFIGURATION", "OTHER_REQUEST"}

UsbMsgs == {Ack(n) : n \in 1..MaxSeq}
           \cup {Msg("SET_CONFIGURATION", c) : c \in Configs}
           \cup {Msg(id, 0) : id \in {"OTHER_REQUEST", "BUS_RESET",
                                      "USB_INSERTED", "USB_EXTRACTED"}}

ConnTypes ==
    /\ cable \in BOOLEAN /\ monitoring \in BOOLEAN
    /\ lastStatus \in BOOLEAN /\ debouncing \in BOOLEAN
    /\ usbState \in {"screendump", "extracted", "powered", "inserted"}
    /\ powerOnly \in BOOLEAN /\ hostPresent \in BOOLEAN
    /\ storageDriver \in BOOLEAN
    /\ usbConfig \in Configs /\ resetPending \in BOOLEAN

DiskTypes ==
    /\ requested \in BOOLEAN /\ enabled \in BOOLEAN /\ mounted \in BOOLEAN
    /\ acks \in 0..Cardinality(Clients) /\ seqnum \in 0..MaxSeq

ClientTypes ==
    /\ queue \in [Clients -> Seq(ClientMsgs)]
    /\ pc \in [Clients -> {"working", "stopping", "waiting", "absent"}]
    /\ ackSeq \in [Clients -> 0..MaxSeq]
    /\ playing \subseteq Players

TypeOK == ConnTypes /\ usbQueue \in Seq(UsbMsgs) /\ DiskTypes /\ ClientTypes

Registered == {c \in Clients : pc[c] # "absent"}     \* all_queues, usb_queue aside

Init ==
    /\ cable \in BOOLEAN /\ monitoring = FALSE
    /\ lastStatus = FALSE /\ debouncing = FALSE
    /\ usbQueue = <<>>
    /\ usbState = "extracted" /\ powerOnly = FALSE /\ hostPresent = FALSE
    /\ storageDriver = FALSE
    /\ usbConfig = 0 /\ resetPending = FALSE
    /\ requested = FALSE /\ enabled = FALSE /\ acks = 0 /\ seqnum = 0
    /\ mounted = TRUE
    /\ queue = [c \in Clients |-> <<>>]
    /\ pc = [c \in Clients |-> IF c \in Plugins THEN "absent" ELSE "working"]
    /\ ackSeq = [c \in Clients |-> 0]
    /\ playing = {}

------------------------------------------------------------------------------
(* The cable: interrupts of the power management chip and the debounce     *)

Places(q, m) == {i \in DOMAIN q : q[i] = m}

HardwareMayPost == Len(usbQueue) < MaxUsbQueue

(* usb_status_event with interrupts off *)
StatusEvent(status) == lastStatus' = status /\ debouncing' = TRUE

(* usb_insert_int and usb_remove_int; the chip may report the same state   *)
(* twice.                                                                  *)
CableInterrupt(in) ==
    /\ HardwareMayPost
    /\ cable' = in
    /\ IF monitoring THEN StatusEvent(in) ELSE UNCHANGED <<lastStatus, debouncing>>
    /\ UNCHANGED <<monitoring, usbQueue, connVars, coreVars, diskVars, clientVars>>

(* Mutant: a cable that was in before monitoring began is missed. *)
StartMonitoringUnaware ==
    /\ ~monitoring
    /\ monitoring' = TRUE
    /\ UNCHANGED <<cable, lastStatus, debouncing, usbQueue>>
    /\ UNCHANGED <<connVars, coreVars, diskVars, clientVars>>

StartMonitoring ==
    /\ ~monitoring
    /\ monitoring' = TRUE
    /\ StatusEvent(cable)
    /\ UNCHANGED <<cable, usbQueue, connVars, coreVars, diskVars, clientVars>>

(* usb_status_tmo_callback, from the tick interrupt *)
DebounceExpired ==
    /\ debouncing
    /\ IF cable # lastStatus
       THEN lastStatus' = cable /\ UNCHANGED <<debouncing, usbQueue>>
       ELSE /\ debouncing' = FALSE
            /\ usbQueue' = Append(usbQueue,
                                  Msg(IF cable THEN "USB_INSERTED" ELSE "USB_EXTRACTED", 0))
            /\ UNCHANGED lastStatus
    /\ UNCHANGED <<cable, monitoring, connVars, coreVars, diskVars, clientVars>>

------------------------------------------------------------------------------
(* The computer: the controller's interrupts while the stack is running    *)

StackInitialized == usbState \in {"powered", "inserted"}

(* usb_core_control_request *)
HostRequest(m) ==
    /\ cable /\ StackInitialized /\ HardwareMayPost
    /\ m.data = 1 =>     \* the bound on handovers
         seqnum + Cardinality(Places(usbQueue, m)) < MaxSeq
    /\ usbQueue' = Append(usbQueue, m)
    /\ UNCHANGED <<detectVars, connVars, coreVars, diskVars, clientVars>>

(* usb_core_bus_reset; with no configuration selected it acts at once and  *)
(* touches nothing modelled here.                                          *)
BusReset ==
    /\ cable /\ StackInitialized /\ HardwareMayPost
    /\ ~resetPending /\ usbConfig # 0
    /\ resetPending' = TRUE
    /\ usbQueue' = Append(usbQueue, Msg("BUS_RESET", 0))
    /\ UNCHANGED <<detectVars, connVars, usbConfig, diskVars, clientVars>>

------------------------------------------------------------------------------
(* Requesting and releasing exclusive storage *)

Broadcast(q, m) == [c \in Clients |-> IF c \in Registered THEN Append(q[c], m) ELSE q[c]]

(* Mutants: usb_queue, which is registered too, is not (or twice) deducted  *)
(* from the number of queues.                                              *)
RequestCountingUsbQueue(q) ==
    /\ requested' = TRUE
    /\ seqnum' = seqnum + 1
    /\ acks' = Cardinality(Registered) + 1
    /\ queue' = Broadcast(q, Connected(seqnum'))

RequestOneAckShort(q) ==
    /\ requested' = TRUE
    /\ seqnum' = seqnum + 1
    /\ acks' = Cardinality(Registered) - 1
    /\ queue' = Broadcast(q, Connected(seqnum'))

(* usb_request_exclusive_storage, on queues q *)
RequestExclusiveStorage(q) ==
    /\ requested' = TRUE
    /\ seqnum' = seqnum + 1
    /\ acks' = Cardinality(Registered)
    /\ queue' = Broadcast(q, Connected(seqnum'))

(* Mutants: the flag is cleared before it is looked at; only threads that   *)
(* lost the disk are told.                                                 *)
ReleaseWithoutMount ==
    /\ requested' = FALSE
    /\ enabled' = FALSE
    /\ queue' = IF requested THEN Broadcast(queue, Disconnected) ELSE queue
    /\ UNCHANGED <<acks, seqnum, mounted>>

ReleaseTellingIfEnabled ==
    /\ requested' = FALSE
    /\ enabled' = FALSE
    /\ mounted' = (mounted \/ (requested /\ enabled))
    /\ queue' = IF requested /\ enabled THEN Broadcast(queue, Disconnected) ELSE queue
    /\ UNCHANGED <<acks, seqnum>>

(* usb_release_exclusive_storage; usb_slave_mode(false) mounts *)
ReleaseExclusiveStorage ==
    /\ requested' = FALSE
    /\ enabled' = FALSE
    /\ mounted' = (mounted \/ (requested /\ enabled))
    /\ queue' = IF requested THEN Broadcast(queue, Disconnected) ELSE queue
    /\ UNCHANGED <<acks, seqnum>>

(* Mutant: the pending request is not withdrawn first. *)
SetConfigNotWithdrawing(config, driver) ==
    IF config = 1 /\ driver
    THEN IF enabled
         THEN UNCHANGED <<diskVars, queue>>
         ELSE RequestExclusiveStorage(queue) /\ UNCHANGED <<enabled, mounted>>
    ELSE ReleaseExclusiveStorage

(* usb_core_do_set_config when the storage driver is (not) enabled: a      *)
(* request that is still being acknowledged is withdrawn and made anew.    *)
SetConfigDisk(config, driver) ==
    IF config = 1 /\ driver
    THEN IF enabled
         THEN UNCHANGED <<diskVars, queue>>
         ELSE /\ RequestExclusiveStorage(IF requested THEN Broadcast(queue, Disconnected)
                                                      ELSE queue)
              /\ UNCHANGED <<enabled, mounted>>
    ELSE ReleaseExclusiveStorage

(* usb_clear_pending_transfer_completion_events: what is left of q, in its *)
(* order.  (It is SelectSeq, which proofs cannot look into.)               *)
Left(q) == {i \in DOMAIN q : ~Completion(q[i])}
Nth(S, n) == CHOOSE k \in S : Cardinality(S \cap (1..k)) = n
WithoutCompletions(q) == [n \in 1..Cardinality(Left(q)) |-> q[Nth(Left(q), n)]]

(* The rest of it; q is what follows the message being handled.            *)
SetConfig(config, driver, q) ==
    /\ usbConfig' = config
    /\ usbQueue' = IF usbConfig # 0 THEN WithoutCompletions(q) ELSE q
    /\ SetConfigDisk(config, driver)
    /\ UNCHANGED <<pc, ackSeq, playing>>

------------------------------------------------------------------------------
(* usb_thread, one action per case of its switch *)

Receive(id) == usbQueue # <<>> /\ Head(usbQueue).id = id

(* USB_NOTIFY_BUS_RESET: usb_core_handle_notify, then do_bus_reset; thrown *)
(* away when the cable is considered out.                                  *)
HandleBusReset ==
    /\ Receive("BUS_RESET")
    /\ IF StackInitialized
       THEN SetConfig(0, storageDriver, Tail(usbQueue)) /\ resetPending' = FALSE
       ELSE /\ usbQueue' = Tail(usbQueue)
            /\ UNCHANGED <<coreVars, diskVars, clientVars>>
    /\ UNCHANGED <<detectVars, connVars>>

(* usb_set_host_present(true): the first request of a host decides which   *)
(* class drivers it will see.                                              *)
HostSeen ==
    /\ usbState' = "inserted"
    /\ hostPresent' = TRUE
    /\ storageDriver' = IF hostPresent THEN storageDriver ELSE ~powerOnly
    /\ UNCHANGED powerOnly

(* USB_TRANSFER_COMPLETION; what is not a SET_CONFIGURATION changes        *)
(* nothing else modelled here.                                             *)
HandleCompletion ==
    /\ usbQueue # <<>> /\ Completion(Head(usbQueue))
    /\ LET m == Head(usbQueue) IN
       IF StackInitialized
       THEN /\ HostSeen
            /\ IF m.id = "SET_CONFIGURATION"
               THEN SetConfig(m.data, storageDriver', Tail(usbQueue))
               ELSE /\ usbQueue' = Tail(usbQueue)
                    /\ UNCHANGED <<usbConfig, diskVars, clientVars>>
       ELSE usbQueue' = Tail(usbQueue) /\ UNCHANGED <<connVars, usbConfig, diskVars, clientVars>>
    /\ UNCHANGED <<detectVars, resetPending>>

(* USB_INSERTED: the user may have asked for a screen dump, or for power   *)
(* only (setting and buttons).                                             *)
HandleInserted ==
    /\ Receive("USB_INSERTED")
    /\ usbQueue' = Tail(usbQueue)
    /\ \/ usbState # "extracted" /\ UNCHANGED <<usbState, powerOnly>>
       \/ /\ usbState = "extracted"
          /\ \/ usbState' = "screendump" /\ UNCHANGED powerOnly
             \/ usbState' = "powered" /\ powerOnly' \in BOOLEAN
    /\ UNCHANGED <<detectVars, hostPresent, storageDriver, coreVars, diskVars, clientVars>>

(* Mutant: an ack is not compared with the sequence number. *)
HandleAnyAck ==
    /\ Receive("SYS_USB_CONNECTED_ACK")
    /\ usbQueue' = Tail(usbQueue)
    /\ IF acks # 0
       THEN /\ acks' = acks - 1
            /\ IF acks' = 0 /\ hostPresent /\ requested
               THEN enabled' = TRUE /\ mounted' = FALSE
               ELSE UNCHANGED <<enabled, mounted>>
       ELSE UNCHANGED <<acks, enabled, mounted>>
    /\ UNCHANGED <<detectVars, connVars, coreVars, requested, seqnum, clientVars>>

(* SYS_USB_CONNECTED_ACK; usb_slave_mode(true) unmounts *)
HandleAck ==
    /\ Receive("SYS_USB_CONNECTED_ACK")
    /\ usbQueue' = Tail(usbQueue)
    /\ IF Head(usbQueue).data = seqnum /\ acks # 0
       THEN /\ acks' = acks - 1
            /\ IF acks' = 0 /\ hostPresent /\ requested
               THEN enabled' = TRUE /\ mounted' = FALSE
               ELSE UNCHANGED <<enabled, mounted>>
       ELSE UNCHANGED <<acks, enabled, mounted>>
    /\ UNCHANGED <<detectVars, connVars, coreVars, requested, seqnum, clientVars>>

(* USB_EXTRACTED: usb_core_exit deselects the configuration *)
HandleExtracted ==
    /\ Receive("USB_EXTRACTED")
    /\ usbState' = "extracted"
    /\ IF StackInitialized
       THEN SetConfig(0, storageDriver, Tail(usbQueue))
       ELSE usbQueue' = Tail(usbQueue) /\ UNCHANGED <<usbConfig, diskVars, clientVars>>
    /\ hostPresent' = (hostPresent /\ usbState = "extracted")
    /\ UNCHANGED <<detectVars, powerOnly, storageDriver, resetPending>>

UsbThread == HandleBusReset \/ HandleCompletion \/ HandleInserted
             \/ HandleAck \/ HandleExtracted

------------------------------------------------------------------------------
(* The threads that use the disk *)

Pop(c) == queue' = [queue EXCEPT ![c] = Tail(@)]
HeadIs(c, id) == queue[c] # <<>> /\ Head(queue[c]).id = id

AcknowledgeWith(n) == usbQueue' = Append(usbQueue, Ack(n))     \* usb_acknowledge

othersUnchanged == <<detectVars, connVars, coreVars, diskVars>>

TakeConnected(c) ==
    /\ pc[c] = "working" /\ c \in Stoppers
    /\ HeadIs(c, "SYS_USB_CONNECTED")
    /\ Pop(c)
    /\ pc' = [pc EXCEPT ![c] = "stopping"]
    /\ ackSeq' = [ackSeq EXCEPT ![c] = Head(queue[c]).data]
    /\ UNCHANGED <<othersUnchanged, usbQueue, playing>>

(* audio_playback_handler on SYS_USB_CONNECTED: ev->data is not 0, so the  *)
(* queue is cleared before it returns to audio_thread, which acknowledges. *)
StopPlayback(c) ==
    /\ pc[c] = "stopping" /\ c \in playing
    /\ playing' = playing \ {c}
    /\ queue' = [queue EXCEPT ![c] = <<>>]
    /\ UNCHANGED <<othersUnchanged, usbQueue, pc, ackSeq>>

Acknowledge(c) ==
    /\ pc[c] = "stopping" /\ c \notin playing
    /\ c = Gui => Plugins \cap Registered = {}     \* exit_on_usb has cleaned up
    /\ AcknowledgeWith(ackSeq[c])
    /\ pc' = [pc EXCEPT ![c] = "waiting"]
    /\ UNCHANGED <<othersUnchanged, queue, ackSeq, playing>>

(* usb_wait_for_disconnect, or the usb screen, gets what it waits for *)
Resume(c) ==
    /\ pc[c] = "waiting" /\ HeadIs(c, "SYS_USB_DISCONNECTED")
    /\ Pop(c)
    /\ pc' = [pc EXCEPT ![c] = "working"]
    /\ UNCHANGED <<othersUnchanged, usbQueue, ackSeq, playing>>

AckAndGoOn(c) ==
    /\ c \in Ackers /\ HeadIs(c, "SYS_USB_CONNECTED")
    /\ Pop(c)
    /\ AcknowledgeWith(Head(queue[c]).data)
    /\ UNCHANGED <<othersUnchanged, pc, ackSeq, playing>>

(* A message the thread has no case for *)
Ignore(c) ==
    /\ \/ c \in Plugins /\ queue[c] # <<>>
       \/ pc[c] = "working" /\ HeadIs(c, "SYS_USB_DISCONNECTED")
       \/ pc[c] = "waiting" /\ HeadIs(c, "SYS_USB_CONNECTED")
    /\ Pop(c)
    /\ UNCHANGED <<othersUnchanged, usbQueue, pc, ackSeq, playing>>

ClientStep(c) == TakeConnected(c) \/ StopPlayback(c) \/ Acknowledge(c)
                 \/ Resume(c) \/ AckAndGoOn(c) \/ Ignore(c)

StartPlayback(c) ==
    /\ c \in Players \ playing /\ pc[c] = "working"
    /\ playing' = playing \cup {c}
    /\ UNCHANGED <<othersUnchanged, usbQueue, queue, pc, ackSeq>>

(* A plugin runs in the main thread and ends before that acknowledges:     *)
(* create_pf_thread and end_pf_thread of PictureFlow.                      *)
StartPlugin(c) ==
    /\ c \in Plugins /\ pc[c] = "absent" /\ pc[Gui] = "working"
    /\ pc' = [pc EXCEPT ![c] = "working"]
    /\ UNCHANGED <<othersUnchanged, usbQueue, queue, ackSeq, playing>>

EndPlugin(c) ==
    /\ c \in Plugins /\ pc[c] = "working" /\ pc[Gui] \in {"working", "stopping"}
    /\ pc' = [pc EXCEPT ![c] = "absent"]
    /\ queue' = [queue EXCEPT ![c] = <<>>]
    /\ UNCHANGED <<othersUnchanged, usbQueue, ackSeq, playing>>

------------------------------------------------------------------------------
Next ==
    \/ \E in \in BOOLEAN : CableInterrupt(in)
    \/ StartMonitoring
    \/ DebounceExpired
    \/ \E config \in Configs : HostRequest(Msg("SET_CONFIGURATION", config))
    \/ HostRequest(Msg("OTHER_REQUEST", 0))
    \/ BusReset
    \/ UsbThread
    \/ \E c \in Clients : \/ ClientStep(c)
                          \/ StartPlayback(c)
                          \/ StartPlugin(c)
                          \/ EndPlugin(c)

Spec == Init /\ [][Next]_vars

(* The scheduler runs every runnable thread in turn and the tick interrupt *)
(* every timeout; the cable, the host and the user promise nothing.        *)
Fairness == /\ WF_vars(StartMonitoring)
            /\ WF_vars(DebounceExpired)
            /\ WF_vars(UsbThread)
            /\ \A c \in Clients :
                 /\ WF_vars(ClientStep(c))
                 /\ WF_vars(pc[Gui] = "stopping" /\ EndPlugin(c))

FairSpec == Spec /\ Fairness

------------------------------------------------------------------------------
(* Properties *)

DiskUsers == {c \in Registered \ Ackers : pc[c] \in {"working", "stopping"}}

(* While the computer has the disk the volumes are unmounted and every     *)
(* thread that could touch a file is waiting for the disconnect, with none *)
(* on its way: "They must not access the disk until SYS_USB_DISCONNECTED   *)
(* is broadcast" (usb.h), across late acks, repeated SET_CONFIGURATIONs    *)
(* and a cable pulled at any point.                                        *)
ExclusiveStorage ==
    enabled => /\ ~mounted
               /\ DiskUsers = {}
               /\ \A c \in Registered \ Ackers : ~Contains(queue[c], Disconnected)

(* The disk is asked for exactly while a host has selected the mass        *)
(* storage configuration with its driver offered; given only when asked    *)
(* for, and mounted again as soon as it is not given (usb_core_do_set_     *)
(* config, usb_core_exit, the case USB_EXTRACTED).                         *)
RequestJustified ==
    /\ requested <=> (usbConfig = 1 /\ storageDriver)
    /\ requested => hostPresent /\ usbState = "inserted"
    /\ enabled => requested
    /\ mounted = ~enabled

Owing == {c \in Registered : \/ Contains(queue[c], Connected(seqnum))
                             \/ pc[c] = "stopping" /\ ackSeq[c] = seqnum}

AcksInFlight == Places(usbQueue, Ack(seqnum))

(* usb_num_acks_to_expect counts the threads that have still to            *)
(* acknowledge the current request: an ack of a withdrawn request (the     *)
(* "late ack" of usb.c) is never taken for one of the current request, and *)
(* no thread is counted twice or forgotten.                                *)
AckAccounting ==
    requested /\ ~enabled =>
        /\ acks > 0
        /\ acks = Cardinality(Owing) + Cardinality(AcksInFlight)

(* What a thread will have been told once its queue is empty *)
LastWord(c) ==
    IF queue[c] # <<>> THEN Last(queue[c])
    ELSE IF pc[c] = "working" THEN Disconnected
    ELSE Connected(ackSeq[c])

(* No thread is left with an outdated picture: after everything in its     *)
(* queue has been taken it is stopped for the current request if there is  *)
(* one, and back in business if there is none.                             *)
ToldTheTruth ==
    \A c \in Stoppers :
        LastWord(c) = IF requested THEN Connected(seqnum) ELSE Disconnected

(* The threads go on only after the volumes are mounted again: whoever     *)
(* returns from usb_wait_for_disconnect finds a file system, and no        *)
(* request that would take it away before the thread has acknowledged it.  *)
ResumesOnMountedDisk ==
    [][\A c \in Clients : pc[c] = "waiting" /\ pc'[c] = "working" =>
         mounted /\ (requested => Contains(queue'[c], Connected(seqnum)))]_vars

Disk == INSTANCE DiskHandover
            WITH Threads <- Clients \ Ackers,
                 owner <- IF enabled THEN "host" ELSE "player",
                 users <- DiskUsers

(* The protocol of broadcasts and acks hands the disk over as DiskHandover *)
(* allows it.                                                              *)
ImplementsDiskHandover == Disk!Spec

(* A request for the disk is granted or withdrawn: nobody waits for an ack *)
(* that will not come ("all threads have acknowledged the connect").       *)
HandoverCompletes == requested ~> (enabled \/ ~requested)

(* Once the disk is released every thread gets back to work, unless it is  *)
(* requested again ("Tell all threads that we are back in business").      *)
BackInBusiness ==
    ~requested ~> (requested \/ \A c \in Clients : pc[c] \in {"working", "absent"})

(* A cable that is pulled and left out gives the disk back to the player;  *)
(* one that is put in and left in is noticed.  Nothing is lost in the      *)
(* debounce or between its message and the usb thread.                     *)
CableSettles ==
    /\ <>[]~cable => <>[](usbState = "extracted" /\ mounted)
    /\ <>[]cable => <>[](usbState # "extracted")

------------------------------------------------------------------------------
(* The inductive invariant behind the safety properties.                   *)

(* A configuration is selected only on a host that has been seen.          *)
ConfigKnown == usbConfig # 0 => hostPresent /\ usbState = "inserted"

(* Plugins are gone by the time the main thread has acknowledged.          *)
ThreadPlaces ==
    /\ \A c \in Stoppers : pc[c] # "absent"
    /\ \A c \in Ackers : pc[c] = "working"
    /\ \A c \in Plugins : /\ pc[c] \in {"working", "absent"}
                          /\ pc[Gui] = "waiting" => pc[c] = "absent"

(* Nobody has a number that was not given out yet.                         *)
AcksPast ==
    \A i \in DOMAIN usbQueue :
        usbQueue[i].id = "SYS_USB_CONNECTED_ACK" => usbQueue[i].data <= seqnum

NumbersPast ==
    \A c \in Clients :
        /\ ackSeq[c] <= seqnum
        /\ pc[c] = "stopping" => ackSeq[c] # 0
        /\ \A i \in DOMAIN queue[c] : queue[c][i].data <= seqnum

(* MaxSeq bounds the requests made and those the host has sent.            *)
RequestsBounded ==
    seqnum + Cardinality(Places(usbQueue, Msg("SET_CONFIGURATION", 1))) <= MaxSeq

(* The current request is the last news in every queue that holds any, and *)
(* a thread that has taken it has nothing left.                            *)
NewsLast ==
    requested => \A c \in Stoppers \cup Ackers :
        /\ \A i \in DOMAIN queue[c] : queue[c][i] = Connected(seqnum) <=> i = Len(queue[c])
        /\ pc[c] # "working" /\ ackSeq[c] = seqnum => queue[c] = <<>>

Stopped(c) == pc[c] = "waiting" /\ ackSeq[c] = seqnum

(* Who has not acknowledged the current request: acknowledging threads     *)
(* that have not taken it, and the others until they wait under it.        *)
Unstopped == {c \in Stoppers : ~Stopped(c)}
             \cup {c \in Ackers : Contains(queue[c], Connected(seqnum))}

(* As many acks are expected as can still come, or more (plugins, and      *)
(* threads that threw the request away).                                   *)
AcksEnough ==
    requested /\ ~enabled => Cardinality(Unstopped) + Cardinality(AcksInFlight) <= acks

AllStopped == enabled => \A c \in Stoppers : Stopped(c)

(* What makes the handover exclusive, step by step: the current request is *)
(* the last each thread hears of until it has acknowledged it, no ack of   *)
(* an older one counts for it (usb_broadcast_seqnum), and the acks that    *)
(* are expected do not run out before the last thread has stopped.         *)
HandoverInv ==
    /\ TypeOK /\ RequestJustified /\ ConfigKnown /\ ThreadPlaces
    /\ AcksPast /\ NumbersPast /\ RequestsBounded
    /\ NewsLast /\ AcksEnough /\ AllStopped

==============================================================================
