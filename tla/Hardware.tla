-------------------------------- MODULE Hardware --------------------------------
(***************************************************************************)
(* Hardware Statistics and Ports: HardwareStatisticsService and its provider, *)
(* PortsService and its provider, the drive's part of FddPersistence.  Each    *)
(* service reads the paused emulator, one refresh at a time: a trigger that    *)
(* finds one under way joins it.  The statistics panel also changes things:   *)
(* an operation on a drive asks the user, perhaps saves the image, and is      *)
(* then serialized, executed, and verified by a new snapshot.               *)
(* RUN and the statistics commands have high priority and keep their order;    *)
(* RUN overtakes the ports' commands, which have normal priority.            *)
(***************************************************************************)
EXTENDS ViewLink

CONSTANTS Images    \* disk images that can be mounted

ASSUME HardwareAssumption == None \notin Images

VARIABLES
    hwGeneration,  \* generation of the service
    refreshing,    \* refreshPromise
    mirror,        \* snapshotValue: its version, the image mounted, and its "updated"
    ports,         \* portsValue of both directions, 0 for none
    portErrors,    \* errorsValue: the directions that failed
    drive,         \* emulator: the image in the drive, whether updated, what was written last
    saved,         \* what was last written to the image's file
    op,            \* the operation of the user
    careless       \* history: a write was lost although the snapshot decided upon was true

hwVars == <<hwGeneration, refreshing, mirror, ports, portErrors, drive, saved, op, careless>>
hwAll == <<link, wire, inbox, status, unheard, hwVars>>

NoOp == [kind |-> None, phase |-> "idle", image |-> None, updated |-> FALSE, agreed |-> FALSE, true |-> FALSE]
Snapshot(at) == [at |-> at, image |-> drive.image, updated |-> drive.updated]
Directions == {"in", "out"}
NoPorts == [d \in Directions |-> 0]
CanRead == visible' /\ state' = "connected"
At(phase) == op' = [op EXCEPT !.phase = phase]
----------------------------------------------------------------------------
(***************************************************************************)
(* Refreshing.                                                              *)
(***************************************************************************)
\* refresh(), whose callers ignore its failure.  When the program overtakes a refresh, the
\* stop may still find it under way and join it; the next one that begins makes up for it.
Refresh(requests) ==
    IF CanRead /\ ~refreshing
    THEN refreshing' = TRUE /\ wire' = wire \o requests /\ unheard' = FALSE
    ELSE /\ unheard' = (unheard \/ (refreshing /\ state' = "running"))
         /\ UNCHANGED <<refreshing, wire>>

ReadStatistics == <<Request("stats", None, hwGeneration)>>
ReadPorts == <<Request("ports", "in", hwGeneration), Request("ports", "out", hwGeneration)>>
Reads == IF view = "ports" THEN ReadPorts ELSE ReadStatistics

\* The rejection of its request ends an operation; one that waits for the user goes on.
Interrupted == op.phase \in {"info", "image", "reset", "mutating", "verifying"}

\* Mutant: the snapshot survives the session.
LoseSnapshots ==
    /\ hwGeneration' = hwGeneration + 1 /\ portErrors' = {}
    /\ UNCHANGED <<mirror, ports>>

\* The listeners when the session ends.
ClearSnapshots ==
    /\ hwGeneration' = hwGeneration + 1
    /\ mirror' = None /\ ports' = NoPorts /\ portErrors' = {}

HwStateChange ==
    /\ \/ SessionOpens \/ SessionLost \/ Stops
       \/ Runs /\ (view = "hardware" => wire = <<>>)
    /\ IF state' = "stopped"
       THEN /\ ClearSnapshots
            /\ wire' = <<>> /\ refreshing' = FALSE /\ unheard' = FALSE
            /\ op' = IF Interrupted THEN NoOp ELSE op
       ELSE /\ Refresh(Reads)
            /\ op' = [op EXCEPT !.true = @ /\ state' # "running"]
            /\ UNCHANGED <<hwGeneration, mirror, ports, portErrors>>
    /\ status' = IF state' = "stopped" THEN "noSession" ELSE IF visible THEN state' ELSE status
    /\ UNCHANGED <<inbox, drive, saved, careless>>

\* onDidChangeVisibility: setVisible, and the current state when it is shown.
HwShownOrHidden ==
    /\ ShownOrHidden
    /\ Refresh(Reads)
    /\ status' = IF visible' /\ Connected THEN state ELSE status
    /\ UNCHANGED <<inbox, hwGeneration, mirror, ports, portErrors, drive, saved, op, careless>>

\* The program writes to the disk as it runs.
ProgramWrites ==
    /\ state = "running" /\ drive.image # None /\ drive.wrote # now + 1 /\ view = "hardware"
    /\ drive' = [drive EXCEPT !.updated = TRUE, !.wrote = now + 1]
    /\ UNCHANGED <<link, wire, inbox, status, unheard>>
    /\ UNCHANGED <<hwGeneration, refreshing, mirror, ports, portErrors, saved, op, careless>>

\* refreshSnapshot accepts what belongs to the session, while visible.
TakeSnapshot(r) ==
    mirror' = IF r.tag = hwGeneration /\ visible /\ Connected THEN r.arg ELSE mirror

StatisticsRead ==
    /\ Arrived /\ Head(wire).kind = "stats" /\ wire' = Tail(wire)
    /\ TakeSnapshot(Head(wire)) /\ refreshing' = FALSE
    /\ UNCHANGED <<link, inbox, status, unheard, hwGeneration, ports, portErrors, drive, saved, op, careless>>

\* refreshDirection: the answer to a read that the program overtook is dropped.
PortsRead ==
    LET r == Head(wire)
        accepted == r.tag = hwGeneration /\ visible /\ state = "connected"
    IN  /\ Arrived /\ r.kind = "ports" /\ wire' = Tail(wire)
        /\ ports' = IF accepted THEN [ports EXCEPT ![r.arg] = r.value] ELSE ports
        /\ portErrors' = IF accepted THEN portErrors \ {r.arg} ELSE portErrors
        /\ refreshing' = (Tail(wire) # <<>>)
        /\ unheard' = (unheard \/ ~accepted)
        /\ UNCHANGED <<link, inbox, status, hwGeneration, mirror, drive, saved, op, careless>>
----------------------------------------------------------------------------
(***************************************************************************)
(* An operation on the drive, or on the palette.                            *)
(***************************************************************************)
Quiet == UNCHANGED <<hwGeneration, refreshing, ports, portErrors, unheard>>

\* The webview: its menu was opened while the program was paused.
ClickHardware ==
    /\ Event /\ view = "hardware" /\ visible /\ mirror # None /\ op.phase = "idle"
    /\ \E kind \in {"mount", "dismount", "palette"} :
        inbox' = Append(inbox, Says(kind, hwGeneration))
    /\ UNCHANGED <<session, wire, status, unheard, hwVars>>

\* handleMessage: a message of this session, about the drive that the snapshot shows.
OnHardware ==
    /\ inbox # <<>> /\ inbox' = Tail(inbox)
    /\ \/ /\ Head(inbox).type = "ready"
          /\ UNCHANGED <<visible, state>> /\ Refresh(Reads)
          /\ UNCHANGED op
       \/ /\ Head(inbox).type # "ready"
          /\ op' = IF Head(inbox).arg # hwGeneration \/ mirror = None \/ op.phase # "idle"
                      \/ (Head(inbox).type = "dismount" /\ mirror.image = None) THEN op
                   ELSE [kind |-> Head(inbox).type, image |-> None, updated |-> mirror.updated, agreed |-> FALSE,
                         phase |-> IF Head(inbox).type = "mount" THEN "choosing"
                                   ELSE IF Head(inbox).type = "dismount" /\ mirror.updated THEN "asking"
                                   ELSE "queued",
                         true |-> mirror.at = now /\ state = "connected"]
          /\ UNCHANGED <<refreshing, wire, unheard>>
    /\ UNCHANGED <<session, events, status, hwGeneration, mirror, ports, portErrors, drive, saved, careless>>

\* showOpenDialog.
ChooseFile ==
    /\ op.phase = "choosing"
    /\ \/ op' = NoOp
       \/ \E i \in Images :
            op' = [op EXCEPT !.image = i, !.phase = IF op.updated THEN "asking" ELSE "queued"]
    /\ UNCHANGED <<link, wire, inbox, status, mirror, drive, saved, careless>> /\ Quiet

\* resolveDirtyDrive.
AnswerUnsaved ==
    /\ op.phase = "asking"
    /\ \/ op' = NoOp /\ UNCHANGED wire
       \/ op' = [op EXCEPT !.agreed = TRUE, !.phase = "queued"] /\ UNCHANGED wire
       \/ /\ op' = IF Connected THEN [op EXCEPT !.phase = "info"] ELSE NoOp
          /\ wire' = IF Connected THEN Append(wire, Request("info", None, None)) ELSE wire
    /\ UNCHANGED <<link, inbox, status, mirror, drive, saved, careless>> /\ Quiet

\* mutate(): visible, connected and paused, whatever happened since the click.
Mutate ==
    /\ op.phase = "queued"
    /\ IF visible /\ state = "connected"
       THEN At("mutating") /\ wire' = Append(wire, Request(op.kind, op.image, None))
       ELSE op' = NoOp /\ UNCHANGED wire
    /\ UNCHANGED <<link, inbox, status, mirror, drive, saved, careless>> /\ Quiet

Continue(phase, kind) ==
    At(phase) /\ wire' = Append(Tail(wire), Request(kind, None, hwGeneration))

\* Mutant: Save marks the image as saved and does not write it.
ExportNothing(r) ==
    Continue("reset", "reset") /\ UNCHANGED saved

\* writeFileSync, then RESET_UPDATE_FDD.
Export(r) ==
    saved' = r.value /\ Continue("reset", "reset")

\* persistDriveIfNeeded: info, image, the file, reset; then the mutation and its verification.
GoesOn ==
    LET r == Head(wire)
    IN  /\ \/ /\ r.kind = "info"
              /\ IF r.arg.image # None /\ r.arg.updated THEN Continue("image", "image")
                 ELSE At("queued") /\ wire' = Tail(wire)
              /\ UNCHANGED <<mirror, saved>>
           \/ r.kind = "image" /\ Export(r) /\ UNCHANGED mirror
           \/ r.kind = "reset" /\ At("queued") /\ wire' = Tail(wire) /\ UNCHANGED <<mirror, saved>>
           \/ r.kind \in {"mount", "dismount", "palette"} /\ Continue("verifying", "verify")
              /\ UNCHANGED <<mirror, saved>>
           \/ r.kind = "verify" /\ TakeSnapshot(r) /\ op' = NoOp /\ wire' = Tail(wire) /\ UNCHANGED saved

OperationGoesOn ==
    /\ Arrived /\ Head(wire).kind \notin {"stats", "ports"}
    /\ GoesOn
    /\ UNCHANGED <<link, inbox, status, drive, careless>> /\ Quiet
----------------------------------------------------------------------------
\* A command is executed by the emulator; writes are lost when an image is dropped that
\* is not saved and that the user did not give up, or is marked as saved when it is not.
HwExecute ==
    LET k == Head(wire).kind
        drops == k \in {"mount", "dismount"} /\ drive.updated /\ ~op.agreed
        forgets == k = "reset" /\ drive.wrote # saved
    IN  /\ Waits
        /\ wire' = [wire EXCEPT ![1].value = IF k = "image" THEN drive.wrote ELSE now,
                                ![1].arg = IF k \in {"stats", "verify", "info"} THEN Snapshot(now) ELSE @]
        /\ drive' = CASE k = "mount" -> [image |-> Head(wire).arg, updated |-> FALSE, wrote |-> 0]
                      [] k = "dismount" -> [image |-> None, updated |-> FALSE, wrote |-> 0]
                      [] k = "reset" -> [drive EXCEPT !.updated = FALSE]
                      [] OTHER -> drive
        /\ careless' = (careless \/ (op.true /\ (drops \/ forgets)))
        /\ UNCHANGED <<link, inbox, status, unheard, hwGeneration, refreshing, mirror, ports, portErrors, saved, op>>

\* A request fails: refreshes ignore it, ports show it, an operation ends with a message.
HwFails ==
    LET r == Head(wire)
    IN  /\ Waits /\ Event /\ wire' = Tail(wire)
        /\ refreshing' = IF r.kind \in {"stats", "ports"} THEN \E i \in DOMAIN Tail(wire) : Tail(wire)[i].kind = "ports"
                         ELSE refreshing
        /\ portErrors' = IF r.kind = "ports" /\ r.tag = hwGeneration /\ visible /\ state # "running"
                         THEN portErrors \cup {r.arg} ELSE portErrors
        /\ unheard' = (unheard \/ r.kind = "stats"
                         \/ (r.kind = "ports" /\ ~(r.tag = hwGeneration /\ visible /\ state # "running")))
        /\ op' = IF r.kind \in {"stats", "ports"} THEN op ELSE NoOp
        /\ UNCHANGED <<session, inbox, status, hwGeneration, mirror, ports, drive, saved, careless>>
----------------------------------------------------------------------------
HwInit ==
    /\ hwGeneration = 0 /\ refreshing = FALSE /\ mirror = None /\ ports = NoPorts /\ portErrors = {}
    /\ drive \in [image : IF view = "hardware" THEN Images \cup {None} ELSE {None}, updated : {FALSE}, wrote : {0}]
    /\ saved = 0 /\ op = NoOp /\ careless = FALSE

HwNext ==
    \/ HwStateChange \/ HwShownOrHidden \/ ProgramWrites \/ StatisticsRead \/ PortsRead
    \/ ClickHardware \/ OnHardware \/ ChooseFile \/ AnswerUnsaved \/ Mutate \/ OperationGoesOn
    \/ HwExecute \/ HwFails

\* Commands are answered; what the user does with a dialog is up to the user.
HwFairness ==
    WF_hwAll(view \in {"hardware", "ports"} /\ (HwExecute \/ StatisticsRead \/ PortsRead \/ OperationGoesOn))

HwTypeOK ==
    /\ hwGeneration \in Nat /\ refreshing \in BOOLEAN /\ ports \in [Directions -> 0..now]
    /\ portErrors \subseteq Directions /\ drive.image \in Images \cup {None} /\ saved \in 0..now + 1
    /\ mirror # None => mirror \in [at : 1..now, image : Images \cup {None}, updated : BOOLEAN]

\* Nothing read from an earlier session is shown.
HardwareIsCurrent ==
    /\ mirror # None => Connected /\ mirror.at >= since
    /\ \A d \in Directions : ports[d] # 0 => Connected /\ ports[d] >= since

\* What is shown was read at the last stop, unless the last refresh failed, was dropped
\* or was of before the stop that joined it, and the panel says nothing of that.
HardwareIsUpToDate ==
    \/ unheard
    \/ view = "hardware" /\ mirror # None /\ mirror.at = now
    \/ view = "ports" /\ \A d \in Directions : ports[d] = now \/ d \in portErrors

\* As long as the snapshot behind an operation is true, no write of the program is
\* lost that the user has not given up.
DriveIsKept == ~careless

\* An updated image is never dropped, or marked as saved, without being saved or given up.
UnsavedIsAsked ==
    Waits /\ Head(wire).kind \in {"mount", "dismount"} /\ drive.updated => op.agreed
=============================================================================
