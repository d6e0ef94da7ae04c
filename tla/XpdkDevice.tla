----------------------------- MODULE XpdkDevice -----------------------------
(***************************************************************************)
(* The device table and the handlers that open, close and query devices    *)
(* on the SPDK thread (xpdk_bdev.c, xpdk_qos.c, and the trim, write-zeros  *)
(* and statistics handlers of xpdk_perf.c).                                *)
(*                                                                         *)
(* The bdev layer of SPDK is external.  The code uses it as follows: an    *)
(* operation is submitted and either fails at once (rc # 0) or calls its   *)
(* completion callback later, from spdk_thread_poll.  Faults lists the     *)
(* failures a run lets it produce.                                         *)
(***************************************************************************)
EXTENDS XpdkMsg

CONSTANT Faults

FaultKinds == {"open_rc",      \* spdk_bdev_open_ext returns an error
               "open_status",  \* the open completes with an error
               "no_channel",   \* spdk_bdev_get_io_channel returns NULL
               "dma",          \* spdk_dma_malloc returns NULL
               "submit",       \* an I/O is refused when it is submitted
               "io",           \* an I/O completes without success
               "qos"}          \* a QoS change completes with an error

ASSUME FaultAssumption == Faults \subseteq FaultKinds

VARIABLES
    devices,    \* g_xpdk_ctx.devices: in_use, desc # NULL, channel # NULL, flags
    result_fd,  \* per message, msg->open.result_fd
    pending,    \* per message, the operation the bdev layer holds for it
    unmapping   \* descriptors with a trim or write-zeros under way in the bdev layer

devVars == <<devices, result_fd, pending, unmapping>>

(***************************************************************************)
(* dev->bdev is not part of the state: it is set in the step that sets     *)
(* in_use, and nothing clears it before in_use is cleared, so behind       *)
(* xpdk_get_device the tests for dev->bdev = NULL never succeed.  A close  *)
(* clears both; an open that spdk_bdev_open_ext refuses clears only        *)
(* in_use, and the next open of the slot overwrites what is left.          *)
(***************************************************************************)
Device == [in_use : BOOLEAN, desc : BOOLEAN, channel : BOOLEAN, flags : AccessModes]

FreeSlot == [in_use |-> FALSE, desc |-> FALSE, channel |-> FALSE, flags |-> "RDONLY"]

BdevOps == {"none", "open", "io", "qos"}

-----------------------------------------------------------------------------
\* Mutant: descriptor 0 is taken for an invalid one.
GetDeviceNonZero(fd) == fd \in Fds \ {0} /\ devices[fd].in_use

\* xpdk_get_device(fd) # NULL.
xpdk_get_device(fd) == fd \in Fds /\ devices[fd].in_use

\* fd is what xpdk_find_free_fd returns: the first slot that is not in use.
xpdk_find_free_fd(fd) ==
    /\ ~devices[fd].in_use
    /\ \A i \in 0 .. fd - 1 : devices[i].in_use

\* xpdk_find_free_fd finds no slot.
TableFull == \A fd \in Fds : devices[fd].in_use

\* Mutant: the slot is marked in use only when the open completes.
ClaimedLate(fd, flags) == [devices EXCEPT ![fd].flags = flags]

\* The slot as handle_open leaves it while the bdev layer opens the device.
Claimed(fd, flags) ==
    [devices EXCEPT ![fd].in_use = TRUE, ![fd].flags = flags]

(***************************************************************************)
(* xpdk_spdk_handle_open.  The slot is claimed before the asynchronous     *)
(* open and released again only if the submission itself fails.            *)
(***************************************************************************)
xpdk_spdk_handle_open(m) ==
    /\ \/ /\ ~req[m].found
          /\ Reply(m, "NODEV")
          /\ UNCHANGED <<devices, result_fd, pending>>
       \/ /\ req[m].found
          /\ TableFull
          /\ Reply(m, "NOMEM")
          /\ UNCHANGED <<devices, result_fd, pending>>
       \/ /\ req[m].found
          /\ \E fd \in Fds :
               /\ xpdk_find_free_fd(fd)
               /\ result_fd' = [result_fd EXCEPT ![m] = fd]
               /\ \/ /\ devices' = Claimed(fd, req[m].flags)
                     /\ pending' = [pending EXCEPT ![m] = "open"]
                     /\ UNCHANGED <<status, completed>>
                  \/ /\ "open_rc" \in Faults
                     /\ devices' = [devices EXCEPT ![fd].flags = req[m].flags]
                     /\ Reply(m, "IO")
                     /\ UNCHANGED pending
    /\ UNCHANGED unmapping

\* Mutant: without a channel, the descriptor is not closed.
OpenKeepsDesc(m) ==
    LET fd == result_fd[m] IN
    /\ pending[m] = "open"
    /\ pending' = [pending EXCEPT ![m] = "none"]
    /\ \/ /\ devices' = [devices EXCEPT ![fd].desc = TRUE, ![fd].channel = TRUE]
          /\ Reply(m, "SUCCESS")
       \/ /\ "no_channel" \in Faults
          /\ devices' = [devices EXCEPT ![fd].desc = TRUE, ![fd].channel = FALSE]
          /\ Reply(m, "IO")
    /\ UNCHANGED <<result_fd, unmapping>>

(***************************************************************************)
(* bdev_open_complete.  Neither failure gives the slot back.               *)
(***************************************************************************)
bdev_open_complete(m) ==
    LET fd == result_fd[m] IN
    /\ pending[m] = "open"
    /\ pending' = [pending EXCEPT ![m] = "none"]
    /\ \/ /\ devices' = [devices EXCEPT ![fd].desc = TRUE, ![fd].channel = TRUE]
          /\ Reply(m, "SUCCESS")
       \/ /\ "open_status" \in Faults
          /\ Reply(m, "IO")
          /\ UNCHANGED devices
       \/ /\ "no_channel" \in Faults
          /\ devices' = [devices EXCEPT ![fd].desc = FALSE, ![fd].channel = FALSE]
          /\ Reply(m, "IO")
    /\ UNCHANGED <<result_fd, unmapping>>

\* Mutant: the slot is emptied and not given back.
ClosedKeepsUse(fd) == [devices EXCEPT ![fd] = [FreeSlot EXCEPT !.in_use = TRUE]]

\* The slot as handle_close leaves it: channel and descriptor released.
Closed(fd) == [devices EXCEPT ![fd] = FreeSlot]

xpdk_spdk_handle_close(m) ==
    LET fd == req[m].fd IN
    /\ \/ /\ xpdk_get_device(fd)
          /\ devices' = Closed(fd)
          /\ Reply(m, "SUCCESS")
       \/ /\ ~xpdk_get_device(fd)
          /\ Reply(m, "INVALID")
          /\ UNCHANGED devices
    /\ UNCHANGED <<result_fd, pending, unmapping>>

-----------------------------------------------------------------------------
(***************************************************************************)
(* The queries read or reset fields of the slot that no property here is   *)
(* about; what matters is the answer they give.                            *)
(***************************************************************************)
AnswerIfOpen(m) ==
    /\ Reply(m, IF xpdk_get_device(req[m].fd) THEN "SUCCESS" ELSE "INVALID")
    /\ UNCHANGED devVars

xpdk_spdk_handle_get_info(m) == AnswerIfOpen(m)

xpdk_spdk_handle_qos_get_limits(m) == AnswerIfOpen(m)

xpdk_spdk_handle_get_perf_stats(m) == AnswerIfOpen(m)

xpdk_spdk_handle_reset_perf_stats(m) == AnswerIfOpen(m)

xpdk_spdk_handle_list_bdevs(m) == Reply(m, "SUCCESS") /\ UNCHANGED devVars

\* Mutant: the handler answers at once and the completion answers again.
QosAnsweredTwice(m) ==
    /\ IF xpdk_get_device(req[m].fd)
       THEN Reply(m, "SUCCESS") /\ pending' = [pending EXCEPT ![m] = "qos"]
       ELSE Reply(m, "INVALID") /\ UNCHANGED pending
    /\ UNCHANGED <<devices, result_fd, unmapping>>

xpdk_spdk_handle_qos_set_limits(m) ==
    /\ \/ /\ xpdk_get_device(req[m].fd)
          /\ pending' = [pending EXCEPT ![m] = "qos"]
          /\ UNCHANGED <<status, completed>>
       \/ /\ ~xpdk_get_device(req[m].fd)
          /\ Reply(m, "INVALID")
          /\ UNCHANGED pending
    /\ UNCHANGED <<devices, result_fd, unmapping>>

xpdk_qos_set_limits_complete(m) ==
    /\ pending[m] = "qos"
    /\ pending' = [pending EXCEPT ![m] = "none"]
    /\ \/ Reply(m, "SUCCESS")
       \/ "qos" \in Faults /\ Reply(m, "QOS")
    /\ UNCHANGED <<devices, result_fd, unmapping>>

(***************************************************************************)
(* Trim and write-zeros reply as soon as the bdev layer has accepted the   *)
(* operation; no completion callback is registered.  SPDK refuses to       *)
(* change a device through a descriptor opened without write access.       *)
(* Unlike the I/O handlers these do not look whether the slot has a        *)
(* descriptor and a channel yet; what SPDK does without them is not        *)
(* modelled beyond a refusal.                                              *)
(***************************************************************************)
Writable(fd) == devices[fd].flags # "RDONLY"

SubmitUnmap(m) ==
    LET fd == req[m].fd IN
    /\ \/ /\ ~xpdk_get_device(fd)
          /\ Reply(m, "INVALID")
          /\ UNCHANGED unmapping
       \/ /\ xpdk_get_device(fd)
          /\ devices[fd].desc
          /\ Writable(fd)
          /\ unmapping' = unmapping \cup {fd}
          /\ Reply(m, "SUCCESS")
       \/ /\ xpdk_get_device(fd)
          /\ "submit" \in Faults \/ ~devices[fd].desc \/ ~Writable(fd)
          /\ Reply(m, "IO")
          /\ UNCHANGED unmapping
    /\ UNCHANGED <<devices, result_fd, pending>>

xpdk_spdk_handle_trim(m) == SubmitUnmap(m)

xpdk_spdk_handle_write_zeros(m) == SubmitUnmap(m)

\* The bdev layer finishes the trims and zero-fills of a descriptor; nobody is told.
UnmapDone(fd) ==
    /\ fd \in unmapping
    /\ unmapping' = unmapping \ {fd}
    /\ UNCHANGED <<devices, result_fd, pending>>

DeviceInit ==
    /\ devices = [fd \in Fds |-> FreeSlot]
    /\ result_fd = [m \in Msgs |-> 0]
    /\ pending = [m \in Msgs |-> "none"]
    /\ unmapping = {}

DeviceTypeOK ==
    /\ devices \in [Fds -> Device]
    /\ result_fd \in [Msgs -> Fds]
    /\ pending \in [Msgs -> BdevOps]
    /\ unmapping \subseteq Fds

=============================================================================
