------------------------------ MODULE DecEther ------------------------------
(***************************************************************************)
(* The driver of the DEC 2104x Ethernet chips (src/bin/of/pci/decether.c)  *)
(* and its chip.  Driver and chip hand two descriptors in memory back and  *)
(* forth, one to receive and one to send, each with one buffer: who owns a *)
(* descriptor is the chip's when its OWN bit is set.  The first thing sent *)
(* is a setup frame, for the chip alone.                                   *)
(*                                                                         *)
(* The chip is external.  It reports trouble with the link in its status   *)
(* register (the bits 0x3000) and still sends the frame when it can.       *)
(***************************************************************************)
EXTENDS EtherLink

CONSTANTS DecOpens,     \* bound: times the device is opened
          DecErrors     \* bound: troubles with the link and frames in error

ASSUME DecAssumption == DecOpens \in Nat /\ DecErrors \in Nat

VARIABLES
    decpc,              \* where the driver is
    recv, send,         \* the descriptors: own, error, and what the buffer holds
    csr,                \* CSR_STATUS has one of the bits 0x3000
    rxing, txing,       \* the frame that the chip is working on
    decleft             \* opens and errors that are left

decVars == <<decpc, recv, send, csr, rxing, txing, decleft>>

None == 0
Setup == MaxSends + 1   \* the setup frame
Partly == -2            \* a buffer that is being written

DecTypeOK ==
    /\ decpc \in {"closed", "setup", "idle", "copied", "spin", "sending", "result"}
    /\ recv \in [own : BOOLEAN, error : BOOLEAN, buf : (0 .. MaxHeard) \union {Partly}]
    /\ send \in [own : BOOLEAN, error : BOOLEAN, buf : 0 .. Setup]
    /\ csr \in BOOLEAN
    /\ rxing \in 0 .. MaxHeard /\ txing \in 0 .. Setup
    /\ decleft \in [opens : 0 .. DecOpens, errors : 0 .. DecErrors]

NoDescriptor == [own |-> FALSE, error |-> FALSE, buf |-> 0]

DecInit ==
    /\ decpc = "closed"
    /\ recv = NoDescriptor /\ send = NoDescriptor
    /\ csr = FALSE /\ rxing = None /\ txing = None
    /\ decleft = [opens |-> DecOpens, errors |-> DecErrors]

-----------------------------------------------------------------------------
f_ether_open ==
    /\ decpc = "closed" /\ decleft.opens > 0
    /\ decpc' = "setup"
    /\ recv' = [NoDescriptor EXCEPT !.own = TRUE]
    /\ send' = [own |-> TRUE, error |-> FALSE, buf |-> Setup]
    /\ csr' = FALSE /\ rxing' = None /\ txing' = None
    /\ decleft' = [decleft EXCEPT !.opens = @ - 1]
    /\ UNCHANGED linkVars

\* open does not look at how the wait for the setup frame ended.
OpenDone ==
    /\ decpc = "setup"
    /\ ~send.own \/ send.error \/ csr
    /\ decpc' = "idle" /\ csr' = FALSE
    /\ UNCHANGED <<recv, send, rxing, txing, decleft, linkVars>>

f_ether_close ==
    /\ decpc = "idle" /\ ~Sending
    /\ decpc' = "closed"
    /\ csr' = FALSE /\ rxing' = None /\ txing' = None
    /\ UNCHANGED <<recv, send, decleft, linkVars>>

-----------------------------------------------------------------------------
(* read.  A frame in error is not copied; either way the buffer goes back.  *)

Copy(next) ==
    /\ decpc = "idle" /\ ~Sending /\ ~recv.own
    /\ got' = IF recv.error THEN got
              ELSE Append(got, IF recv.buf = Partly THEN Garbled ELSE recv.buf)
    /\ decpc' = next
    /\ UNCHANGED <<recv, send, csr, rxing, txing, decleft, heard, wire, told, wanted>>

CopyFrame == Copy("copied")

GiveBack ==
    /\ decpc = "copied"
    /\ recv' = [recv EXCEPT !.own = TRUE, !.error = FALSE]
    /\ csr' = FALSE
    /\ decpc' = "idle"
    /\ UNCHANGED <<send, rxing, txing, decleft, linkVars>>

-----------------------------------------------------------------------------
(* write, which send_mac_pkt repeats until it reports the whole packet.     *)

DecAsk ==
    /\ decpc = "idle" /\ ~Sending /\ wanted < MaxSends
    /\ Want
    /\ UNCHANGED decVars

\* Mutant: a frame that the chip has not finished with is overwritten.
fill_at_once ==
    /\ decpc = "idle" /\ Sending
    /\ decpc' = "sending"
    /\ send' = [own |-> TRUE, error |-> FALSE, buf |-> wanted]
    /\ csr' = FALSE
    /\ UNCHANGED <<recv, rxing, txing, decleft, linkVars>>

FillBuffer ==
    /\ decpc = "idle" /\ Sending
    /\ ~send.own                        \* spins until the chip is done
    /\ decpc' = "sending"
    /\ send' = [own |-> TRUE, error |-> FALSE, buf |-> wanted]
    /\ csr' = FALSE
    /\ UNCHANGED <<recv, rxing, txing, decleft, linkVars>>

\* Mutant: only the chip's having finished ends the wait.
wait_for_chip ==
    /\ decpc = "sending" /\ ~send.own /\ ~csr
    /\ decpc' = "result"
    /\ UNCHANGED <<recv, send, csr, rxing, txing, decleft, linkVars>>

WaitForChip ==
    /\ decpc = "sending" /\ (~send.own \/ csr)
    /\ decpc' = "result"
    /\ UNCHANGED <<recv, send, csr, rxing, txing, decleft, linkVars>>

Report(sent) ==
    /\ decpc = "result"
    /\ told' = IF sent THEN told \union {wanted} ELSE told
    /\ csr' = FALSE
    /\ decpc' = "idle"
    /\ UNCHANGED <<recv, send, rxing, txing, decleft, heard, got, wire, wanted>>

ReportResult == Report(~send.own /\ ~send.error /\ ~csr)

-----------------------------------------------------------------------------
(* The chip *)

FrameStart ==
    /\ decpc # "closed" /\ recv.own /\ rxing = None /\ heard < MaxHeard
    /\ Hear
    /\ rxing' = heard + 1
    /\ recv' = [recv EXCEPT !.buf = Partly]
    /\ UNCHANGED <<decpc, send, csr, txing, decleft>>

FrameEnd(bad) ==
    /\ rxing # None
    /\ recv' = [own |-> FALSE, error |-> bad, buf |-> rxing]
    /\ rxing' = None
    /\ UNCHANGED <<decpc, send, csr, txing, decleft, linkVars>>

Fetch ==
    /\ decpc # "closed" /\ send.own /\ txing = None
    /\ txing' = send.buf
    /\ UNCHANGED <<decpc, recv, send, csr, rxing, decleft, linkVars>>

\* The setup frame does not go on the wire.
FrameSent ==
    /\ txing # None
    /\ wire' = wire \union (IF txing # send.buf THEN {Garbled}
                            ELSE {txing} \ {Setup})
    /\ send' = [send EXCEPT !.own = FALSE]
    /\ txing' = None
    /\ UNCHANGED <<decpc, recv, csr, rxing, decleft, heard, got, told, wanted>>

FrameFailed ==
    /\ txing # None /\ decleft.errors > 0
    /\ send' = [send EXCEPT !.own = FALSE, !.error = TRUE]
    /\ txing' = None
    /\ decleft' = [decleft EXCEPT !.errors = @ - 1]
    /\ UNCHANGED <<decpc, recv, csr, rxing, linkVars>>

LinkTrouble ==
    /\ decpc # "closed" /\ decleft.errors > 0
    /\ csr' = TRUE
    /\ decleft' = [decleft EXCEPT !.errors = @ - 1]
    /\ UNCHANGED <<decpc, recv, send, rxing, txing, linkVars>>

-----------------------------------------------------------------------------
DecRead == CopyFrame \/ GiveBack
DecWrite == FillBuffer \/ WaitForChip \/ ReportResult
DecSends == Fetch \/ FrameSent \/ FrameFailed
DecReceives == FrameEnd(FALSE) \/ FrameEnd(TRUE)

DecNext == \/ f_ether_open \/ OpenDone \/ f_ether_close \/ DecRead \/ DecAsk
           \/ DecWrite \/ FrameStart \/ DecReceives \/ DecSends \/ LinkTrouble

DecFairness ==
    /\ WF_<<decVars, linkVars>>(OpenDone)
    /\ WF_<<decVars, linkVars>>(DecRead)
    /\ WF_<<decVars, linkVars>>(DecWrite)
    /\ WF_<<decVars, linkVars>>(DecSends)
    /\ WF_<<decVars, linkVars>>(DecReceives)
=============================================================================
