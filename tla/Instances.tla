------------------------------ MODULE Instances ------------------------------
(***************************************************************************)
(* Opening and closing devices (src/bin/of/device.c, packages.c, table.c,  *)
(* exec.c; the open and close methods of isa/atadisk.c).                   *)
(*                                                                         *)
(* open-dev makes an instance of every node on a path, opens each on top   *)
(* of the one before it, and has to undo all of it when one of them fails. *)
(* Nodes the path skips are opened too, and an open method may ask for an  *)
(* interposer, to be put on top of its own instance.  begin-package opens  *)
(* the device below which a new node is made, and end-package closes it.   *)
(*                                                                         *)
(* An instance is known by the order in which it was made; 0 is NULL.      *)
(* InitInst is the one that a node being made has before it can be opened. *)
(* What methods of a driver return is the choice of each step.             *)
(***************************************************************************)
EXTENDS Naturals, FiniteSetsExt, SequencesExt

CONSTANTS
    None,           \* NULL, for packages
    Root,           \* the package /
    ParentOf,       \* the tree below it: its nodes and their parents
    Disks,          \* nodes driven by isa/atadisk.c
    Askers,         \* packages whose open may ask for an interposer
    Interposers,    \* packages that interpose
    Deblocker, DiskLabel,   \* /packages/deblocker and /packages/disk-label
    NewNode,        \* the package that new-device makes
    Paths,          \* what is opened: names of nodes, or of none
    Mishaps,        \* what goes amiss in a behaviour, apart from open methods
                    \* of named nodes that fail
    MaxInst,        \* bound: instances made
    MaxCalls        \* bound: paths looked up

Packages == DOMAIN ParentOf
Kinds == Packages \union Interposers \union {Deblocker, DiskLabel}

ASSUME InstancesAssumption ==
    /\ Root \in Packages /\ ParentOf[Root] = None
    /\ \A p \in Packages \ {Root} : ParentOf[p] \in Packages
    /\ Disks \subseteq Packages /\ NewNode \notin Packages \union {None}
    /\ Mishaps \subseteq {"none", "missing", "chain", "memory", "interpose"}
    /\ MaxInst \in Nat /\ MaxCalls \in Nat

VARIABLES
    insts,      \* all instances ever made
    currinst,   \* e->currinst, my-self
    currpkg,    \* e->currpkg, the active package
    ipos,       \* the scheduled interposer, and which instance asked for it
    call,       \* the call of open-dev, execute-device-method or close-dev
    handles,    \* the ihandles callers have
    prompt,     \* my-self and the active package as the callers have set them
    calls,      \* how many paths have been looked up
    mishap,
    node,       \* of the node being made: the parents of its instance and its package
    misused     \* history: a caller has closed the instance below which it makes a node

instVars == <<insts, currinst, currpkg, ipos, call, handles, prompt, calls, mishap,
              node, misused>>

Inst == 1 .. MaxInst
InitInst == MaxInst + 1
Active == Packages \union {None, NewNode}
NoNode == [parent |-> 0, under |-> None]
NoInterposer == [pkg |-> None, by |-> 0]
Idle == [pc |-> "idle", next |-> "idle", context |-> "open", path |-> <<>>,
         parent |-> 0, inst |-> 0, chain |-> <<>>, saveinst |-> 0, savepkg |-> None]

Records == [pkg : Kinds \union {None}, parent : 0 .. MaxInst, by : 0 .. MaxInst,
            phase : {"new", "open", "failed", "closed"}, live : BOOLEAN,
            deblocker : 0 .. MaxInst, disklabel : 0 .. MaxInst]

InstTypeOK ==
    /\ insts \in Seq(Records)
    /\ Len(insts) <= MaxInst
    /\ currinst \in 0 .. InitInst
    /\ currpkg \in Active
    /\ ipos.pkg \in Interposers \union {None} /\ ipos.by \in 0 .. MaxInst
    /\ call.pc \in {"idle", "open", "interpose", "descend", "chain", "last",
                    "done", "clean", "unwind", "close"}
    /\ call.next \in {"idle", "descend", "chain", "done"}
    /\ call.context \in {"open", "exec"}
    /\ call.inst \in 0 .. MaxInst /\ call.parent \in 0 .. MaxInst
    /\ handles \subseteq Inst
    /\ calls \in 0 .. MaxCalls
    /\ mishap \in Mishaps
    /\ node \in [parent : 0 .. MaxInst, under : Packages \union {None}]
    /\ misused \in BOOLEAN

InstInit ==
    /\ insts = <<>> /\ currinst = 0 /\ currpkg = None
    /\ ipos = NoInterposer
    /\ call = Idle
    /\ handles = {}
    /\ prompt = [inst |-> 0, pkg |-> None]
    /\ calls = 0
    /\ mishap \in Mishaps
    /\ node = NoNode /\ misused = FALSE

-----------------------------------------------------------------------------
(* The tree. *)

\* The nodes above a node, from the root down.
Above[p \in Packages] ==
    IF p = Root THEN <<>> ELSE Append(Above[ParentOf[p]], ParentOf[p])

\* find_matching_child: a child, or failing that any node further down.
Below(p, name) == /\ name \in Packages
                  /\ \E i \in 1 .. Len(Above[name]) : Above[name][i] = p

\* Mutant: the topmost of them is forgotten.
skipped_but_first(p, child) == SubSeq(Above[child], Len(Above[p]) + 3, Len(Above[child]))

\* The nodes between a node and one below it, which the path has skipped.
Skipped(p, child) == SubSeq(Above[child], Len(Above[p]) + 2, Len(Above[child]))

-----------------------------------------------------------------------------
(* Instances and their methods. *)

Made(pkg, parent, by, phase) ==
    [pkg |-> pkg, parent |-> parent, by |-> by, phase |-> phase,
     live |-> TRUE, deblocker |-> 0, disklabel |-> 0]

new_instance(I, pkg, parent, by) == Append(I, Made(pkg, parent, by, "new"))

\* Of a deleted instance only what became of it is remembered.
delete_instance(I, i) ==
    [I EXCEPT ![i] = [pkg |-> None, parent |-> 0, by |-> 0, phase |-> I[i].phase,
                      live |-> FALSE, deblocker |-> 0, disklabel |-> 0]]

\* What the open method of a package may do: return true or not, and ask for an
\* interposer.  That of a disk opens its two helpers, and does not ask.
Outcomes(pkg) ==
    {r \in [ok : BOOLEAN, deblocker : BOOLEAN, disklabel : BOOLEAN,
            ask : Interposers \union {None}] :
        /\ pkg \in Disks => (r.ok = (r.deblocker /\ r.disklabel))
        /\ r.disklabel => r.deblocker
        /\ pkg \notin Disks => ~r.deblocker
        /\ r.ask # None => pkg \in Askers /\ (r.ok \/ mishap = "interpose")}

\* f_open_package: without true from open there is no ihandle, and nobody has
\* the instance.
f_open_package(I, pkg, parent, ok) ==
    Append(I, Made(pkg, parent, 0, IF ok THEN "open" ELSE "failed"))

f_close_package(I, i) ==
    IF i = 0 THEN I ELSE delete_instance([I EXCEPT ![i].phase = "closed"], i)

\* Mutant: without a label the deblocker stays open, as in f_nand_open.
nand_open(I, i, r) ==
    LET one == f_open_package(I, Deblocker, i, r.deblocker)
        two == f_open_package(one, DiskLabel, i, r.disklabel)
    IN IF ~r.deblocker THEN [one EXCEPT ![i].phase = "failed"]
       ELSE [two EXCEPT ![i].phase = IF r.disklabel THEN "open" ELSE "failed",
                        ![i].deblocker = Len(I) + 1, ![i].disklabel = Len(I) + 2]

\* The disk's open: the deblocker, then the label, and true if it has both.
f_ata_disk_open(I, i, r) ==
    LET deblocker == Len(I) + 1
        one == f_open_package(I, Deblocker, i, r.deblocker)
        two == f_open_package(one, DiskLabel, i, r.disklabel)
        failed(J) == [J EXCEPT ![i].phase = "failed"]
    IN IF ~r.deblocker THEN failed(one)
       ELSE IF ~r.disklabel THEN failed(f_close_package(two, deblocker))
       ELSE [two EXCEPT ![i].phase = "open", ![i].deblocker = deblocker,
                        ![i].disklabel = deblocker + 1]

f_ata_disk_close(I, i) ==
    f_close_package(f_close_package(I, I[i].disklabel), I[i].deblocker)

\* execute_method_name(inst, "open")
execute_open(I, i, r) ==
    IF I[i].pkg \in Disks THEN f_ata_disk_open(I, i, r)
    ELSE [I EXCEPT ![i].phase = IF r.ok THEN "open" ELSE "failed"]

\* execute_method_name(inst, "close"), whose return code nobody looks at.
execute_close(I, i) ==
    [IF I[i].pkg \in Disks THEN f_ata_disk_close(I, i) ELSE I
        EXCEPT ![i].phase = "closed"]

Fresh == Len(insts) + 1

\* create_new_inst, which makes the new instance my-self, and then its open
\* method, which may call f_interpose.
NewAndOpen(pkg, by, r, scheduled) ==
    /\ Len(insts) + 3 <= MaxInst
    /\ insts' = execute_open(new_instance(insts, pkg, call.parent, by), Fresh, r)
    /\ currinst' = Fresh
    /\ ipos' = IF r.ask = None THEN scheduled ELSE [pkg |-> r.ask, by |-> Fresh]

-----------------------------------------------------------------------------
(* resolve_path *)

\* With an interposer scheduled, handle_interposers comes first.
Then(c, pc) == IF ipos'.pkg = None THEN [c EXCEPT !.pc = pc]
               ELSE [c EXCEPT !.pc = "interpose", !.next = pc]

\* A package is opened on top of the last one.  If it fails its instance has
\* already become the parent, and is the one to begin with in cleaning up.
OpenOnTop(pkg, by, scheduled, c, pc) ==
    \E r \in Outcomes(pkg) :
        /\ NewAndOpen(pkg, by, r, scheduled)
        /\ call' = LET d == [c EXCEPT !.inst = Fresh, !.parent = Fresh]
                   IN IF r.ok THEN Then(d, pc) ELSE [d EXCEPT !.pc = "clean"]

\* The same for a node that the path has skipped: if it fails it is NULL for
\* the next one, which is then opened on top of nothing.
OpenInChain(pkg, by, scheduled, c) ==
    \E r \in Outcomes(pkg) :
        /\ r.ok \/ mishap = "chain"
        /\ NewAndOpen(pkg, by, r, scheduled)
        /\ call' = IF r.ok THEN Then([c EXCEPT !.parent = Fresh], "chain")
                   ELSE [c EXCEPT !.parent = 0, !.pc = "chain"]

LookUp == calls < MaxCalls /\ calls' = calls + 1

\* Names are given from the root, which is opened first unless it is all there is.
BeginResolve(context, path) ==
    /\ call = Idle /\ LookUp
    /\ call' = [Idle EXCEPT !.context = context, !.path = path,
                            !.pc = IF path = <<>> THEN "last" ELSE "open",
                            !.saveinst = currinst, !.savepkg = currpkg]
    /\ currpkg' = Root
    /\ UNCHANGED <<insts, currinst, ipos, handles, prompt, mishap, node, misused>>

\* The loop opens the node found last before it looks at the next name.
OpenNode ==
    /\ call.pc = "open"
    /\ OpenOnTop(currpkg, 0, ipos, call, "descend")
    /\ UNCHANGED <<currpkg, handles, prompt, calls, mishap, node, misused>>

\* One turn of handle_interposers.
Interpose ==
    /\ call.pc = "interpose"
    /\ IF call.next = "chain" THEN OpenInChain(ipos.pkg, ipos.by, NoInterposer, call)
       ELSE OpenOnTop(ipos.pkg, ipos.by, NoInterposer, call, call.next)
    /\ UNCHANGED <<currpkg, handles, prompt, calls, mishap, node, misused>>

\* A name that begins with % puts an interposer on top.
OpenInterposer ==
    /\ call.pc = "descend" /\ call.path # <<>>
    /\ Head(call.path) \in Interposers
    /\ OpenOnTop(Head(call.path), 0, ipos, [call EXCEPT !.path = Tail(@)], "descend")
    /\ UNCHANGED <<currpkg, handles, prompt, calls, mishap, node, misused>>

Arrive(child) ==
    /\ currpkg' = child
    /\ call' = [call EXCEPT !.path = Tail(@),
                            !.pc = IF Tail(call.path) = <<>> THEN "last" ELSE "open"]

Found == call.path # <<>> /\ Below(currpkg, Head(call.path))

Descend ==
    LET child == Head(call.path)
        skipped == Skipped(currpkg, child) IN
    /\ call.pc = "descend" /\ Found
    /\ IF skipped = <<>> THEN Arrive(child)
       ELSE /\ call' = [call EXCEPT !.pc = "chain", !.chain = skipped, !.parent = currinst]
            /\ UNCHANGED currpkg
    /\ UNCHANGED <<insts, currinst, ipos, handles, prompt, calls, mishap, node, misused>>

\* There is no such node.
NoSuchNode ==
    /\ call.pc = "descend" /\ ~Found
    /\ call.path # <<>> => Head(call.path) \notin Interposers
    /\ mishap = "missing"
    /\ call' = [call EXCEPT !.pc = "clean"]
    /\ UNCHANGED <<insts, currinst, currpkg, ipos, handles, prompt, calls, mishap, node, misused>>

\* create_well_formed_chain
OpenSkipped ==
    /\ call.pc = "chain" /\ call.chain # <<>>
    /\ currpkg' = Head(call.chain)
    /\ OpenInChain(currpkg', 0, ipos, [call EXCEPT !.chain = Tail(@)])
    /\ UNCHANGED <<handles, prompt, calls, mishap, node, misused>>

EndOfSkipped ==
    /\ call.pc = "chain" /\ call.chain = <<>>
    /\ IF call.parent = 0
       THEN call' = [call EXCEPT !.pc = "clean"] /\ UNCHANGED currpkg
       ELSE Arrive(Head(call.path))
    /\ UNCHANGED <<insts, currinst, ipos, handles, prompt, calls, mishap, node, misused>>

\* The last node, for open-dev.
OpenLast ==
    /\ call.pc = "last" /\ call.context = "open"
    /\ OpenOnTop(currpkg, 0, ipos, call, "done")
    /\ UNCHANGED <<currpkg, handles, prompt, calls, mishap, node, misused>>

\* For execute-device-method: a method of its instance is run, without opening it.
ExecuteLast ==
    /\ call.pc = "last" /\ call.context = "exec"
    /\ Len(insts) < MaxInst
    /\ insts' = new_instance(insts, currpkg, call.parent, 0)
    /\ currinst' = Fresh
    /\ call' = [call EXCEPT !.inst = Fresh, !.parent = Fresh, !.pc = "clean"]
    /\ UNCHANGED <<currpkg, ipos, handles, prompt, calls, mishap, node, misused>>

\* create_new_inst has no memory: NULL for a skipped node, an early return in
\* the loop, which cleans up nothing; execute-device-method does not either, and
\* elsewhere the last instance is the one to begin with.
NoMemory ==
    /\ mishap = "memory"
    /\ \/ /\ \/ call.pc = "open"
             \/ call.pc = "interpose" /\ call.next # "chain"
             \/ call.pc = "descend" /\ call.path # <<>> /\ Head(call.path) \in Interposers
             \/ call.pc = "last"
          /\ call' = IF call.pc = "open" THEN Idle
                     ELSE [call EXCEPT !.pc = "clean",
                              !.inst = IF call.context = "exec" /\ call.pc = "last" THEN 0
                                       ELSE call.parent]
       \/ /\ call.pc = "interpose" /\ call.next = "chain"
          /\ call' = [call EXCEPT !.parent = 0, !.pc = "chain"]
       \/ /\ call.pc = "chain" /\ call.chain # <<>>
          /\ call' = [call EXCEPT !.chain = Tail(@), !.parent = 0]
    /\ ipos' = IF call.pc = "interpose" THEN NoInterposer ELSE ipos
    /\ UNCHANGED <<insts, currinst, currpkg, handles, prompt, calls, mishap, node, misused>>

\* Mutant: the active package is not restored.
return_in_package(c) == currinst' = c.saveinst /\ call' = Idle /\ UNCHANGED currpkg

\* What a call of open-dev or execute-device-method leaves.
Return(c) == /\ currinst' = c.saveinst /\ currpkg' = c.savepkg
             /\ call' = Idle

HandOver ==
    /\ call.pc = "done"
    /\ handles' = handles \union {call.inst}
    /\ Return(call)
    /\ UNCHANGED <<insts, ipos, prompt, calls, mishap, node, misused>>

\* Mutant: the innermost instance is closed like the others.
clean_exit_closing ==
    /\ call.pc = "clean"
    /\ IF call.inst = 0
       THEN Return(call) /\ UNCHANGED insts
       ELSE /\ insts' = delete_instance(execute_close(insts, call.inst), call.inst)
            /\ call' = [call EXCEPT !.parent = insts[call.inst].parent, !.pc = "unwind"]
            /\ UNCHANGED <<currinst, currpkg>>
    /\ UNCHANGED <<ipos, handles, prompt, calls, mishap, node, misused>>

\* clean_exit: the innermost instance is deleted, the others are closed first.
CleanExit ==
    /\ call.pc = "clean"
    /\ IF call.inst = 0
       THEN Return(call) /\ UNCHANGED insts
       ELSE /\ insts' = delete_instance(insts, call.inst)
            /\ call' = [call EXCEPT !.parent = insts[call.inst].parent, !.pc = "unwind"]
            /\ UNCHANGED <<currinst, currpkg>>
    /\ UNCHANGED <<ipos, handles, prompt, calls, mishap, node, misused>>

CloseParent ==
    /\ call.pc = "unwind"
    /\ IF call.parent = 0
       THEN Return(call) /\ UNCHANGED insts
       ELSE /\ insts' = delete_instance(execute_close(insts, call.parent), call.parent)
            /\ call' = [call EXCEPT !.parent = insts[call.parent].parent]
            /\ UNCHANGED <<currinst, currpkg>>
    /\ UNCHANGED <<ipos, handles, prompt, calls, mishap, node, misused>>

-----------------------------------------------------------------------------
(* The other words. *)

\* There is nothing to do for NULL.
BeginClose(h) ==
    call' = IF h = 0 THEN Idle
            ELSE [Idle EXCEPT !.pc = "close", !.inst = h, !.savepkg = currpkg']

close_dev(h) ==
    /\ call = Idle /\ h \in handles
    /\ handles' = handles \ {h}
    /\ UNCHANGED <<insts, currinst, currpkg, ipos, calls, mishap, node>>
    /\ BeginClose(h)
    /\ prompt' = IF currinst = h THEN [prompt EXCEPT !.inst = 0] ELSE prompt
    /\ misused' = (misused \/ node.parent = h)

\* Mutant: my-self is not looked at.
close_next_unchecked ==
    /\ call.pc = "close"
    /\ IF call.inst = 0
       THEN call' = Idle /\ currpkg' = call.savepkg /\ UNCHANGED <<insts, currinst>>
       ELSE /\ insts' = delete_instance(execute_close(insts, call.inst), call.inst)
            /\ call' = [call EXCEPT !.inst = insts[call.inst].parent]
            /\ UNCHANGED <<currinst, currpkg>>
    /\ UNCHANGED <<ipos, handles, prompt, calls, mishap, node, misused>>

\* One turn of the loop of f_close_dev.
CloseNext ==
    /\ call.pc = "close"
    /\ IF call.inst = 0
       THEN call' = Idle /\ currpkg' = call.savepkg /\ UNCHANGED <<insts, currinst>>
       ELSE /\ insts' = delete_instance(execute_close(insts, call.inst), call.inst)
            /\ currinst' = IF currinst = call.inst THEN 0 ELSE currinst
            /\ currpkg' = IF currinst = call.inst THEN None ELSE currpkg
            /\ call' = [call EXCEPT !.inst = insts[call.inst].parent]
    /\ UNCHANGED <<ipos, handles, prompt, calls, mishap, node, misused>>

\* new-device: the new node is below the active package, and its first instance
\* on top of my-self.  Nodes are made one at a time.
MakeNode(parent, pkg) ==
    /\ node' = [parent |-> parent, under |-> pkg]
    /\ currinst' = InitInst /\ currpkg' = NewNode
    /\ prompt' = [inst |-> InitInst, pkg |-> NewNode]

new_device ==
    /\ call = Idle /\ currpkg \in Packages
    /\ currinst \in handles \union {0}
    /\ MakeNode(currinst, currpkg)
    /\ UNCHANGED <<insts, ipos, call, handles, calls, mishap, misused>>

\* finish-device goes back to the parents of my-self and of the active package,
\* which is the new node unless find-device has made another one active.
UpToParents ==
    /\ call = Idle /\ currinst = InitInst /\ currpkg # None
    /\ currinst' = node.parent
    /\ node' = NoNode

finish_device ==
    /\ UpToParents
    /\ currpkg' = IF currpkg = NewNode THEN node.under ELSE ParentOf[currpkg]
    /\ prompt' = [inst |-> node.parent, pkg |-> currpkg']
    /\ UNCHANGED <<insts, ipos, call, handles, calls, mishap, misused>>

\* Without memory for the node my-self stays the instance that open-dev gave.
begin_package(h) ==
    /\ call = Idle /\ currinst = 0 /\ h \in handles
    /\ insts[h].pkg \in Packages
    /\ \/ MakeNode(h, insts[h].pkg)
       \/ /\ mishap = "memory"
          /\ currinst' = h /\ currpkg' = insts[h].pkg
          /\ prompt' = [inst |-> h, pkg |-> insts[h].pkg]
          /\ UNCHANGED node
    /\ UNCHANGED <<insts, ipos, call, handles, calls, mishap, misused>>

\* finish-device, forth, and close-dev of what is now my-self.
end_package ==
    /\ UpToParents
    /\ currpkg' = None
    /\ BeginClose(node.parent)
    /\ handles' = handles \ {node.parent}
    /\ prompt' = [inst |-> 0, pkg |-> None]
    /\ UNCHANGED <<insts, ipos, calls, mishap, misused>>

\* find-device of one node; no package is active if there is none.
find_device(name) ==
    /\ call = Idle /\ LookUp
    /\ currpkg' = IF name = Root \/ Below(Root, name) THEN name ELSE None
    /\ prompt' = [prompt EXCEPT !.pkg = currpkg']
    /\ UNCHANGED <<insts, currinst, ipos, call, handles, mishap, node, misused>>

Resolving == \/ OpenNode \/ Interpose \/ OpenInterposer \/ Descend \/ NoSuchNode
             \/ OpenSkipped \/ EndOfSkipped \/ OpenLast \/ ExecuteLast \/ NoMemory
             \/ HandOver \/ CleanExit \/ CloseParent

InstNext ==
    \/ \E context \in {"open", "exec"}, path \in Paths : BeginResolve(context, path)
    \/ Resolving
    \/ \E h \in handles : close_dev(h) \/ begin_package(h)
    \/ CloseNext
    \/ new_device \/ finish_device \/ end_package
    \/ \E path \in Paths : path # <<>> /\ find_device(Head(path))

InstSpec == InstInit /\ [][InstNext]_instVars

-----------------------------------------------------------------------------
(* Properties. *)

Opened == {i \in DOMAIN insts : insts[i].phase = "open"}
Usable == {i \in Opened : insts[i].live}
Helpers(i) == {insts[i].deblocker, insts[i].disklabel} \ {0}

\* The instances from an ihandle to the root.
Chain(I, h) == LET up[i \in 0 .. Len(I)] ==
                       IF i = 0 THEN {} ELSE {i} \union up[I[i].parent]
               IN up[h]

\* An instance that callers have and those under it, and its helpers if it is a
\* disk, are open and have not been deleted.
HandlesAreLive ==
    \A h \in handles : \A i \in Chain(insts, h) : i \in Usable /\ Helpers(i) \subseteq Usable

\* So is my-self between two calls, or the parent of my-self, if that is the
\* instance of a node being made.
SelfIsLive ==
    call = Idle => \/ currinst \in Usable \union {0}
                   \/ currinst = InitInst /\ node.parent \in Usable \union {0}

\* Whatever fails: an instance that somebody can still call, through an ihandle,
\* as my-parent, as a disk's helper or as my-self, is open and has not been
\* deleted, until a caller closes the instance that begin-package opened, or on
\* top of which it has called new-device.  f_close_dev does not see that it is
\* the parent of my-self.
UsedIsLive == ~misused => HandlesAreLive /\ SelfIsLive

\* What the code does not do: the same, whatever callers close.
UsedIsLiveAtAll == HandlesAreLive /\ SelfIsLive

\* No open instance is left over: when a call has returned, whatever is open
\* belongs to an ihandle that somebody has.  A path that names no node leaves
\* the last node it found open, as does one whose skipped nodes do not open.
NothingLeft ==
    ~misused /\ call = Idle /\ mishap \in {"none", "interpose"} =>
        Opened = UNION {Chain(insts, h) \union UNION {Helpers(i) : i \in Chain(insts, h)} :
                            h \in handles}

\* The close method is run of what is open only, and of an instance after those
\* on top of it.
CloseInOrder ==
    [][~misused /\ mishap \notin {"chain", "memory"} =>
          \A i \in DOMAIN insts :
              insts[i].phase # "closed" /\ insts'[i].phase = "closed" =>
                  /\ insts[i].phase = "open"
                  /\ \A j \in DOMAIN insts : insts'[j].parent = i =>
                        ~(insts'[j].phase = "open" /\ insts'[j].live)]_instVars

\* An interposer is put directly on top of the instance whose open method asked
\* for it.  One that was asked for by a method that then failed stays scheduled,
\* and gets on top of whatever is opened next.
InterposedWhereAsked ==
    mishap # "interpose" =>
        \A i \in DOMAIN insts : insts[i].by # 0 => insts[i].parent = insts[i].by

\* All nodes above a device that open-dev returns are its ancestors.
AllAncestors ==
    mishap \notin {"chain", "memory"} =>
        \A h \in handles :
            LET nodes == {i \in Chain(insts, h) : insts[i].pkg \in Packages}
                device == insts[Max(nodes)].pkg
            IN /\ {insts[i].pkg : i \in nodes} = {device} \union Range(Above[device])
               /\ \A i, j \in nodes : i < j => insts[i].pkg \in Range(Above[insts[j].pkg])

\* What open-dev returns has the device tree's own nodes as its ancestors, all
\* of them, with nothing in between but interposers, each where it was asked
\* for (create_well_formed_chain, Interpose in NewAndOpen).
WellFormed == ~misused => InstTypeOK /\ AllAncestors /\ InterposedWhereAsked

\* Opening and closing leave my-self and the active package as they were.
SelfRestored ==
    ~misused /\ call = Idle /\ mishap # "memory" =>
        prompt = [inst |-> currinst, pkg |-> currpkg]
=============================================================================
