------------------------------- MODULE Nvram -------------------------------
(***************************************************************************)
(* The configuration variables: /options and the image of NVRAM in memory  *)
(* (src/bin/of/nvram.c, admin.c, table.c), and the log of images in flash  *)
(* memory behind them (src/bin/of/edb7312/flash.c, amd64/flash.c).         *)
(*                                                                         *)
(* Each change appends a record to the log, a header and then the          *)
(* variables that do not have their default value; when the log is full it *)
(* is erased first.  The machine may lose power at any time.  Offsets and  *)
(* lengths are counted in bytes, what the strings are does not matter.     *)
(***************************************************************************)
EXTENDS Integers, Sequences, FiniteSets, SequencesExt

CONSTANTS
    Vars,           \* configuration variables
    Secure,         \* those that are not kept in /options: security-password
    SecurityMode, BadLogins, NoLogins, \* security-mode, security-#badlogins, "0"
    Values, Default, \* what they are set to, and g_nvram[]
    EntryLen,       \* [Values -> Nat]: strlen of name and value, with the NULs
    Size,           \* NVRAM_SIZE
    Torn,           \* a header may get written without what comes after it
    MaxCrashes,     \* bound: losses of power while the log is written
    MaxFailures     \* bound: writes and allocations that fail

ASSUME NvramAssumption ==
    /\ Secure \subseteq Vars /\ {SecurityMode, BadLogins} \subseteq Vars \ Secure
    /\ NoLogins \in Values /\ Default \in [Vars -> Values]
    /\ IsFiniteSet(Vars) /\ EntryLen \in [Values -> Nat]
    /\ Size \in Nat /\ Size >= 8                \* NVRAM_MAX is not negative
    /\ Torn \in BOOLEAN /\ {MaxCrashes, MaxFailures} \subseteq Nat

VARIABLES
    nvpc,           \* where store_nvram is, "off" without power
    options,        \* /options
    image,          \* g_nvram_image: the variables in it and their values
    log,            \* the records in the flash memory
    dirty,          \* after the last record the flash memory is not erased
    off, lastoff,   \* of machine_nvram_write
    apart,          \* the last image has not got into the flash memory
    pending,        \* the variable that is saved next, and its value
    refused,        \* variables whose value in /options is kept out of the image
    before,         \* what a restart would have given before the last change
    nvleft          \* crashes and failures that are left

nvVars == <<nvpc, options, image, log, dirty, off, lastoff, apart, pending, refused, before, nvleft>>

Garbage == "garbage"
Some(f, v) == v \in DOMAIN f
\* A partial function's values, and the defaults of all other variables.
Effective(f) == [v \in Vars |-> IF Some(f, v) THEN f[v] ELSE Default[v]]
Empty == [v \in {} |-> Garbage]

-----------------------------------------------------------------------------
(* Images and records.  A record has a header of six bytes and a NUL.       *)

\* The sum of a sequence of numbers.
Total(s) == LET sum[n \in 0 .. Len(s)] == IF n = 0 THEN 0 ELSE sum[n - 1] + s[n]
            IN sum[Len(s)]

ImageLen(f) == LET vs == SetToSeq(DOMAIN f)
               IN Total([i \in 1 .. Len(vs) |-> EntryLen[f[vs[i]]]])
Record(f) == [vars |-> f, len |-> ImageLen(f), whole |-> TRUE]
Place(n) == Total([i \in 1 .. n |-> log[i].len + 7])
End == Place(Len(log))

\* nvram_offset fails when there is no record, and when no header fits any
\* more after the last one.
Found == log # <<>> /\ End + 6 <= Size

\* What the contents of a record that was not completed are taken for.
Contents(r) == IF r.whole THEN r.vars ELSE [v \in Vars |-> Garbage]

machine_nvram_read == IF Found THEN Contents(log[Len(log)]) ELSE Empty

Stored == Effective(machine_nvram_read)
Current == [v \in Vars |-> IF v \in Secure THEN Effective(image)[v] ELSE options[v]]

-----------------------------------------------------------------------------
Images == UNION {[V -> Values] : V \in SUBSET Vars}
Records == [vars : Images, len : 0 .. Size, whole : BOOLEAN]

NvramTypeOK ==
    /\ nvpc \in {"off", "idle", "store", "erase", "write"}
    /\ options \in [Vars -> Values \union {Garbage}]
    /\ image \in UNION {[V -> Values \union {Garbage}] : V \in SUBSET Vars}
    /\ log \in Seq(Records) /\ End <= Size
    /\ dirty \in BOOLEAN /\ apart \in BOOLEAN
    /\ off \in 0 .. Size /\ lastoff \in 0 .. Size
    /\ pending \subseteq Vars \X Values /\ refused \subseteq Vars
    /\ before \in [Vars -> Values \union {Garbage}]
    /\ nvleft \in [crashes : 0 .. MaxCrashes, failures : 0 .. MaxFailures]

\* A new machine.
NvramInit ==
    /\ nvpc = "off"
    /\ options = Default /\ image = Empty
    /\ log = <<>> /\ dirty = FALSE
    /\ off = 0 /\ lastoff = Size
    /\ apart = FALSE /\ pending = {} /\ refused = {} /\ before = Default
    /\ nvleft = [crashes |-> MaxCrashes, failures |-> MaxFailures]

\* A switch on the board makes the first read of NVRAM fail.
load_nvram(skip) == IF skip THEN Empty ELSE machine_nvram_read

\* init_options_from_nvram
Boot(skip) ==
    /\ nvpc = "off"
    /\ nvpc' = "idle"
    /\ image' = load_nvram(skip)
    /\ options' = [v \in Vars |-> IF v \in Secure THEN Default[v]
                                  ELSE Effective(image')[v]]
    /\ lastoff' = Size
    /\ apart' = (Effective(image') # Stored)
    /\ refused' = {}
    /\ before' = Stored
    /\ UNCHANGED <<log, dirty, off, pending, nvleft>>

-----------------------------------------------------------------------------
(* set_nvram, under $setenv, setenv and set-default.                        *)

\* Mutant: a variable that gets its default value back keeps the old one.
keep_old(f, v, x) == IF x = Default[v] THEN f ELSE [w \in DOMAIN f \union {v} |->
                                                       IF w = v THEN x ELSE f[w]]

Changed(f, v, x) ==
    LET others == DOMAIN f \ {v} IN
    [w \in IF x = Default[v] THEN others ELSE others \union {v} |->
        IF w = v THEN x ELSE f[w]]

TooLong(f) == ImageLen(f) >= Size - 8           \* NVRAM_MAX

set_nvram(v, x) ==
    LET new == Changed(image, v, x) IN
    \/ /\ TooLong(new)
       /\ refused' = refused \union {v}
       /\ UNCHANGED <<nvpc, image, before>>
    \/ /\ ~TooLong(new)
       /\ image' = new
       /\ refused' = refused \ {v}
       /\ before' = Stored
       /\ nvpc' = "store"

Fails == nvleft.failures > 0 /\ nvleft' = [nvleft EXCEPT !.failures = @ - 1]

\* The value is in /options before set_nvram refuses it.  Without memory for the
\* property nothing is saved.
save_config(v, x) ==
    \/ /\ options' = [options EXCEPT ![v] = x]
       /\ set_nvram(v, x)
       /\ UNCHANGED nvleft
    \/ Fails /\ UNCHANGED <<nvpc, options, image, refused, before>>

Save(v, x) == \/ v \in Secure /\ set_nvram(v, x) /\ UNCHANGED <<options, nvleft>>
              \/ v \notin Secure /\ save_config(v, x)

\* After security-mode, whatever became of it, security-#badlogins is set.
f_dsetenv(v, x) ==
    /\ nvpc = "idle" /\ pending = {}
    /\ Save(v, x)
    /\ pending' = IF v = SecurityMode THEN {<<BadLogins, NoLogins>>} ELSE {}
    /\ UNCHANGED <<log, dirty, off, lastoff, apart>>

\* password, which sets it before the password.
f_password(v, x) ==
    /\ nvpc = "idle" /\ pending = {} /\ v \in Secure
    /\ Save(BadLogins, NoLogins)
    /\ pending' = {<<v, x>>}
    /\ UNCHANGED <<log, dirty, off, lastoff, apart>>

SaveNext(v, x) ==
    /\ nvpc = "idle" /\ <<v, x>> \in pending
    /\ Save(v, x)
    /\ pending' = {}
    /\ UNCHANGED <<log, dirty, off, lastoff, apart>>

\* Without memory, some variables have got their defaults in /options only.
reset_nvram ==
    \/ /\ options' = Default /\ image' = Empty
       /\ refused' = {}
       /\ before' = Stored
       /\ nvpc' = "store"
       /\ UNCHANGED nvleft
    \/ /\ Fails
       /\ \E V \in SUBSET Vars :
             /\ options' = [v \in Vars |-> IF v \in V THEN Default[v] ELSE options[v]]
             /\ refused' = refused \union {v \in V : Effective(image)[v] # Default[v]}
       /\ UNCHANGED <<nvpc, image, before>>

f_set_defaults ==
    /\ nvpc = "idle" /\ pending = {}
    /\ reset_nvram
    /\ UNCHANGED <<log, dirty, off, lastoff, apart, pending>>

-----------------------------------------------------------------------------
(* machine_nvram_write, for store_nvram, which does not look at what it     *)
(* returns.                                                                 *)

FindPlace ==
    /\ nvpc = "store"
    /\ LET last == Place(Len(log) - 1)
           full == \/ ~Found
                   \/ lastoff \notin {Size, last}
                   \/ End + ImageLen(image) + 7 > Size
       IN  /\ off' = IF full THEN 0 ELSE End
           /\ nvpc' = IF full THEN "erase" ELSE "write"
    /\ UNCHANGED <<options, image, log, dirty, lastoff, apart, pending, refused, before, nvleft>>

\* Mutant: the erasure begins at the last record.
erase_last_record ==
    /\ nvpc = "erase"
    /\ log' = SubSeq(log, 1, Len(log) - 1) /\ dirty' = FALSE
    /\ nvpc' = "write"
    /\ UNCHANGED <<options, image, off, lastoff, apart, pending, refused, before, nvleft>>

EraseFlash ==
    /\ nvpc = "erase"
    /\ log' = <<>> /\ dirty' = FALSE
    /\ nvpc' = "write"
    /\ UNCHANGED <<options, image, off, lastoff, apart, pending, refused, before, nvleft>>

\* No memory for the buffer of ones.
NoBuffer ==
    /\ nvpc = "erase" /\ nvleft.failures > 0
    /\ apart' = TRUE
    /\ nvpc' = "idle"
    /\ nvleft' = [nvleft EXCEPT !.failures = @ - 1]
    /\ UNCHANGED <<options, image, log, dirty, off, lastoff, pending, refused, before>>

WriteRecord ==
    /\ nvpc = "write"
    /\ log' = Append(log, Record(image))
    /\ lastoff' = off
    /\ apart' = FALSE /\ dirty' = FALSE
    /\ nvpc' = "idle"
    /\ UNCHANGED <<options, image, off, pending, refused, before, nvleft>>

\* program_flash has compared what it wrote, and reports success.
WriteFails ==
    /\ nvpc = "write" /\ nvleft.failures > 0
    /\ dirty' = TRUE
    /\ lastoff' = off
    /\ apart' = TRUE
    /\ nvpc' = "idle"
    /\ nvleft' = [nvleft EXCEPT !.failures = @ - 1]
    /\ UNCHANGED <<options, image, log, off, pending, refused, before>>

-----------------------------------------------------------------------------
(* Loss of power.  Where the flash memory is not erased, program_flash      *)
(* erases and rewrites the whole sector.                                    *)

PowerOff ==
    /\ nvpc = "idle"
    /\ nvpc' = "off" /\ pending' = {}
    /\ UNCHANGED <<options, image, log, dirty, off, lastoff, apart, refused, before, nvleft>>

Crash ==
    /\ nvpc \in {"store", "erase", "write"} /\ nvleft.crashes > 0
    /\ \/ UNCHANGED <<log, dirty>>
       \/ nvpc = "write" /\ dirty' = TRUE /\ UNCHANGED log
       \/ nvpc = "write" /\ dirty /\ dirty' = FALSE /\ log' = <<>>
       \/ /\ Torn /\ nvpc = "write"
          /\ log' = Append(log, [Record(image) EXCEPT !.whole = FALSE])
          /\ UNCHANGED dirty
    /\ nvpc' = "off" /\ pending' = {}
    /\ nvleft' = [nvleft EXCEPT !.crashes = @ - 1]
    /\ UNCHANGED <<options, image, off, lastoff, apart, refused, before>>

NvramNext ==
    \/ \E skip \in BOOLEAN : Boot(skip)
    \/ \E v \in Vars, x \in Values : f_dsetenv(v, x)
    \/ \E v \in Vars, x \in Values : f_password(v, x) \/ SaveNext(v, x)
    \/ f_set_defaults \/ FindPlace \/ EraseFlash \/ NoBuffer \/ WriteRecord \/ WriteFails
    \/ PowerOff \/ Crash

NvramSpec == NvramInit /\ [][NvramNext]_nvVars

-----------------------------------------------------------------------------
\* What the variables are now is what a restart gives, unless the last write
\* has failed or the value has not got into the image (set_nvram, store_nvram,
\* machine_nvram_write and machine_nvram_read taken together).
Kept == nvpc = "idle" /\ ~apart =>
            \A v \in Vars \ refused : Stored[v] = Current[v]

\* A restart at any time gives all variables as they were before the change
\* that was interrupted or all as they are after it, or the defaults once
\* the log has been erased.
OldOrNew == /\ NvramTypeOK
            /\ Stored \in {before, Effective(image)} \/ log = <<>>

\* Every record that a restart may read has been written to its end.
OnlyWholeRecords == Found => log[Len(log)].whole
=============================================================================
