--------------------------- MODULE SyscallFormatting ---------------------------
(***************************************************************************)
(* The display of syscall pointer arguments in src/main/host/syscall/     *)
(* type_formatting.rs: the four SyscallPtrDisplay impls (a pointer to a    *)
(* value, to an array of K values, a pointer shown without reading, and a *)
(* C string) under the two FmtOptions.                                     *)
(*                                                                         *)
(* A byte is abstracted to its class: NUL, an ASCII graphic character, or *)
(* any other non-zero byte.  Plugin memory at the pointer is the sequence *)
(* of its readable bytes; the MemoryManager (not in this repository) is   *)
(* modelled from its use here: memory_ref(ptr, n) succeeds when n bytes    *)
(* are readable, and memory_ref_prefix(ptr, n) returns the readable part   *)
(* of the first n bytes, failing when none is readable.  Every call of    *)
(* the formatter is a step; its inputs are enumerated.                     *)
(***************************************************************************)
EXTENDS Integers, Sequences, SequencesExt

CONSTANTS
    DisplayLen,  \* DISPLAY_LEN (40), scaled
    K,           \* the K of SyscallPtr<[T; K]>
    MaxMem       \* bound: readable bytes after the pointer

ASSUME DisplayLen \in Nat \ {0} /\ K \in Nat \ {0} /\ MaxMem >= DisplayLen + 1

Bytes == {"nul", "graphic", "other"}
Options == {"standard", "deterministic"}
Impls == {"value", "array", "opaque", "cstr"}

\* The formatter's output: what it shows, and for a C string the bytes
\* shown and whether "..." follows.
Out(shows, text, ellipsis) == [shows |-> shows, text |-> text, ellipsis |-> ellipsis]
Placeholder == Out("placeholder", <<>>, FALSE)   \* "<pointer>"
Address == Out("address", <<>>, FALSE)           \* "{:p}"

MemoryRefOk(mem, n) == Len(mem) >= n

MemoryRefPrefix(mem, n) == SubSeq(mem, 1, IF Len(mem) < n THEN Len(mem) ELSE n)

-----------------------------------------------------------------------------

\* simple_pointer_impl (n = 1) and simple_array_impl (n = K), lines 41-114:
\* the match on (options, memory_ref).
ValueFmt(opt, mem, n) ==
    CASE opt = "standard" /\ MemoryRefOk(mem, n)      -> Out("value", SubSeq(mem, 1, n), FALSE)
      [] opt = "deterministic" /\ MemoryRefOk(mem, n) -> Placeholder
      [] opt = "standard" /\ ~MemoryRefOk(mem, n)     -> Address
      [] opt = "deterministic" /\ ~MemoryRefOk(mem, n) -> Placeholder

\* safe_pointer_impl (lines 68-88): memory is never read.
OpaqueFmt(opt) == IF opt = "standard" THEN Address ELSE Placeholder

\* The iterator chain of lines 217-228, lazily: bytes are taken until a NUL
\* (first map_while); each non-graphic byte decrements non_graphic_remaining
\* (saturating), and the byte is kept only while it stays above 0 (second
\* map_while).  Returns the collected bytes and the final counter.
RECURSIVE Collect(_, _)
Collect(bs, remaining) ==
    IF bs = <<>> \/ Head(bs) = "nul" THEN [s |-> <<>>, rem |-> remaining]
    ELSE LET r == IF Head(bs) = "graphic" THEN remaining
                  ELSE IF remaining > 0 THEN remaining - 1 ELSE 0
         IN IF r > 0
               THEN LET rest == Collect(Tail(bs), r)
                    IN [s |-> <<Head(bs)>> \o rest.s, rem |-> rest.rem]
               ELSE [s |-> <<>>, rem |-> r]

\* Faulty variant of CStrFmt: "..." only when more than DISPLAY_LEN bytes
\* were collected, not when the non-graphic budget ran out.
CStrFmtLenOnly(opt, mem) ==
    IF opt = "deterministic" THEN Placeholder
    ELSE IF Len(mem) = 0 THEN Address
    ELSE LET c == Collect(MemoryRefPrefix(mem, DisplayLen + 1), DisplayLen \div 3)
         IN Out("string", SubSeq(c.s, 1, IF Len(c.s) > DisplayLen THEN DisplayLen ELSE Len(c.s)),
                Len(c.s) > DisplayLen)

\* SyscallPtrDisplay for SyscallPtr<*const i8> (lines 191-241): the
\* deterministic early return, the address when no byte is readable, else
\* the collected bytes truncated to DISPLAY_LEN, with "..." when more were
\* collected or the non-graphic budget ran out.
CStrFmt(opt, mem) ==
    IF opt = "deterministic" THEN Placeholder
    ELSE IF Len(mem) = 0 THEN Address
    ELSE LET c == Collect(MemoryRefPrefix(mem, DisplayLen + 1), DisplayLen \div 3)
         IN Out("string", SubSeq(c.s, 1, IF Len(c.s) > DisplayLen THEN DisplayLen ELSE Len(c.s)),
                Len(c.s) > DisplayLen \/ c.rem <= 0)

Fmt(impl, opt, mem) ==
    CASE impl = "value"  -> ValueFmt(opt, mem, 1)
      [] impl = "array"  -> ValueFmt(opt, mem, K)
      [] impl = "opaque" -> OpaqueFmt(opt)
      [] impl = "cstr"   -> CStrFmt(opt, mem)

-----------------------------------------------------------------------------
(* Reference: the C string as far as the formatter reads it. *)

\* The bytes before the first NUL among the first DISPLAY_LEN + 1 readable.
Window(mem) == MemoryRefPrefix(mem, DisplayLen + 1)
CString(mem) ==
    LET w == Window(mem) IN
    IF Contains(w, "nul") THEN SubSeq(w, 1, SelectInSeq(w, LAMBDA b : b = "nul") - 1) ELSE w

NonGraphic(s) == Len(SelectSeq(s, LAMBDA b : b # "graphic"))

-----------------------------------------------------------------------------

VARIABLES impl, opt, mem

vars == <<impl, opt, mem>>

\* Every call formats some impl under some option; the memory behind the
\* pointer is enumerated by growing it one byte per call up to MaxMem bytes,
\* then starting again from unreadable memory.
Init ==
    /\ impl \in Impls
    /\ opt \in Options
    /\ mem = <<>>

Format ==
    /\ impl' \in Impls
    /\ opt' \in Options
    /\ mem' \in IF Len(mem) < MaxMem THEN {Append(mem, b) : b \in Bytes} ELSE {<<>>}

Spec == Init /\ [][Format]_vars

-----------------------------------------------------------------------------
(* Properties *)

\* The C-string display (lines 198-239) is exact about truncation: it shows
\* a prefix of the string of at most DISPLAY_LEN bytes with fewer
\* non-graphic bytes than the DISPLAY_LEN / 3 budget, and it appends "..."
\* exactly when that prefix is not the whole string it read.
CStrEllipsisExact ==
    LET o == CStrFmt(opt, mem) IN
    (opt = "standard" /\ Len(mem) > 0) =>
        /\ IsPrefix(o.text, CString(mem))
        /\ Len(o.text) <= DisplayLen
        /\ NonGraphic(o.text) < DisplayLen \div 3
        /\ o.ellipsis = (o.text # CString(mem))

=============================================================================
