------------------------------ MODULE PMTrace ------------------------------
(***************************************************************************)
(* How the trace of the program becomes the trace of its device: the pass  *)
(* WitcherPMTrace, which reads the trace file entry by entry and the file  *)
(* of store values alongside (StoreValueReader.h).  It keeps what concerns *)
(* the device and gives addresses of the second mapping as addresses of    *)
(* the first.                                                              *)
(*                                                                         *)
(* The whole value file is mapped, at an address that the system picks:    *)
(* one of Bases.  What lies behind its end reads as holes do.              *)
(***************************************************************************)
EXTENDS Integers, Sequences

CONSTANTS PmAddr, PmSize, StoreValueCacheBytes, Bases, Hole

VARIABLES file, values,     \* what the run of the program has left
          position,         \* entries read
          base, currOffset, \* of the StoreValueReader: where the file is mapped, the position
          pm_addr_start_dup, pm_addr_end_dup,
          pmtrace,          \* the lines of the output
          done

input == <<file, values>>
reader == <<base, currOffset>>
dup == <<pm_addr_start_dup, pm_addr_end_dup>>
vars == <<input, position, reader, dup, pmtrace, done>>

Unmapped == -1

init ==
    /\ position = 0 /\ base = Unmapped /\ currOffset = 0 /\ pmtrace = <<>> /\ done = FALSE
    /\ pm_addr_start_dup = 0 /\ pm_addr_end_dup = 0

entry == file[position + 1]
Line(op, addr, bytes) == [op |-> op, tid |-> entry.tid, addr |-> addr, bytes |-> bytes]
Next_(type) ==
    /\ base # Unmapped /\ ~done
    /\ position < Len(file) /\ entry.type = type /\ position' = position + 1

\* StoreValueReader::init
mmapValues ==
    /\ base = Unmapped /\ base' \in Bases
    /\ UNCHANGED <<input, position, currOffset, dup, pmtrace, done>>
-----------------------------------------------------------------------------
is_dup(addr) == addr >= pm_addr_start_dup /\ addr < pm_addr_end_dup
is_pm_addr(addr) == (addr >= PmAddr /\ addr < PmAddr + PmSize) \/ is_dup(addr)

\* Mutant: addresses of the second mapping are kept.
TranslatedNot(addr) == addr

Translated(addr) == IF is_dup(addr) THEN addr - pm_addr_start_dup + PmAddr ELSE addr

\* Mutant: the rest of the window is not skipped.
ReaderPositionNext(length) == currOffset

\* checkCacheBoundaryAndUpdateCurrOffset: where the next value begins.  The
\* windows are counted from address 0, those of the writer from the beginning
\* of the file.
checkCacheBoundaryAndUpdateCurrOffset(length) ==
    LET currAddr == base + currOffset
        nextAddr == currAddr + length
    IN  IF nextAddr % StoreValueCacheBytes > 0
           /\ nextAddr \div StoreValueCacheBytes > currAddr \div StoreValueCacheBytes
        THEN nextAddr - (nextAddr % StoreValueCacheBytes) - base
        ELSE currOffset

\* moveCurrOffset and, for a value that is used, getNextValue.
moveCurrOffset(length) == currOffset' = checkCacheBoundaryAndUpdateCurrOffset(length) + length

getNextValue(length) ==
    LET from == checkCacheBoundaryAndUpdateCurrOffset(length)
    IN  [k \in 1..length |-> IF from + k \in DOMAIN values THEN values[from + k] ELSE Hole]
-----------------------------------------------------------------------------
processStoreEntry ==
    /\ Next_("S")
    /\ \/ /\ ~is_pm_addr(entry.addr)
          /\ moveCurrOffset(entry.length)
          /\ UNCHANGED pmtrace
       \/ /\ is_pm_addr(entry.addr) /\ entry.length = 0
          /\ UNCHANGED <<currOffset, pmtrace>>
       \/ /\ is_pm_addr(entry.addr) /\ entry.length > 0
          /\ pmtrace' = Append(pmtrace, Line("Store", Translated(entry.addr), getNextValue(entry.length)))
          /\ moveCurrOffset(entry.length)
    /\ UNCHANGED <<input, base, dup, done>>

processFlushEntry ==
    /\ Next_("H")
    /\ pmtrace' = IF is_pm_addr(entry.addr) THEN Append(pmtrace, Line("Flush", Translated(entry.addr), <<>>))
                  ELSE pmtrace
    /\ UNCHANGED <<input, reader, dup, done>>

processFenceEntry ==
    /\ Next_("F")
    /\ pmtrace' = Append(pmtrace, Line("Fence", 0, <<>>))
    /\ UNCHANGED <<input, reader, dup, done>>

MAP_FAILED == -1

\* The first mapping is known; another one must be the first of its kind.
processMmapEntry ==
    /\ Next_("M")
    /\ \/ entry.addr \in {MAP_FAILED, PmAddr} /\ UNCHANGED dup
       \/ /\ entry.addr \notin {MAP_FAILED, PmAddr} /\ pm_addr_start_dup = 0 /\ pm_addr_end_dup = 0
          /\ pm_addr_start_dup' = entry.addr /\ pm_addr_end_dup' = entry.addr + entry.length
    /\ UNCHANGED <<input, reader, pmtrace, done>>

\* The marks of the transactions, and of the calls of PMDK; other calls have
\* no line.
processCallEntry ==
    /\ Next_("C")
    /\ pmtrace' = pmtrace \o (CASE entry.length = 0 -> <<>>
                                [] entry.length = 1 -> <<Line("TXStart", 0, <<>>)>>
                                [] entry.length = 2 -> <<Line("TXEnd", 0, <<>>)>>
                                [] OTHER -> <<Line("PMDKStart", 0, <<>>)>>)
    /\ UNCHANGED <<input, reader, dup, done>>

processRetEntry ==
    /\ Next_("R")
    /\ pmtrace' = pmtrace \o (IF entry.length > 2 THEN <<Line("PMDKEnd", 0, <<>>)>> ELSE <<>>)
    /\ UNCHANGED <<input, reader, dup, done>>

processTXAddEntry ==
    /\ Next_("T")
    /\ pmtrace' = Append(pmtrace, Line("TXAdd", entry.addr, <<>>))
    /\ UNCHANGED <<input, reader, dup, done>>

processTXAllocEntry ==
    /\ Next_("A")
    /\ pmtrace' = Append(pmtrace, Line("TXAlloc", entry.addr, <<>>))
    /\ UNCHANGED <<input, reader, dup, done>>

\* Basic blocks and loads.
SkipEntry ==
    /\ \E type \in {"B", "L"} : Next_(type)
    /\ UNCHANGED <<input, reader, dup, pmtrace, done>>

\* The end, or what was never written.
EndEntry ==
    /\ \E type \in {"E", "hole"} : Next_(type)
    /\ done' = TRUE
    /\ UNCHANGED <<input, reader, dup, pmtrace>>

\* The windows of the reader are those of the writer, or the whole file lies in
\* one.
ValuesAligned ==
    \/ base % StoreValueCacheBytes = 0
    \/ (base % StoreValueCacheBytes) + Len(values) <= StoreValueCacheBytes

run ==
    \/ mmapValues \/ processStoreEntry \/ processFlushEntry \/ processFenceEntry \/ processMmapEntry
    \/ processCallEntry \/ processRetEntry \/ processTXAddEntry
    \/ processTXAllocEntry \/ SkipEntry \/ EndEntry
=============================================================================
