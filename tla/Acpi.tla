-------------------------------- MODULE Acpi --------------------------------
(***************************************************************************)
(* acpid: it copies the firmware's tables out of physical memory page by    *)
(* page, builds the AML namespace from them and serves both as files.  It   *)
(* has one thread; an open directory of symbols keeps the lock of the       *)
(* namespace.                                                               *)
(***************************************************************************)
EXTENDS Integers, SequencesExt, FiniteSets

CONSTANTS
    Firmwares,     \* [listed, at]: the addresses in the [RX]SDT, and from addresses to tables,
                   \*   [sig, name, length, sound, dsdt, symbols, s5]; name is the signature
                   \*   together with the OEM's two ids
    PageSize, HeaderSize, SimultaneousPages,
    AmlAddresses,  \* addresses that AML accesses
    MaxOpens       \* bound on the handles opened

VARIABLES
    firmware, pc,
    load,          \* the table being copied: [addr, bytes, left, offset]
    todo,          \* addresses of the tables not yet copied
    tables, fadt, dsdt,
    namespace, page_cache,
    symbol_cache,
    asked,         \* the open that the cache is built for
    handles, next_fd,
    power          \* what was written to the PM1a control register

vars == <<firmware, pc, load, todo, tables, fadt, dsdt, namespace, page_cache, symbol_cache, asked,
          handles, next_fd, power>>

tableVars == <<firmware, load, todo, tables, fadt, dsdt>>
schemeVars == <<symbol_cache, asked, handles, next_fd>>

NoLoad == [addr |-> -1, bytes |-> <<>>, left |-> 0, offset |-> 0]
NoTable == -1
NoOpen == <<>>

Init ==
    /\ firmware \in Firmwares
    /\ pc = "map"
    /\ load = NoLoad /\ todo = firmware.listed
    /\ tables = <<>> /\ fadt = NoTable /\ dsdt = NoTable
    /\ namespace = {} /\ page_cache = {} /\ symbol_cache = {}
    /\ asked = NoOpen /\ handles = <<>> /\ next_fd = 0 /\ power = {}

-----------------------------------------------------------------------------
(* The tables: load_from_physical and Sdt::new.  A byte is its address. *)

Bytes(from, n) == [i \in 1 .. n |-> from + i - 1]
Smaller(a, b) == IF a < b THEN a ELSE b

\* The page with the header, or the two pages that it spans.
MapHeader ==
    LET addr == Head(todo)
        start == (addr \div PageSize) * PageSize
        pages == IF PageSize - (addr % PageSize) < HeaderSize THEN 2 ELSE 1
        base == Smaller(firmware.at[addr].length, pages * PageSize - (addr % PageSize))
    IN /\ pc = "map" /\ todo # <<>>
       /\ load' = [addr |-> addr, bytes |-> Bytes(addr, base),
                   left |-> firmware.at[addr].length - base, offset |-> start + pages * PageSize]
       /\ pc' = "copy"
       /\ UNCHANGED <<firmware, todo, tables, fadt, dsdt, namespace, page_cache, power>>
       /\ UNCHANGED schemeVars

\* The rest of the table, SimultaneousPages at a time.
Copy ==
    LET n == Smaller(load.left, PageSize * SimultaneousPages)
    IN /\ pc = "copy" /\ load.left > 0
       /\ load' = [load EXCEPT !.bytes = @ \o Bytes(load.offset, n), !.left = @ - n, !.offset = @ + n]
       /\ UNCHANGED <<firmware, pc, todo, tables, fadt, dsdt, namespace, page_cache, power>>
       /\ UNCHANGED schemeVars

Valid(addr) == firmware.at[addr].length >= HeaderSize /\ firmware.at[addr].sound

WithSig(sig) == SelectSeq(tables, LAMBDA t : firmware.at[t.addr].sig = sig)

\* Sdt::new.  acpid stops at a bad table, but not at a bad DSDT: that one, loaded last by
\* Fadt::init, is left out, and the FADT with it.
Check ==
    LET addr == load.addr
        is_dsdt == fadt # NoTable
        found == IF is_dsdt THEN <<>>
                 ELSE SelectSeq(Append(tables, load), LAMBDA t : firmware.at[t.addr].sig = "FACP")
    IN /\ pc = "copy" /\ load.left = 0
       /\ load' = NoLoad
       /\ IF ~Valid(addr)
          THEN /\ pc' = IF is_dsdt THEN "parse" ELSE "stopped"
               /\ fadt' = NoTable
               /\ UNCHANGED <<todo, tables, dsdt>>
          ELSE /\ tables' = Append(tables, [addr |-> addr, bytes |-> load.bytes])
               /\ IF is_dsdt
                  THEN pc' = "parse" /\ dsdt' = addr /\ UNCHANGED <<todo, fadt>>
                  ELSE IF Len(todo) > 1
                  THEN todo' = Tail(todo) /\ pc' = "map" /\ UNCHANGED <<fadt, dsdt>>
                  ELSE IF found = <<>>
                  THEN pc' = "stopped" /\ UNCHANGED <<todo, fadt, dsdt>>
                  ELSE /\ fadt' = found[1].addr
                       /\ todo' = <<firmware.at[found[1].addr].dsdt>>
                       /\ pc' = "map" /\ UNCHANGED dsdt
       /\ UNCHANGED <<firmware, namespace, page_cache, power>> /\ UNCHANGED schemeVars

-----------------------------------------------------------------------------
(* AML *)

Page(address) == address \div PageSize

\* AmlPageCache.  An access that is not aligned, or one that writes, since pages are mapped
\* read-only, stops acpid.
AmlAccess(x) ==
    /\ pc \in {"parse", "build"}
    /\ IF x.address % x.size # 0 \/ x.write
       THEN pc' = "stopped" /\ page_cache' = page_cache \cup {Page(x.address)}
       ELSE page_cache' = page_cache \cup {Page(x.address)} /\ UNCHANGED pc
    /\ UNCHANGED <<namespace, power>> /\ UNCHANGED tableVars /\ UNCHANGED schemeVars

AmlTables == (IF dsdt = NoTable THEN {} ELSE {dsdt}) \cup {WithSig("SSDT")[i].addr : i \in DOMAIN WithSig("SSDT")}

\* build_aml_context.  A table that does not parse is left out; the pages are unmapped.
Parse ==
    /\ pc = "parse"
    /\ \E parsed \in SUBSET AmlTables :
         namespace' = UNION {firmware.at[t].symbols : t \in parsed}
    /\ page_cache' = {}
    /\ pc' = "serve"
    /\ UNCHANGED power /\ UNCHANGED tableVars /\ UNCHANGED schemeVars

-----------------------------------------------------------------------------
(* The scheme *)

\* Handles that hold a read lock of the namespace.
Readers == {i \in DOMAIN handles : handles[i].kind = "symbols"}

IsDir(kind) == kind \in {"top", "tables", "symbols"}

\* The flags of xopen.
Flags == [dir : BOOLEAN, stat : BOOLEAN, write : BOOLEAN]

Refused(kind, flags) ==
    \/ ~flags.stat /\ IsDir(kind) /\ ~flags.dir
    \/ ~flags.stat /\ ~IsDir(kind) /\ flags.dir
    \/ ~flags.stat /\ flags.write

\* A handle is made, unless the flags do not fit.
Insert(kind, of, flags) ==
    /\ handles' = IF Refused(kind, flags) THEN handles
                  ELSE Append(handles, [fd |-> next_fd, kind |-> kind, of |-> of, stat |-> flags.stat])
    /\ next_fd' = IF Refused(kind, flags) THEN next_fd ELSE next_fd + 1

Listed == {firmware.at[tables[i].addr].name : i \in DOMAIN tables}

OpenPlain(kind, of, flags) ==
    /\ pc = "serve" /\ next_fd < MaxOpens
    /\ Insert(kind, of, flags)
    /\ UNCHANGED <<pc, namespace, page_cache, symbol_cache, asked, power>> /\ UNCHANGED tableVars

\* The rest of xopen: the directory of symbols, or one of them.
InsertSymbol(symbols, symbol, flags) ==
    IF symbol = "" THEN Insert("symbols", "", flags)
    ELSE IF symbol \in symbols THEN Insert("symbol", symbol, flags)
    ELSE UNCHANGED <<handles, next_fd>>

\* aml_symbols: the cache, if there is one, otherwise it is built under the write lock.  That
\* waits for the open directories, which only this thread could close.
AmlSymbols(symbol, flags) ==
    IF symbol_cache # {}
    THEN InsertSymbol(symbol_cache, symbol, flags) /\ UNCHANGED <<pc, asked>>
    ELSE /\ pc' = IF Readers = {} THEN "build" ELSE "blocked"
         /\ asked' = <<symbol, flags>>
         /\ UNCHANGED <<handles, next_fd>>

OpenSymbols(symbol, flags) ==
    /\ pc = "serve" /\ next_fd < MaxOpens
    /\ AmlSymbols(symbol, flags)
    /\ UNCHANGED <<namespace, page_cache, symbol_cache, power>> /\ UNCHANGED tableVars

\* build_cache, then the lock is downgraded and the open goes on.
BuildCache ==
    /\ pc = "build"
    /\ symbol_cache' = namespace
    /\ InsertSymbol(namespace, asked[1], asked[2])
    /\ pc' = "serve" /\ asked' = NoOpen
    /\ UNCHANGED <<namespace, page_cache, power>> /\ UNCHANGED tableVars

Close(i) ==
    /\ pc = "serve"
    /\ handles' = RemoveAt(handles, i)
    /\ UNCHANGED <<pc, namespace, page_cache, symbol_cache, asked, next_fd, power>> /\ UNCHANGED tableVars

\* read: up to n bytes of a table from an offset, of the first table with that name.
Read(h, offset, n) ==
    LET table == SelectSeq(tables, LAMBDA t : firmware.at[t.addr].name = h.of)[1].bytes
        from == Smaller(Len(table), offset)
    IN SubSeq(table, from + 1, from + Smaller(Len(table) - from, n))

\* getdents, from the first entry on.

GetDents(h) ==
    CASE h.kind = "top" -> {"tables", "symbols"}
      [] h.kind = "tables" -> Listed
      [] h.kind = "symbols" -> symbol_cache

\* The kernel's shutdown event ends the loop: set_global_s_state(5).
Shutdown ==
    /\ pc = "serve"
    /\ LET s5 == UNION {firmware.at[t].s5 : t \in AmlTables}
       IN IF fadt # NoTable /\ "_S5" \in namespace /\ s5 # {}
          THEN \E type \in s5 : power' = {13, type} /\ pc' = "off"
          ELSE pc' = "stopped" /\ UNCHANGED power
    /\ UNCHANGED <<namespace, page_cache>> /\ UNCHANGED tableVars /\ UNCHANGED schemeVars

Symbols == UNION {firmware.at[t].symbols : t \in DOMAIN firmware.at}

Next ==
    \/ MapHeader \/ Copy \/ Check \/ Parse \/ Shutdown
    \/ \E x \in AmlAddresses : AmlAccess(x)
    \/ \E flags \in Flags :
         \/ OpenPlain("top", "", flags) \/ OpenPlain("tables", "", flags)
         \/ \E name \in Listed : OpenPlain("table", name, flags)
         \/ \E s \in Symbols \cup {""} : OpenSymbols(s, flags)
    \/ BuildCache
    \/ \E i \in DOMAIN handles : Close(i)

-----------------------------------------------------------------------------
(* Properties *)

\* Every table is copied whole, whatever its place in its page and its length: its bytes are
\* those of memory from its address on, in order (load_from_physical).
TablesWhole ==
    \A i \in DOMAIN tables : tables[i].bytes = Bytes(tables[i].addr, firmware.at[tables[i].addr].length)

\* acpid does not wait for its own lock, unless the namespace is empty: only then does the
\* cache stay empty while a directory of symbols is open (aml_symbols).
NotBlocked == pc = "blocked" => namespace = {}

\* The files show what was loaded: a table read n bytes at a time is one of the tables with its
\* name, and an open directory of symbols lists the namespace, which nothing changes under its
\* lock (read, getdents, aml_symbols).
FilesWhole ==
    /\ \A i \in Readers : GetDents(handles[i]) = namespace
    /\ \A i \in DOMAIN handles : handles[i].kind = "table" /\ ~handles[i].stat =>
         \A n \in 1 .. PageSize :
            LET RECURSIVE From(_)
                From(offset) == LET part == Read(handles[i], offset, n)
                                IN IF part = <<>> THEN <<>> ELSE part \o From(offset + Len(part))
            IN \E t \in DOMAIN firmware.at : /\ firmware.at[t].name = handles[i].of
                                             /\ From(0) = Bytes(t, firmware.at[t].length)
=============================================================================
