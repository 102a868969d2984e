----------------------------- MODULE CfgAccess -----------------------------
(***************************************************************************)
(* pcid's access to the configuration registers, by its main thread and its *)
(* handler threads: memory mapped where a bus has an allocation, otherwise  *)
(* over the address and data ports, which need two accesses.                *)
(***************************************************************************)
EXTENDS Integers, SequencesExt

CONSTANTS
    Tables,        \* the allocations that the firmware lists, [seg, start, end, maps] in any order;
                   \*   the empty one when there is neither MCFG nor device tree
    Accesses,      \* the registers accessed, [bus, dev, func, offset]
    Threads,
    MaxAccesses    \* bound on the accesses of a thread

VARIABLES allocs, lock, port, thread

vars == <<allocs, lock, port, thread>>

Nowhere == [bus |-> -1, dev |-> 0, func |-> 0, offset |-> 0]

\* from_allocs: what could be mapped, in the order of the segments and buses.
FromAllocs(table) ==
    SortSeq(SelectSeq(table, LAMBDA desc : desc.maps),
            LAMBDA x, y : x.seg < y.seg \/ (x.seg = y.seg /\ x.start < y.start))

\* Pcie::new
Init ==
    /\ \E table \in Tables : allocs = FromAllocs(table)
    /\ lock = "free"
    /\ port = [enable |-> FALSE, low |-> 0]
    /\ thread = [t \in Threads |-> [pc |-> "idle", access |-> Nowhere, touched |-> Nowhere, iopl |-> FALSE,
                                    count |-> 0]]

-----------------------------------------------------------------------------
(* Where a register is *)

\* binary_search_by_key in segment 0: [found, index], from 1; the insertion point otherwise.
Search(bus) ==
    LET RECURSIVE Between(_, _)
        Between(lo, hi) ==
            LET mid == (lo + hi) \div 2
            IN IF lo = hi THEN [found |-> FALSE, index |-> lo]
               ELSE IF allocs[mid].seg = 0 /\ allocs[mid].start = bus THEN [found |-> TRUE, index |-> mid]
               ELSE IF allocs[mid].seg = 0 /\ allocs[mid].start < bus THEN Between(mid + 1, hi)
               ELSE Between(lo, mid)
    IN Between(1, Len(allocs) + 1)

\* bus_addr: the allocation of a bus, 0 for none.
AllocOf(bus) ==
    LET s == Search(bus)
    IN CASE s.found -> s.index
         [] ~s.found /\ s.index = 1 -> 0
         [] OTHER -> IF bus > allocs[s.index - 1].end THEN 0 ELSE s.index - 1

BytesPerBus == 2^20

\* bus_addr and bus_addr_offset_in_dwords: the byte in the memory of allocation k.
MmioAddr(k, x) == (x.bus - allocs[k].start) * BytesPerBus + x.dev * 2^15 + x.func * 2^12 + x.offset

\* The register that the host bridge finds at a byte of the allocation, and for a port address.
MmioRegister(k, byte) == [bus |-> allocs[k].start + (byte \div BytesPerBus),
                          dev |-> (byte \div 2^15) % 32, func |-> (byte \div 2^12) % 8,
                          offset |-> byte % 4096]
PortRegister(p) == [bus |-> p.low \div 2^16, dev |-> (p.low \div 2^11) % 32,
                    func |-> (p.low \div 2^8) % 8, offset |-> p.low % 2^8]

PortAddress(x) == [enable |-> TRUE, low |-> x.bus * 2^16 + x.dev * 2^11 + x.func * 2^8 + x.offset]

-----------------------------------------------------------------------------
(* read and write: they differ only in what the last access does *)

Call(t, x) ==
    /\ thread[t].pc = "idle" /\ thread[t].count < MaxAccesses
    /\ thread' = [thread EXCEPT ![t].pc = "lock", ![t].access = x, ![t].touched = Nowhere,
                                ![t].count = @ + 1]
    /\ UNCHANGED <<allocs, lock, port>>

\* A thread that panicked with the lock makes it unusable: unwrap panics as well.
Lock(t) ==
    /\ thread[t].pc = "lock"
    /\ \/ lock = "free" /\ lock' = t /\ thread' = [thread EXCEPT ![t].pc = "find"]
       \/ lock = "poisoned" /\ thread' = [thread EXCEPT ![t].pc = "dead"] /\ UNCHANGED lock
    /\ UNCHANGED <<allocs, port>>

\* A byte offset or one beyond the register space stops the thread.
Panics(x, k) == x.offset % 4 # 0 \/ x.offset > 4095 \/ (k = 0 /\ x.offset > 255)

Find(t) ==
    LET x == thread[t].access
        k == AllocOf(x.bus)
    IN /\ thread[t].pc = "find"
       /\ IF Panics(x, k)
          THEN thread' = [thread EXCEPT ![t].pc = "dead"] /\ lock' = "poisoned"
          ELSE /\ thread' = [thread EXCEPT
                      ![t].pc = IF k = 0 THEN "address" ELSE "unlock",
                      ![t].touched = IF k = 0 THEN @ ELSE MmioRegister(k, MmioAddr(k, x)),
                      ![t].iopl = @ \/ k = 0]
               /\ UNCHANGED lock
       /\ UNCHANGED <<allocs, port>>

WriteAddress(t) ==
    /\ thread[t].pc = "address"
    /\ port' = PortAddress(thread[t].access)
    /\ thread' = [thread EXCEPT ![t].pc = "data"]
    /\ UNCHANGED <<allocs, lock>>

AccessData(t) ==
    /\ thread[t].pc = "data" /\ port.enable
    /\ thread' = [thread EXCEPT ![t].pc = "unlock", ![t].touched = PortRegister(port)]
    /\ UNCHANGED <<allocs, lock, port>>

Unlock(t) ==
    /\ thread[t].pc = "unlock"
    /\ lock' = "free"
    /\ thread' = [thread EXCEPT ![t].pc = "idle"]
    /\ UNCHANGED <<allocs, port>>

Next == \E t \in Threads : \/ \E x \in Accesses : Call(t, x)
                           \/ Lock(t) \/ Find(t) \/ WriteAddress(t) \/ AccessData(t) \/ Unlock(t)

-----------------------------------------------------------------------------
(* Properties *)

\* Every access reaches the register it was made for, whatever the other threads do: the
\* allocation found is the one that has the bus, and the address port is the thread's own when
\* it uses the data port (bus_addr, read, write).  A bus that has an allocation is not accessed
\* over the ports.
OwnRegister ==
    \A t \in Threads :
        /\ thread[t].pc = "unlock" => thread[t].touched = thread[t].access
        /\ thread[t].pc \in {"address", "data"} =>
             \A k \in DOMAIN allocs : ~(/\ allocs[k].seg = 0
                                        /\ thread[t].access.bus \in allocs[k].start .. allocs[k].end)
=============================================================================
