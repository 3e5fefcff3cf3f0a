----------------------------- MODULE CodeBitmap -----------------------------
(* The analysis that tells instructions from the data of PUSH instructions    *)
(* (analysis.go), which validJumpdest asks before a jump.  The bit vector is  *)
(* the set of the positions whose bit is set; a write to one of its bytes     *)
(* that is an assignment in the code replaces the bits of that byte.  The     *)
(* code is read one instruction at a time, an unknown one at each step:       *)
(* Pushes holds the sizes of PUSH instructions, 0 stands for any other.       *)
EXTENDS Integers, FiniteSets

CONSTANTS MaxLen, MaxPushes, Pushes

VARIABLES
    len,      \* len(code)
    pc,
    numbits,  \* data bytes of the current PUSH not marked yet
    bits,
    inRange,  \* every write was to a byte of the vector
    pushes,   \* PUSH instructions read so far
    data      \* history: the positions that are data of a PUSH

vars == <<len, pc, numbits, bits, inRange, pushes, data>>

Byte(k) == (8 * k)..(8 * k + 7)

\* The n bits from pos on, as a value shifted into the byte at pos and the ones after it.
Flags(n, pos) == pos..(pos + n - 1)

bytesOfVector == len \div 8 + 1 + 4

Write(newBits, lastByte) ==
    /\ bits' = newBits
    /\ inRange' = (inRange /\ lastByte < bytesOfVector)

set1(pos) == Write(bits \cup {pos}, pos \div 8)

setN(n, pos) ==
    LET k == pos \div 8
        b == Flags(n, pos) \cap Byte(k + 1)
    IN  IF b = {} THEN Write(bits \cup Flags(n, pos), k)
                  ELSE Write((bits \ Byte(k + 1)) \cup Flags(n, pos), k + 1)

set8_bug(pos) ==
    LET k == pos \div 8 IN Write((bits \ Byte(k)) \cup Flags(8, pos), k + 1)

set8(pos) ==
    LET k == pos \div 8 IN Write((bits \ Byte(k + 1)) \cup Flags(8, pos), k + 1)

set16(pos) ==
    LET k == pos \div 8 IN Write((bits \ (Byte(k + 1) \cup Byte(k + 2))) \cup Flags(16, pos), k + 2)

codeSegment(pos) == pos \notin bits

----------------------------------------------------------------------------
Init ==
    /\ len \in (MaxLen - 7)..MaxLen
    /\ pc = 0 /\ numbits = 0 /\ pushes = 0
    /\ bits = {} /\ data = {} /\ inRange = TRUE

ReadOp ==
    /\ numbits = 0
    /\ pc < len
    /\ \E n \in {0} \cup (IF pushes < MaxPushes THEN Pushes ELSE {}) :
        /\ numbits' = n
        /\ pushes' = IF n = 0 THEN pushes ELSE pushes + 1
        /\ data' = data \cup Flags(n, pc + 1)
    /\ pc' = pc + 1
    /\ UNCHANGED <<len, bits, inRange>>

Mark(n) == pc' = pc + n /\ numbits' = numbits - n /\ UNCHANGED <<len, pushes, data>>

Mark16 == numbits >= 16 /\ set16(pc) /\ Mark(16)
Mark8  == numbits \in 8..15 /\ set8(pc) /\ Mark(8)
MarkN  == numbits \in 2..7 /\ setN(numbits, pc) /\ Mark(numbits)
Mark1  == numbits = 1 /\ set1(pc) /\ Mark(1)

Next == ReadOp \/ Mark16 \/ Mark8 \/ MarkN \/ Mark1

Spec == Init /\ [][Next]_vars

----------------------------------------------------------------------------
\* After every instruction the marked positions are exactly the data of the
\* PUSH instructions so far: the plain assignments to following bytes in setN,
\* set8 and set16 lose no earlier mark, and no instruction is taken for data,
\* so isCode gives the same answer as a walk over the code.
MarksDataOnly ==
    numbits = 0 => /\ bits = data
                   /\ \A p \in 0..(len - 1) : codeSegment(p) <=> p \notin data

\* No write falls outside the vector, not even for a PUSH32 that is the last
\* byte of the code: the four spare bytes of codeBitmap are enough.
WritesInRange == inRange
=============================================================================
