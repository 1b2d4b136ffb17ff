------------------------------ MODULE KString ------------------------------
(***************************************************************************)
(* The memory and string functions of lib/kstdlib.c, on a memory of a few  *)
(* bytes where strings and copies may overlap.  A call is one step; its    *)
(* loop runs byte by byte inside it.                                       *)
(***************************************************************************)
EXTENDS Integers, FiniteSetsExt

CONSTANTS MemSize,    \* addresses 0 .. MemSize - 1
          Byte        \* values of a byte, 0 and others

\* Assumed by the modules that give the constants their values.
KStringAssumption == MemSize \in Nat \ {0} /\ 0 \in Byte /\ Byte \subseteq Nat

Addr == 0 .. MemSize - 1

VARIABLES mem,
          call,     \* the call made and its arguments, or NoCall
          result    \* what it returned, if it returns an int
vars == <<mem, call, result>>

NoCall == [name |-> "none"]

Init == /\ mem \in [Addr -> Byte]
        /\ call = NoCall /\ result = 0

\* The i a loop `while (Goes(i)) i++' leaves behind.
FirstNot(Goes(_)) == CHOOSE i \in 0 .. MemSize :
                       ~Goes(i) /\ \A j \in 0 .. i - 1 : Goes(j)
\* A string ends before the memory does.
IsString(a) == \E i \in a .. MemSize - 1 : mem[i] = 0
Length(m, a) == Min({i \in Addr : a + i \in Addr /\ m[a + i] = 0})
-----------------------------------------------------------------------------
\* kmemset
Filled(ptr, c, n) == [i \in Addr |-> IF i \in ptr .. ptr + n - 1 THEN c ELSE mem[i]]

\* Mutant of kmemcpy: from the last byte to the first.
CopiedBackwards(dest, src, n) ==
  LET copy[i \in 0 .. n] ==
        IF i = 0 THEN mem
        ELSE [copy[i - 1] EXCEPT ![dest + n - i] = copy[i - 1][src + n - i]]
  IN copy[n]

\* kmemcpy: from the first byte to the last.
Copied(dest, src, n) ==
  LET copy[i \in 0 .. n] ==
        IF i = 0 THEN mem
        ELSE [copy[i - 1] EXCEPT ![dest + i - 1] = copy[i - 1][src + i - 1]]
  IN copy[n]

\* kstrncpy, between strings that do not overlap: the terminator comes after
\* the n characters.
StringCopied(dest, src, n) ==
  LET end == FirstNot(LAMBDA i : i < n /\ mem[src + i] # 0)
  IN [Copied(dest, src, end) EXCEPT ![dest + end] = 0]

\* kstrcmp
Compared(a, b) ==
  LET i == FirstNot(LAMBDA j : mem[a + j] # 0 /\ mem[b + j] # 0
                                 /\ mem[a + j] = mem[b + j])
  IN mem[a + i] - mem[b + i]

\* kstrncmp: after n equal characters the next one is compared as well.
ComparedN(a, b, n) ==
  LET i == FirstNot(LAMBDA j : mem[a + j] # 0 /\ mem[b + j] # 0
                                 /\ mem[a + j] = mem[b + j] /\ j < n)
  IN mem[a + i] - mem[b + i]

\* One call: whatever memory earlier calls could leave is an initial one.
Called(name, x, y, n) ==
  /\ call = NoCall
  /\ call' = [name |-> name, x |-> x, y |-> y, n |-> n]

Kmemset(ptr, c, n) == /\ Called("kmemset", ptr, c, n)
                      /\ mem' = Filled(ptr, c, n) /\ UNCHANGED result
Kmemcpy(dest, src, n) == /\ Called("kmemcpy", dest, src, n)
                         /\ mem' = Copied(dest, src, n) /\ UNCHANGED result
\* The room the caller must have for n characters is n + 1 bytes.
Kstrncpy(dest, src, n) ==
  /\ IsString(src)
  /\ dest + n < src \/ src + n < dest
  /\ Called("kstrncpy", dest, src, n)
  /\ mem' = StringCopied(dest, src, n) /\ UNCHANGED result
Kstrcmp(a, b) == /\ IsString(a) /\ IsString(b)
                 /\ Called("kstrcmp", a, b, 0)
                 /\ result' = Compared(a, b) /\ UNCHANGED mem
Kstrncmp(a, b, n) == /\ IsString(a) /\ IsString(b)
                     /\ Called("kstrncmp", a, b, n)
                     /\ result' = ComparedN(a, b, n) /\ UNCHANGED mem

Next ==
  \E x, y \in Addr :
    \/ \E n \in 0 .. MemSize - x, c \in Byte : y = 0 /\ Kmemset(x, c, n)
    \/ \E n \in 0 .. MemSize - Max({x, y}) : Kmemcpy(x, y, n)
    \/ \E n \in 0 .. MemSize - 1 - Max({x, y}) : Kstrncpy(x, y, n)
    \/ Kstrcmp(x, y)
    \/ \E n \in 0 .. MemSize : Kstrncmp(x, y, n)

Spec == Init /\ [][Next]_vars
-----------------------------------------------------------------------------
\* The strings at a and b agree in their first n characters, or up to the end
\* of both.
Agree(m, a, b, n) ==
  \A i \in 0 .. n - 1 :
    (\A j \in 0 .. i - 1 : m[a + j] = m[b + j] /\ m[a + j] # 0)
      => m[a + i] = m[b + i]

\* What each function leaves in memory and returns: kmemcpy the source as it
\* was, also between areas that overlap as long as the destination is the
\* lower one; kstrncpy a terminated string, in n + 1 bytes at most; kstrcmp 0
\* just for equal strings, and kstrncmp just for strings that agree in n + 1
\* characters, one more than its name and its argument promise.  No function
\* changes any other byte.
CallKept ==
  LET x == call'.x
      y == call'.y
      n == call'.n
      Kept(area) == \A i \in Addr \ area : mem'[i] = mem[i]
  IN CASE call'.name = "kmemset" ->
            (\A i \in x .. x + n - 1 : mem'[i] = y) /\ Kept(x .. x + n - 1)
       [] call'.name = "kmemcpy" ->
            /\ x <= y \/ y + n <= x
                 => \A i \in 0 .. n - 1 : mem'[x + i] = mem[y + i]
            /\ Kept(x .. x + n - 1)
       [] call'.name = "kstrncpy" ->
            /\ Length(mem', x) = Min({n, Length(mem, y)})
            /\ \A i \in 0 .. Length(mem', x) - 1 : mem'[x + i] = mem[y + i]
            /\ Kept(x .. x + n)
       [] call'.name = "kstrcmp" ->
            result' = 0 <=> \A n1 \in 0 .. MemSize - Max({x, y}) : Agree(mem, x, y, n1)
       [] call'.name = "kstrncmp" ->
            result' = 0 <=> \A n1 \in 0 .. Min({n + 1, MemSize - Max({x, y})}) :
                              Agree(mem, x, y, n1)
       [] OTHER -> FALSE
CallsKept == [][CallKept]_vars
=============================================================================
