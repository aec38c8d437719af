-------------------------- MODULE VpnRoutesProofs ---------------------------
(***************************************************************************)
(* Proofs that the CIDR subtraction of VpnManager.java is exact, for every *)
(* address width and any exclusions.  The recursion of splitExcluding is a *)
(* list of pending children in VpnRoutes, so that no induction over its    *)
(* depth is needed but the invariant of its loop.                          *)
(***************************************************************************)
EXTENDS VpnRoutes, WellFoundedInduction, SequenceTheorems, TLAPS

-----------------------------------------------------------------------------
(* Powers of two. *)

LEMMA LeastExists ==
  ASSUME NEW S \in SUBSET Nat, S # {}
  PROVE  \E m \in S : \A n \in S : m <= n
<1>1. PICK m \in S : \A n \in S : <<n, m>> \notin OpToRel(<, Nat)
  BY WFMin, NatLessThanWellFounded
<1>2. \A n \in S : ~(n < m)
  BY <1>1 DEF OpToRel
<1> QED BY <1>2

\* The first n + 1 powers.
Powers(n) == {f \in [0..n -> Nat] : f[0] = 1 /\ \A k \in 1..n : f[k] = 2 * f[k - 1]}

LEMMA PowersExist == \A n \in Nat : Powers(n) # {}
<1> DEFINE S == {n \in Nat : Powers(n) = {}}
<1> SUFFICES ASSUME S # {} PROVE FALSE
  OBVIOUS
<1>1. PICK m \in S : \A n \in S : m <= n
  BY LeastExists
<1>2. m # 0
  <2>1. [k \in 0..0 |-> 1] \in Powers(0)
    BY DEF Powers
  <2> QED BY <2>1
<1>3. PICK f \in Powers(m - 1) : TRUE
  BY <1>1, <1>2
<1>4. f \in [0..(m - 1) -> Nat] /\ f[0] = 1 /\ \A k \in 1..(m - 1) : f[k] = 2 * f[k - 1]
  BY <1>3 DEF Powers
<1> DEFINE g == [k \in 0..m |-> IF k = m THEN 2 * f[m - 1] ELSE f[k]]
<1>5. g \in [0..m -> Nat]
  <2>1. f[m - 1] \in Nat
    BY <1>2, <1>4
  <2>2. \A k \in 0..m : k # m => f[k] \in Nat
    BY <1>4
  <2> QED BY <2>1, <2>2
<1>6. g[0] = 1 /\ \A k \in 1..m : g[k] = 2 * g[k - 1]
  BY <1>2, <1>4
<1>7. g \in Powers(m)
  BY <1>5, <1>6 DEF Powers
<1> QED BY <1>7

LEMMA PowersAgree ==
  ASSUME NEW m \in Nat, NEW n \in Nat, NEW f \in Powers(m), NEW g \in Powers(n)
  PROVE  \A k \in Nat : k <= m /\ k <= n => f[k] = g[k]
<1> DEFINE S == {k \in Nat : k <= m /\ k <= n /\ f[k] # g[k]}
<1> SUFFICES ASSUME S # {} PROVE FALSE
  OBVIOUS
<1>1. PICK k \in S : \A j \in S : k <= j
  BY LeastExists
<1>2. f[0] = g[0]
  BY DEF Powers
<1>3. k # 0
  BY <1>2
<1>4. k - 1 \in Nat /\ k - 1 <= m /\ k - 1 <= n /\ k - 1 \notin S
  BY <1>1, <1>3
<1>5. f[k - 1] = g[k - 1]
  BY <1>4
<1>6. f[k] = 2 * f[k - 1] /\ g[k] = 2 * g[k - 1]
  BY <1>3 DEF Powers
<1> QED BY <1>5, <1>6

\* 1L << n doubles with n.
LEMMA ShlDef ==
  /\ Shl[0] = 1
  /\ \A n \in Nat : Shl[n + 1] = 2 * Shl[n]
  /\ \A n \in Nat : Shl[n] \in Nat \ {0}
<1> DEFINE F == [n \in Nat |-> (CHOOSE f \in Powers(n) : TRUE)[n]]
<1>1. \A n \in Nat : (CHOOSE f \in Powers(n) : TRUE) \in Powers(n)
  BY PowersExist
<1>2. F[0] = 1
  BY <1>1 DEF Powers
<1>4. \A n \in Nat : n # 0 => F[n] = 2 * F[n - 1]
  <2> SUFFICES ASSUME NEW n \in Nat, n # 0 PROVE F[n] = 2 * F[n - 1]
    OBVIOUS
  <2> DEFINE f == CHOOSE h \in Powers(n) : TRUE
             g == CHOOSE h \in Powers(n - 1) : TRUE
  <2>1. f \in Powers(n) /\ g \in Powers(n - 1) /\ n - 1 \in Nat
    BY <1>1
  <2> HIDE DEF f, g
  <2>2. f[n] = 2 * f[n - 1]
    BY <2>1 DEF Powers
  <2>3. f[n - 1] = g[n - 1]
    BY <2>1, PowersAgree
  <2>4. F[n] = f[n] /\ F[n - 1] = g[n - 1]
    BY <2>1 DEF f, g
  <2> QED BY <2>2, <2>3, <2>4
<1>5. F = [n \in Nat |-> IF n = 0 THEN 1 ELSE 2 * F[n - 1]]
  <2> DEFINE G == [n \in Nat |-> IF n = 0 THEN 1 ELSE 2 * F[n - 1]]
  <2>1. \A n \in Nat : F[n] = G[n]
    BY <1>2, <1>4
  <2>2. F = [n \in Nat |-> F[n]] /\ G = [n \in Nat |-> G[n]]
    OBVIOUS
  <2> HIDE DEF F, G
  <2>3. F = G
    BY <2>1, <2>2
  <2> QED BY <2>3 DEF G
<1> HIDE DEF F
<1>6. Shl = [n \in Nat |-> IF n = 0 THEN 1 ELSE 2 * Shl[n - 1]]
  BY <1>5 DEF Shl
<1> HIDE DEF Shl
<1>7. Shl[0] = 1 /\ \A n \in Nat : n # 0 => Shl[n] = 2 * Shl[n - 1]
  BY <1>6
<1>8. \A n \in Nat : Shl[n + 1] = 2 * Shl[n]
  BY <1>7
<1>9. \A n \in Nat : Shl[n] \in Nat \ {0}
  <2> DEFINE S == {n \in Nat : Shl[n] \notin Nat \ {0}}
  <2> SUFFICES ASSUME S # {} PROVE FALSE
    OBVIOUS
  <2>1. PICK m \in S : \A n \in S : m <= n
    BY LeastExists
  <2>2. m # 0 /\ m - 1 \in Nat /\ m - 1 \notin S
    BY <2>1, <1>7
  <2>3. Shl[m] = 2 * Shl[m - 1] /\ Shl[m - 1] \in Nat \ {0}
    BY <2>2, <1>7
  <2> QED BY <2>3
<1> QED BY <1>7, <1>8, <1>9

\* The sizes of blocks: a block has twice the size of its children.
LEMMA Sizes ==
  /\ \A p \in PrefixLengths : Shl[Width - p] \in Nat \ {0}
  /\ \A p \in PrefixLengths : p < Width =>
       p + 1 \in PrefixLengths /\ Shl[Width - p] = 2 * Shl[Width - (p + 1)]
  /\ \A p \in PrefixLengths : p = Width => Shl[Width - p] = 1
  /\ 0 \in PrefixLengths /\ Shl[Width - 0] = Shl[Width]
  /\ Shl[Width] \in Nat \ {0} /\ 0 \in Addresses
<1>1. Width \in Nat
  BY WidthAssumption
<1>2. \A p \in PrefixLengths : Width - p \in Nat
  BY <1>1 DEF PrefixLengths
<1>3. \A p \in PrefixLengths : p < Width =>
        /\ p + 1 \in PrefixLengths
        /\ Width - (p + 1) \in Nat /\ Width - p = (Width - (p + 1)) + 1
  BY <1>1 DEF PrefixLengths
<1>4. Width - 0 = Width /\ Width - Width = 0 /\ 0 \in PrefixLengths
  BY <1>1 DEF PrefixLengths
<1>5. Shl[Width] \in Nat \ {0}
  BY <1>1, ShlDef
<1>6. 0 \in Addresses
  BY <1>5 DEF Addresses
<1> QED BY <1>2, <1>3, <1>4, <1>5, <1>6, ShlDef

LEMMA DivMod ==
  ASSUME NEW x \in Nat, NEW d \in Nat \ {0}
  PROVE  /\ x % d \in 0..(d - 1) /\ x \div d \in Nat
         /\ x = d * (x \div d) + (x % d)
  OBVIOUS

LEMMA ModUnique ==
  ASSUME NEW q \in Nat, NEW d \in Nat \ {0}, NEW r \in 0..(d - 1)
  PROVE  (d * q + r) % d = r /\ (d * q + r) \div d = q
  OBVIOUS

\* The address space is a whole number of blocks of each size.
LEMMA WholeBlocks ==
  ASSUME NEW m \in Nat
  PROVE  \A n \in Nat : m <= n => \E q \in Nat : Shl[n] = Shl[m] * q
<1> DEFINE S == {n \in Nat : m <= n /\ \A q \in Nat : Shl[n] # Shl[m] * q}
<1> SUFFICES ASSUME S # {} PROVE FALSE
  OBVIOUS
<1>1. PICK n \in S : \A k \in S : n <= k
  BY LeastExists
<1>2. Shl[m] \in Nat
  BY ShlDef
<1>3. n # m
  <2>1. Shl[m] = Shl[m] * 1
    BY <1>2
  <2> QED BY <2>1
<1>4. n - 1 \in Nat /\ m <= n - 1 /\ n - 1 \notin S /\ n = (n - 1) + 1
  BY <1>1, <1>3
<1>5. PICK q \in Nat : Shl[n - 1] = Shl[m] * q
  BY <1>4
<1>6. Shl[n] = 2 * Shl[n - 1]
  BY <1>4, ShlDef
<1>7. Shl[n] = Shl[m] * (2 * q) /\ 2 * q \in Nat
  BY <1>2, <1>5, <1>6
<1> QED BY <1>7

\* A range that begins in the address space ends there.
LEMMA MaskedInside ==
  ASSUME NEW ip \in Addresses, NEW p \in PrefixLengths
  PROVE  Start(ip, p) \in Addresses /\ End(ip, p) \in Addresses /\ Start(ip, p) <= End(ip, p)
<1> DEFINE s == Shl[Width - p]
           k == ip \div s
<1>1. Width \in Nat /\ Width - p \in Nat /\ Width - p <= Width
  BY WidthAssumption DEF PrefixLengths
<1>2. PICK q \in Nat : Shl[Width] = s * q
  BY <1>1, WholeBlocks
<1>3. s \in Nat \ {0} /\ ip \in Nat /\ ip < Shl[Width] /\ Shl[Width] \in Nat
  BY Sizes DEF Addresses
<1>4. k \in Nat /\ ip % s \in 0..(s - 1) /\ ip = s * k + (ip % s)
  BY <1>3, DivMod
<1>5. Start(ip, p) = ip - (ip % s) /\ End(ip, p) = Start(ip, p) + s - 1
  BY DEF Start, End
<1> HIDE DEF s, k
<1>6. s * k \in Nat /\ s * k < s * q
  BY <1>2, <1>3, <1>4
<1>7. k < q
  BY <1>2, <1>3, <1>4, <1>6
<1>8. s * (k + 1) <= s * q /\ s * (k + 1) = s * k + s
  BY <1>2, <1>3, <1>4, <1>7
<1>9. Start(ip, p) = s * k
  BY <1>3, <1>4, <1>5, <1>6
<1> QED BY <1>2, <1>3, <1>5, <1>6, <1>8, <1>9 DEF Addresses

\* The addresses with the same prefix as x are the ones from x masked on.
LEMMA SamePrefix ==
  ASSUME NEW x \in Nat, NEW d \in Nat \ {0}, NEW a \in Nat
  PROVE  a \div d = x \div d <=> x - (x % d) <= a /\ a <= x - (x % d) + d - 1
<1> DEFINE q == x \div d
<1>1. q \in Nat /\ x - (x % d) = d * q /\ d * q \in Nat
  BY DivMod
<1>2. ASSUME a \div d = q PROVE d * q <= a /\ a <= d * q + d - 1
  <2>1. a % d \in 0..(d - 1) /\ a = d * q + (a % d)
    BY <1>2, DivMod
  <2> HIDE DEF q
  <2> QED BY <1>1, <2>1
<1>3. ASSUME d * q <= a, a <= d * q + d - 1 PROVE a \div d = q
  <2> DEFINE r == a - d * q
  <2>1. r \in 0..(d - 1) /\ a = d * q + r
    BY <1>1, <1>3
  <2> HIDE DEF r, q
  <2>2. (d * q + r) \div d = q
    BY <1>1, <2>1, ModUnique
  <2> QED BY <2>1, <2>2
<1> QED BY <1>1, <1>2, <1>3

\* A block aligned to 2d has halves aligned to d, and the second half is
\* masked to the block.
LEMMA HalvesAligned ==
  ASSUME NEW x \in Nat, NEW d \in Nat \ {0}, x % (2 * d) = 0
  PROVE  x % d = 0 /\ (x + d) % d = 0 /\ (x + d) % (2 * d) = d
<1> DEFINE D == 2 * d
           q == x \div D
<1>1. 2 * d \in Nat \ {0} /\ d \in 0..(2 * d - 1) /\ 0 \in 0..(d - 1)
  OBVIOUS
<1>2. q \in Nat /\ x = (2 * d) * q
  <2>1. D \in Nat \ {0} /\ x % D = 0
    OBVIOUS
  <2> HIDE DEF D
  <2>2. q \in Nat /\ x = D * q + (x % D)
    BY <2>1, DivMod
  <2> HIDE DEF q
  <2>3. x = D * q
    BY <2>1, <2>2
  <2> QED BY <2>2, <2>3 DEF D
<1> HIDE DEF q
<1>3. x = d * (2 * q) + 0 /\ 2 * q \in Nat
  BY <1>2
<1>4. x + d = d * (2 * q + 1) + 0 /\ 2 * q + 1 \in Nat
  BY <1>2
<1>5. x + d = (2 * d) * q + d
  BY <1>2
<1>6. x % d = 0
  BY <1>1, <1>3, ModUnique
<1>7. (x + d) % d = 0
  BY <1>1, <1>4, ModUnique
<1>8. (x + d) % (2 * d) = d
  BY <1>1, <1>2, <1>5, ModUnique
<1> QED BY <1>6, <1>7, <1>8

-----------------------------------------------------------------------------
(* The invariant of the loops. *)

LastOf(b) == b.start + Shl[Width - b.prefix] - 1

\* A block within the address space, with no host bit set.
Fits(b) ==
  /\ b \in Blocks
  /\ b.start % Shl[Width - b.prefix] = 0
  /\ LastOf(b) \in Addresses

Before(b, c) == LastOf(b) < c.start

Ahead(S, T) == \A b \in S, c \in T : Before(b, c)

Sorted(s) == \A i, j \in DOMAIN s : i < j => Before(s[i], s[j])

\* b and c are the halves of one block, or the same.
Halves(b, c) ==
  /\ b.prefix = c.prefix /\ b.prefix > 0
  /\ Start(b.start, b.prefix - 1) = Start(c.start, c.prefix - 1)

\* The address a is in one of the blocks S.
In(a, S) == \E b \in S : b.start <= a /\ a <= LastOf(b)

\* The blocks of a list.
BlocksOf(s) == {s[i] : i \in DOMAIN s}

\* Where R are the blocks of the result, P the pending children and Q the
\* routes not looked at: all of them fit, what is kept is apart from the range
\* and ahead of the rest, together with what is not looked at it is all that is
\* to be routed, and of two halves one is pending and will not be kept.
RoundInv(R, P, Q) ==
  /\ \A b \in R \cup P \cup Q : Fits(b)
  /\ Ahead(R, P) /\ Ahead(R, Q) /\ Ahead(P, Q)
  /\ \A b \in R : Apart(b.start, LastOf(b))
  /\ \A a \in Addresses :
       a \notin excluded <=> \/ In(a, R)
                             \/ (busy => a \notin from..to) /\ (In(a, P) \/ In(a, Q))
  /\ \A b, c \in R \cup P \cup Q :
       b # c /\ Halves(b, c) => \E d \in {b, c} \cap P : ~Apart(d.start, LastOf(d))

IInv ==
  /\ TypeOK
  /\ ~busy => result = << >> /\ pending = << >>
  /\ from <= to
  /\ Sorted(result) /\ Sorted(pending) /\ Sorted(routes)
  /\ RoundInv(BlocksOf(result), BlocksOf(pending), BlocksOf(routes))

-----------------------------------------------------------------------------
(* Lists of blocks. *)

LEMMA HeadAndTail ==
  ASSUME NEW s \in Seq(Blocks), s # << >>, Sorted(s)
  PROVE  /\ Head(s) \in Blocks /\ Tail(s) \in Seq(Blocks)
         /\ BlocksOf(s) = {Head(s)} \cup BlocksOf(Tail(s))
         /\ Sorted(Tail(s)) /\ Ahead({Head(s)}, BlocksOf(Tail(s)))
<1>1. /\ Head(s) = s[1] /\ Head(s) \in Blocks /\ Tail(s) \in Seq(Blocks)
      /\ Len(s) \in Nat \ {0} /\ DOMAIN s = 1..Len(s) /\ DOMAIN Tail(s) = 1..(Len(s) - 1)
      /\ \A i \in 1..(Len(s) - 1) : Tail(s)[i] = s[i + 1]
  OBVIOUS
<1> DEFINE t == Tail(s)
<1> HIDE DEF t
<1>2. BlocksOf(s) = {s[1]} \cup BlocksOf(t)
  <2>1. ASSUME NEW i \in DOMAIN s, i # 1 PROVE i - 1 \in DOMAIN t /\ s[i] = t[i - 1]
    <3>1. i - 1 \in 1..(Len(s) - 1) /\ (i - 1) + 1 = i
      BY <1>1, <2>1
    <3>2. t[i - 1] = s[(i - 1) + 1]
      BY <1>1, <3>1 DEF t
    <3> QED BY <1>1, <3>1, <3>2 DEF t
  <2>2. \A i \in DOMAIN t : i + 1 \in DOMAIN s /\ t[i] = s[i + 1]
    BY <1>1 DEF t
  <2>3. 1 \in DOMAIN s
    BY <1>1
  <2> QED BY <2>1, <2>2, <2>3 DEF BlocksOf
<1>3. Sorted(t)
  <2> SUFFICES ASSUME NEW i \in DOMAIN t, NEW j \in DOMAIN t, i < j
               PROVE  Before(t[i], t[j])
    BY DEF Sorted
  <2>1. i + 1 \in DOMAIN s /\ j + 1 \in DOMAIN s /\ i + 1 < j + 1
    BY <1>1 DEF t
  <2>2. t[i] = s[i + 1] /\ t[j] = s[j + 1]
    BY <1>1 DEF t
  <2> QED BY <2>1, <2>2 DEF Sorted
<1>4. Ahead({s[1]}, BlocksOf(t))
  <2> SUFFICES ASSUME NEW i \in DOMAIN t PROVE Before(s[1], t[i])
    BY DEF Ahead, BlocksOf
  <2>1. 1 \in DOMAIN s /\ i + 1 \in DOMAIN s /\ 1 < i + 1 /\ t[i] = s[i + 1]
    BY <1>1 DEF t
  <2> QED BY <2>1 DEF Sorted
<1> QED BY <1>1, <1>2, <1>3, <1>4 DEF t

LEMMA Appended ==
  ASSUME NEW s \in Seq(Blocks), NEW b \in Blocks, Sorted(s), Ahead(BlocksOf(s), {b})
  PROVE  /\ Append(s, b) \in Seq(Blocks)
         /\ BlocksOf(Append(s, b)) = BlocksOf(s) \cup {b}
         /\ Sorted(Append(s, b))
<1> DEFINE t == Append(s, b)
           n == Len(s) + 1
<1>1. /\ t \in Seq(Blocks) /\ Len(s) \in Nat /\ DOMAIN s = 1..Len(s) /\ DOMAIN t = 1..n
      /\ t[n] = b /\ \A i \in DOMAIN s : t[i] = s[i]
  OBVIOUS
<1> HIDE DEF t
<1>2. \A i \in DOMAIN t : i = n \/ i \in DOMAIN s
  BY <1>1
<1>3. \A i \in DOMAIN s : i \in DOMAIN t /\ i < n
  BY <1>1
<1>4. n \in DOMAIN t /\ n \in Nat
  BY <1>1
<1> HIDE DEF n
<1>5. BlocksOf(t) = BlocksOf(s) \cup {b}
  BY <1>1, <1>2, <1>3, <1>4 DEF BlocksOf
<1>6. Sorted(t)
  <2> SUFFICES ASSUME NEW i \in DOMAIN t, NEW j \in DOMAIN t, i < j
               PROVE  Before(t[i], t[j])
    BY DEF Sorted
  <2>1. i \in DOMAIN s
    BY <1>1, <1>2, <1>3, <1>4
  <2>2. CASE j \in DOMAIN s
    BY <1>1, <2>1, <2>2 DEF Sorted
  <2>3. CASE j = n
    <3>1. s[i] \in BlocksOf(s)
      BY <2>1 DEF BlocksOf
    <3> QED BY <1>1, <2>1, <2>3, <3>1 DEF Ahead
  <2> QED BY <1>2, <2>2, <2>3
<1> QED BY <1>1, <1>5, <1>6 DEF t

LEMMA Prepended ==
  ASSUME NEW s \in Seq(Blocks), NEW b \in Blocks, NEW c \in Blocks, Sorted(s),
         Before(b, c), Ahead({b, c}, BlocksOf(s))
  PROVE  /\ << b, c >> \o s \in Seq(Blocks)
         /\ BlocksOf(<< b, c >> \o s) = {b, c} \cup BlocksOf(s)
         /\ Sorted(<< b, c >> \o s)
<1> DEFINE t == << b, c >> \o s
<1>1. /\ t \in Seq(Blocks) /\ Len(s) \in Nat
      /\ DOMAIN s = 1..Len(s) /\ DOMAIN t = 1..(Len(s) + 2)
      /\ t[1] = b /\ t[2] = c /\ \A i \in DOMAIN s : t[i + 2] = s[i]
  OBVIOUS
<1> HIDE DEF t
<1>2. \A i \in DOMAIN t :
        i # 1 /\ i # 2 => i > 2 /\ i - 2 \in DOMAIN s /\ t[i] = s[i - 2]
  <2> SUFFICES ASSUME NEW i \in DOMAIN t, i # 1, i # 2
               PROVE  i > 2 /\ i - 2 \in DOMAIN s /\ t[i] = s[i - 2]
    OBVIOUS
  <2>1. i > 2 /\ i - 2 \in DOMAIN s /\ (i - 2) + 2 = i
    BY <1>1
  <2>2. t[(i - 2) + 2] = s[i - 2]
    BY <1>1, <2>1
  <2> QED BY <2>1, <2>2
<1>3. 1 \in DOMAIN t /\ 2 \in DOMAIN t /\ \A i \in DOMAIN s : i + 2 \in DOMAIN t
  BY <1>1
<1>4. BlocksOf(t) = {b, c} \cup BlocksOf(s)
  <2>1. \A i \in DOMAIN t : t[i] \in {b, c} \cup BlocksOf(s)
    BY <1>1, <1>2 DEF BlocksOf
  <2>2. b \in BlocksOf(t) /\ c \in BlocksOf(t)
    BY <1>1, <1>3 DEF BlocksOf
  <2>3. \A i \in DOMAIN s : s[i] \in BlocksOf(t)
    BY <1>1, <1>3 DEF BlocksOf
  <2> QED BY <2>1, <2>2, <2>3 DEF BlocksOf
<1>5. Sorted(t)
  <2> SUFFICES ASSUME NEW i \in DOMAIN t, NEW j \in DOMAIN t, i < j
               PROVE  Before(t[i], t[j])
    BY DEF Sorted
  <2>0. i \in Nat /\ j \in Nat
    BY <1>1
  <2>1. CASE j = 2
    BY <1>1, <1>2, <2>0, <2>1
  <2>2. CASE j - 2 \in DOMAIN s /\ t[j] = s[j - 2]
    <3>1. s[j - 2] \in BlocksOf(s)
      BY <2>2 DEF BlocksOf
    <3>2. CASE t[i] \in {b, c}
      BY <2>2, <3>1, <3>2 DEF Ahead
    <3>3. CASE i - 2 \in DOMAIN s /\ t[i] = s[i - 2]
      <4>1. i - 2 < j - 2
        BY <2>0
      <4> QED BY <2>2, <3>3, <4>1 DEF Sorted
    <3> QED BY <1>1, <1>2, <3>2, <3>3
  <2> QED BY <1>2, <2>0, <2>1, <2>2
<1> QED BY <1>1, <1>4, <1>5 DEF t

LEMMA EmptyList == << >> \in Seq(Blocks) /\ BlocksOf(<< >>) = {} /\ Sorted(<< >>)
  BY DEF BlocksOf, Sorted

-----------------------------------------------------------------------------
(* What looking at a block does to the invariant. *)

\* What masking a route changes: nothing.
LEMMA FitFacts ==
  ASSUME NEW b, Fits(b)
  PROVE  /\ b.prefix \in PrefixLengths /\ b.start \in Nat /\ LastOf(b) \in Nat
         /\ b.start <= LastOf(b)
         /\ Start(b.start, b.prefix) = b.start /\ End(b.start, b.prefix) = LastOf(b)
<1>1. b.prefix \in PrefixLengths /\ b.start \in Nat
  BY Sizes DEF Fits, Blocks, Addresses
<1>2. Shl[Width - b.prefix] \in Nat \ {0}
  BY <1>1, Sizes
<1>3. LastOf(b) \in Nat /\ b.start <= LastOf(b)
  BY <1>1, <1>2 DEF LastOf
<1>4. Start(b.start, b.prefix) = b.start
  BY <1>1 DEF Fits, Start
<1> QED BY <1>1, <1>3, <1>4 DEF End, LastOf

LEMMA RangeFacts ==
  ASSUME TypeOK
  PROVE  from \in Nat /\ to \in Nat
  BY Sizes DEF TypeOK, Addresses

\* A route that is looked at is like a child of a call that has one child.
LEMMA RoundMove ==
  ASSUME NEW R, NEW Q, NEW h, RoundInv(R, {}, {h} \cup Q), Ahead({h}, Q)
  PROVE  RoundInv(R, {h}, Q)
<1>1. R \cup {h} \cup Q = R \cup {} \cup ({h} \cup Q)
  OBVIOUS
<1>2. /\ \A b \in R \cup {h} \cup Q : Fits(b)
      /\ Ahead(R, {h}) /\ Ahead(R, Q) /\ Ahead({h}, Q)
      /\ \A b \in R : Apart(b.start, LastOf(b))
  BY <1>1 DEF RoundInv, Ahead
<1>3. \A a \in Addresses :
        a \notin excluded <=> \/ In(a, R)
                              \/ (busy => a \notin from..to) /\ (In(a, {h}) \/ In(a, Q))
  <2>1. \A a : In(a, {}) \/ In(a, {h} \cup Q) <=> In(a, {h}) \/ In(a, Q)
    BY DEF In
  <2> QED BY <2>1 DEF RoundInv
<1>4. \A b, c \in R \cup {h} \cup Q : ~(b # c /\ Halves(b, c))
  BY <1>1 DEF RoundInv
<1> QED BY <1>2, <1>3, <1>4 DEF RoundInv

LEMMA RoundKeep ==
  ASSUME NEW R, NEW P, NEW Q, NEW h, TypeOK, busy,
         RoundInv(R, {h} \cup P, Q), Ahead({h}, P), Apart(h.start, LastOf(h))
  PROVE  RoundInv(R \cup {h}, P, Q) /\ Ahead(R, {h})
<1>1. R \cup {h} \cup P \cup Q = R \cup ({h} \cup P) \cup Q
  OBVIOUS
<1>2. /\ \A b \in R \cup {h} \cup P \cup Q : Fits(b)
      /\ Ahead(R \cup {h}, P) /\ Ahead(R \cup {h}, Q) /\ Ahead(P, Q) /\ Ahead(R, {h})
      /\ \A b \in R \cup {h} : Apart(b.start, LastOf(b))
  BY <1>1 DEF RoundInv, Ahead
<1>3. \A a \in Addresses :
        a \notin excluded <=> \/ In(a, R \cup {h})
                              \/ (busy => a \notin from..to) /\ (In(a, P) \/ In(a, Q))
  <2>1. \A a : In(a, {h} \cup P) <=> In(a, {h}) \/ In(a, P)
    BY DEF In
  <2>2. \A a : In(a, R \cup {h}) <=> In(a, R) \/ In(a, {h})
    BY DEF In
  <2>3. \A a \in Addresses : In(a, {h}) => a \notin from..to
    <3>1. Fits(h)
      BY <1>2
    <3> QED BY <3>1, FitFacts, RangeFacts DEF In, Apart, Addresses
  <2> QED BY <2>1, <2>2, <2>3 DEF RoundInv
<1>4. ASSUME NEW b \in R \cup {h} \cup P \cup Q, NEW c \in R \cup {h} \cup P \cup Q,
             b # c, Halves(b, c)
      PROVE  \E d \in {b, c} \cap P : ~Apart(d.start, LastOf(d))
  <2>1. PICK d \in {b, c} \cap ({h} \cup P) : ~Apart(d.start, LastOf(d))
    BY <1>1, <1>4 DEF RoundInv
  <2> QED BY <2>1
<1> QED BY <1>2, <1>3, <1>4 DEF RoundInv

LEMMA RoundSkip ==
  ASSUME NEW R, NEW P, NEW Q, NEW h, TypeOK, busy,
         RoundInv(R, {h} \cup P, Q), Ahead({h}, P), Covered(h.start, LastOf(h))
  PROVE  RoundInv(R, P, Q)
<1>1. /\ \A b \in R \cup P \cup Q : Fits(b)
      /\ Ahead(R, P) /\ Ahead(R, Q) /\ Ahead(P, Q)
      /\ \A b \in R : Apart(b.start, LastOf(b))
  BY DEF RoundInv, Ahead
<1>2. Fits(h)
  BY DEF RoundInv
<1>3. h \notin R \cup P \cup Q
  <2>1. ~Before(h, h)
    BY <1>2, FitFacts DEF Before
  <2> QED BY <2>1 DEF RoundInv, Ahead
<1>4. \A a \in Addresses :
        a \notin excluded <=> \/ In(a, R)
                              \/ (busy => a \notin from..to) /\ (In(a, P) \/ In(a, Q))
  <2>1. \A a : In(a, {h} \cup P) <=> In(a, {h}) \/ In(a, P)
    BY DEF In
  <2>2. \A a \in Addresses : In(a, {h}) => a \in from..to
    BY <1>2, FitFacts, RangeFacts, Sizes DEF In, Covered, Addresses
  <2> QED BY <2>1, <2>2 DEF RoundInv
<1>5. ASSUME NEW b \in R \cup P \cup Q, NEW c \in R \cup P \cup Q, b # c, Halves(b, c)
      PROVE  \E d \in {b, c} \cap P : ~Apart(d.start, LastOf(d))
  <2>1. PICK d \in {b, c} \cap ({h} \cup P) : ~Apart(d.start, LastOf(d))
    BY <1>5 DEF RoundInv
  <2> QED BY <2>1, <1>3
<1> QED BY <1>1, <1>4, <1>5 DEF RoundInv

\* The halves of a block of more than one address.
LEMMA HalvesOf ==
  ASSUME NEW h, Fits(h), h.prefix < Width
  PROVE  LET c == h.prefix + 1
             left == Block(h.start, c)
             right == Block(h.start + Size(c), c)
         IN  /\ Children(h.start, h.prefix) = << left, right >>
             /\ Fits(left) /\ Fits(right) /\ Before(left, right)
             /\ left.start = h.start /\ right.start = LastOf(left) + 1
             /\ LastOf(right) = LastOf(h)
             /\ left.prefix = h.prefix + 1 /\ right.prefix = h.prefix + 1
             /\ Start(left.start, h.prefix) = h.start /\ Start(right.start, h.prefix) = h.start
<1> DEFINE c == h.prefix + 1
           s == Shl[Width - c]
           left == Block(h.start, c)
           right == Block(h.start + s, c)
<1>1. /\ h.prefix \in PrefixLengths /\ c \in PrefixLengths /\ ~(c > Width)
      /\ h.start \in Nat /\ LastOf(h) \in Nat /\ LastOf(h) < Shl[Width] /\ Shl[Width] \in Nat
      /\ s \in Nat \ {0} /\ Shl[Width - h.prefix] = 2 * s
  <2>1. h.prefix \in PrefixLengths /\ h.start \in Nat /\ LastOf(h) \in Nat
    BY FitFacts
  <2>2. Shl[Width] \in Nat /\ LastOf(h) < Shl[Width]
    BY Sizes, <2>1 DEF Fits, Addresses
  <2>3. c \in PrefixLengths /\ Shl[Width - h.prefix] = 2 * s
    BY <2>1, Sizes
  <2>4. ~(c > Width)
    BY <2>3, WidthAssumption DEF PrefixLengths
  <2> QED BY <2>1, <2>2, <2>3, <2>4, Sizes
<1>2. h.start % s = 0 /\ (h.start + s) % s = 0 /\ (h.start + s) % (2 * s) = s
      /\ h.start % (2 * s) = 0
  BY <1>1, HalvesAligned DEF Fits
<1>3. Children(h.start, h.prefix) = << left, right >> /\ Size(c) = s
  BY <1>1 DEF Children, Size
<1>4. /\ left.start = h.start /\ left.prefix = c
      /\ right.start = h.start + s /\ right.prefix = c
  BY DEF Block
<1>5. LastOf(h) = h.start + 2 * s - 1
  BY <1>1 DEF LastOf
<1>6. LastOf(left) = h.start + s - 1 /\ LastOf(right) = h.start + s + s - 1
  BY <1>4 DEF LastOf
<1>7. /\ Start(left.start, h.prefix) = h.start - (h.start % (2 * s))
      /\ Start(right.start, h.prefix) = h.start + s - ((h.start + s) % (2 * s))
  BY <1>1, <1>4 DEF Start
<1>8. left \in Blocks /\ right \in Blocks
  <2>1. h.start \in Addresses /\ h.start + s \in Addresses
    BY <1>1, <1>5 DEF Addresses
  <2> QED BY <1>1, <2>1 DEF Blocks, Block
<1> HIDE DEF left, right, s
<1>9. LastOf(left) \in Addresses /\ LastOf(right) \in Addresses
  BY <1>1, <1>5, <1>6 DEF Addresses
<1>10. Fits(left) /\ Fits(right)
  BY <1>2, <1>4, <1>8, <1>9 DEF Fits, s
<1>11. Before(left, right) /\ right.start = LastOf(left) + 1 /\ LastOf(right) = LastOf(h)
  BY <1>1, <1>4, <1>5, <1>6 DEF Before
<1>12. Start(left.start, h.prefix) = h.start - 0 /\ Start(right.start, h.prefix) = h.start + s - s
  BY <1>2, <1>7, Zenon
<1>13. h.start - 0 = h.start /\ h.start + s - s = h.start
  BY <1>1
<1> QED BY <1>3, <1>4, <1>10, <1>11, <1>12, <1>13 DEF left, right

\* The recursive call loses nothing: a block that the range overlaps without
\* covering it has two halves, and one of them is not kept.
LEMMA RoundSplit ==
  ASSUME NEW R, NEW P, NEW Q, NEW h, TypeOK, busy, from <= to,
         RoundInv(R, {h} \cup P, Q), Ahead({h}, P), Overlapped(h.start, LastOf(h))
  PROVE  \E left, right \in Blocks :
           /\ Children(h.start, h.prefix) = << left, right >>
           /\ RoundInv(R, {left, right} \cup P, Q)
           /\ Before(left, right) /\ Ahead({left, right}, P) /\ Ahead({left, right}, Q)
<1>1. Fits(h) /\ Ahead(R, {h}) /\ Ahead({h}, Q) /\ Ahead(R, P) /\ Ahead(R, Q) /\ Ahead(P, Q)
  BY DEF RoundInv, Ahead
<1>2. /\ h.prefix \in PrefixLengths /\ h.start \in Nat /\ LastOf(h) \in Nat
      /\ h.start <= LastOf(h)
  BY <1>1, FitFacts
<1>3. h.prefix < Width
  <2>1. h.start # LastOf(h)
    BY <1>2, RangeFacts DEF Overlapped, Covered, Apart
  <2>2. h.prefix = Width => LastOf(h) = h.start
    BY <1>2, Sizes DEF LastOf
  <2> QED BY <1>2, <2>1, <2>2, WidthAssumption DEF PrefixLengths
<1> DEFINE c == h.prefix + 1
           left == Block(h.start, c)
           right == Block(h.start + Size(c), c)
<1>4. /\ Children(h.start, h.prefix) = << left, right >>
      /\ Fits(left) /\ Fits(right) /\ Before(left, right)
      /\ left.start = h.start /\ right.start = LastOf(left) + 1
      /\ LastOf(right) = LastOf(h)
      /\ left.prefix = h.prefix + 1 /\ right.prefix = h.prefix + 1
      /\ Start(left.start, h.prefix) = h.start /\ Start(right.start, h.prefix) = h.start
  BY <1>1, <1>3, HalvesOf
<1> HIDE DEF left, right, c
<1>5. /\ LastOf(left) \in Nat /\ h.start <= LastOf(left) /\ LastOf(left) < LastOf(h)
      /\ right.start \in Nat /\ h.start < right.start /\ right.start <= LastOf(h)
  BY <1>2, <1>4, FitFacts
<1>6. \A b \in R \cup {left, right} \cup P \cup Q : Fits(b)
  BY <1>4 DEF RoundInv
<1>7. Ahead(R, {left, right} \cup P) /\ Ahead({left, right}, P) /\ Ahead({left, right}, Q)
  <2>1. \A b \in R : Before(b, left) /\ Before(b, right)
    BY <1>1, <1>2, <1>4, <1>5, <1>6, FitFacts DEF Ahead, Before
  <2>2. \A b \in P \cup Q : Before(left, b) /\ Before(right, b)
    BY <1>1, <1>2, <1>4, <1>5, <1>6, FitFacts DEF Ahead, Before
  <2> QED BY <1>1, <2>1, <2>2 DEF Ahead
<1>8. \A a \in Addresses :
        a \notin excluded <=>
          \/ In(a, R)
          \/ (busy => a \notin from..to) /\ (In(a, {left, right} \cup P) \/ In(a, Q))
  <2>1. \A a : In(a, {h} \cup P) <=> In(a, {h}) \/ In(a, P)
    BY DEF In
  <2>2. \A a : In(a, {left, right} \cup P) <=> In(a, {left, right}) \/ In(a, P)
    BY DEF In
  <2>3. \A a \in Addresses : In(a, {h}) <=> In(a, {left, right})
    <3> SUFFICES ASSUME NEW a \in Addresses
                 PROVE  (h.start <= a /\ a <= LastOf(h)) <=>
                          \/ left.start <= a /\ a <= LastOf(left)
                          \/ right.start <= a /\ a <= LastOf(right)
      BY DEF In
    <3> QED BY <1>2, <1>4, <1>5, Sizes DEF Addresses
  <2> QED BY <2>1, <2>2, <2>3 DEF RoundInv
<1>9. ~Apart(left.start, LastOf(left)) \/ ~Apart(right.start, LastOf(right))
  BY <1>2, <1>4, <1>5, RangeFacts DEF Overlapped, Apart
<1>10. \A x \in R \cup P \cup Q : ~Halves(left, x) /\ ~Halves(x, left)
                                 /\ ~Halves(right, x) /\ ~Halves(x, right)
  <2> SUFFICES ASSUME NEW x \in R \cup P \cup Q, x.prefix = h.prefix + 1,
                      Start(x.start, h.prefix) = h.start
               PROVE  FALSE
    BY <1>2, <1>4 DEF Halves, PrefixLengths
  <2>1. Fits(x) /\ x.start \in Nat /\ LastOf(x) \in Nat /\ x.start <= LastOf(x)
    BY FitFacts DEF RoundInv
  <2>2. Shl[Width - h.prefix] \in Nat \ {0}
    BY <1>2, Sizes
  <2>3. x.start % Shl[Width - h.prefix] \in 0..(Shl[Width - h.prefix] - 1)
    BY <2>1, <2>2, DivMod
  <2>4. h.start <= x.start /\ x.start <= LastOf(h)
    BY <1>2, <2>1, <2>2, <2>3 DEF Start, LastOf
  <2>5. Before(x, h) \/ Before(h, x)
    BY <1>1 DEF Ahead
  <2> QED BY <1>2, <2>1, <2>4, <2>5 DEF Before
<1>11. h \notin R \cup P \cup Q
  <2>1. ~Before(h, h)
    BY <1>2 DEF Before
  <2> QED BY <1>1, <2>1 DEF Ahead
<1>12. ASSUME NEW b \in R \cup ({left, right} \cup P) \cup Q,
              NEW d \in R \cup ({left, right} \cup P) \cup Q, b # d, Halves(b, d)
       PROVE  \E e \in {b, d} \cap ({left, right} \cup P) : ~Apart(e.start, LastOf(e))
  <2>1. CASE b \in {left, right} /\ d \in {left, right}
    BY <1>9, <1>12, <2>1
  <2>2. CASE b \in R \cup P \cup Q /\ d \in R \cup P \cup Q
    <3>1. PICK e \in {b, d} \cap ({h} \cup P) : ~Apart(e.start, LastOf(e))
      BY <1>12, <2>2 DEF RoundInv
    <3> QED BY <1>11, <2>2, <3>1
  <2> QED BY <1>10, <1>12, <2>1, <2>2
<1>13. RoundInv(R, {left, right} \cup P, Q)
  <2>1. \A b \in R : Apart(b.start, LastOf(b))
    BY DEF RoundInv
  <2>2. Ahead({left, right} \cup P, Q)
    BY <1>1, <1>7 DEF Ahead
  <2> QED BY <1>1, <1>6, <1>7, <1>8, <1>12, <2>1, <2>2 DEF RoundInv
<1>14. left \in Blocks /\ right \in Blocks
  BY <1>4 DEF Fits
<1> QED BY <1>4, <1>7, <1>13, <1>14

-----------------------------------------------------------------------------
(* The invariant is inductive. *)

LEMMA InitIInv == Init => IInv
<1> SUFFICES ASSUME Init PROVE IInv
  OBVIOUS
<1> DEFINE all == Block(0, 0)
<1>1. all \in Blocks /\ all.start = 0 /\ all.prefix = 0
  BY Sizes DEF Block, Blocks
<1>2. Shl[Width - 0] = Shl[Width] /\ Shl[Width] \in Nat \ {0}
  BY Sizes
<1>3. LastOf(all) = Shl[Width] - 1
  BY <1>1, <1>2 DEF LastOf
<1>4. Fits(all)
  <2>1. 0 % Shl[Width] = 0
    BY <1>2
  <2>2. LastOf(all) \in Addresses
    BY <1>2, <1>3 DEF Addresses
  <2> QED BY <1>1, <1>2, <2>1, <2>2 DEF Fits
<1> HIDE DEF all
<1>5. routes = << all >> /\ result = << >> /\ pending = << >> /\ busy = FALSE /\ excluded = {}
      /\ from = 0 /\ to = 0 /\ rounds = 0
  BY DEF Init, all
<1>6. BlocksOf(routes) = {all} /\ Sorted(routes) /\ routes \in Seq(Blocks)
  BY <1>1, <1>5 DEF BlocksOf, Sorted
<1>7. TypeOK /\ from <= to
  <2>1. rounds \in 0..MaxExclusions /\ from <= to
    BY <1>5, WidthAssumption
  <2>2. busy \in BOOLEAN /\ excluded \subseteq Addresses
    BY <1>5
  <2>3. result \in Seq(Blocks) /\ pending \in Seq(Blocks)
    BY <1>5, EmptyList
  <2> QED BY <1>5, <1>6, <2>1, <2>2, <2>3, Sizes DEF TypeOK
<1>8. \A a \in Addresses : In(a, {all})
  BY <1>1, <1>2, <1>3 DEF In, Addresses
<1>9. RoundInv({}, {}, {all})
  BY <1>4, <1>5, <1>8 DEF RoundInv, Ahead
<1>10. /\ BlocksOf(result) = {} /\ Sorted(result)
       /\ BlocksOf(pending) = {} /\ Sorted(pending)
  BY <1>5, EmptyList
<1> QED BY <1>5, <1>6, <1>7, <1>9, <1>10, Zenon DEF IInv

LEMMA BeginIInv ==
  ASSUME IInv, NEW ip \in Addresses, NEW prefix \in PrefixLengths, Begin(ip, prefix)
  PROVE  IInv'
<1> DEFINE s == Shl[Width - prefix]
           Q == BlocksOf(routes)
<1>1. ip \in Nat /\ s \in Nat \ {0} /\ Shl[Width] \in Nat \ {0}
  BY Sizes DEF Addresses
<1>2. /\ routes' = routes /\ result' = << >> /\ pending' = << >>
      /\ result = << >> /\ pending = << >>
      /\ busy = FALSE /\ busy' = TRUE
  BY DEF IInv, Begin, TypeOK
<1>3. from' = ip - (ip % s) /\ to' = ip - (ip % s) + s - 1
  BY DEF Begin, Start, End
<1>4. from' \in Addresses /\ to' \in Addresses /\ from' <= to'
  BY MaskedInside DEF Begin
<1>5. excluded' = excluded \cup {a \in Addresses : a \in from'..to'}
  <2>1. \A a \in Addresses : a \div s = ip \div s <=> from' <= a /\ a <= to'
    <3> SUFFICES ASSUME NEW a \in Addresses
                 PROVE  a \div s = ip \div s <=> from' <= a /\ a <= to'
      OBVIOUS
    <3>1. a \in Nat
      BY <1>1 DEF Addresses
    <3> HIDE DEF s
    <3> QED BY <1>1, <1>3, <3>1, SamePrefix
  <2>2. \A a \in Addresses : (from' <= a /\ a <= to') <=> a \in from'..to'
    BY <1>1, <1>4 DEF Addresses
  <2>3. excluded' = excluded \cup {a \in Addresses : a \div s = ip \div s}
    BY DEF Begin
  <2> HIDE DEF s
  <2> QED BY <2>1, <2>2, <2>3
<1>6. TypeOK'
  <2>1. rounds' \in 0..MaxExclusions
    BY WidthAssumption DEF IInv, TypeOK, Begin
  <2>2. busy' \in BOOLEAN /\ excluded' \subseteq Addresses
    BY <1>2, <1>5 DEF IInv, TypeOK
  <2>3. routes' \in Seq(Blocks) /\ result' \in Seq(Blocks) /\ pending' \in Seq(Blocks)
    BY <1>2, EmptyList DEF IInv, TypeOK
  <2> QED BY <1>4, <2>1, <2>2, <2>3 DEF TypeOK, Blocks, Addresses, PrefixLengths
<1>7. RoundInv({}, {}, Q)
  BY <1>2, EmptyList DEF IInv
<1>8. RoundInv({}, {}, Q)'
  <2>1. Q' = Q
    BY <1>2
  <2>2. \A b \in Q : Fits(b)
    BY <1>7 DEF RoundInv
  <2>3. \A a \in Addresses : a \notin excluded <=> In(a, Q)
    BY <1>2, <1>7 DEF RoundInv, In
  <2>4. \A a \in Addresses : a \notin excluded' <=> a \notin from'..to' /\ In(a, Q)
    BY <1>5, <2>3
  <2>5. \A b, c \in Q : ~(b # c /\ Halves(b, c))
    BY <1>7 DEF RoundInv
  <2>6. \A a : ~In(a, {})
    BY DEF In
  <2> QED BY <1>2, <2>1, <2>2, <2>4, <2>5, <2>6 DEF RoundInv, Ahead, Fits, LastOf, In, Halves
<1> QED BY <1>2, <1>4, <1>6, <1>8, EmptyList DEF IInv, BlocksOf, Sorted, Before, LastOf

\* The steps of a round leave the range, the exclusions and busy alone.
LEMMA RoundFrame ==
  ASSUME TypeOK, from <= to, busy, NEW R, NEW P, NEW Q, RoundInv(R, P, Q),
         UNCHANGED <<from, to, busy, excluded, rounds>>,
         result' \in Seq(Blocks), pending' \in Seq(Blocks), routes' \in Seq(Blocks),
         Sorted(result'), Sorted(pending'), Sorted(routes'),
         BlocksOf(result') = R, BlocksOf(pending') = P, BlocksOf(routes') = Q
  PROVE  IInv'
<1>1. TypeOK'
  BY DEF TypeOK
<1>2. RoundInv(BlocksOf(result), BlocksOf(pending), BlocksOf(routes))'
  BY DEF RoundInv, Apart
<1> QED BY <1>1, <1>2 DEF IInv

LEMMA RouteIInv ==
  ASSUME IInv, KeepRoute \/ RemoveRoute \/ SplitRoute
  PROVE  IInv'
<1> DEFINE h == Head(routes)
           R == BlocksOf(result)
           Q == BlocksOf(Tail(routes))
<1>1. /\ TypeOK /\ from <= to /\ busy
      /\ routes # << >> /\ pending = << >> /\ routes' = Tail(routes)
      /\ UNCHANGED <<from, to, busy, excluded, rounds>>
      /\ Sorted(result) /\ Sorted(routes)
      /\ routes \in Seq(Blocks) /\ result \in Seq(Blocks)
  BY DEF IInv, TypeOK, KeepRoute, RemoveRoute, SplitRoute, AtRoute, NextRoute
<1>2. /\ h \in Blocks /\ Tail(routes) \in Seq(Blocks) /\ BlocksOf(routes) = {h} \cup Q
      /\ Sorted(Tail(routes)) /\ Ahead({h}, Q)
  BY <1>1, HeadAndTail
<1>3. RoundInv(R, {}, {h} \cup Q)
  BY <1>1, <1>2, EmptyList DEF IInv
<1> HIDE DEF h, R, Q
<1>4. RoundInv(R, {h}, Q)
  BY <1>2, <1>3, RoundMove
<1>5. RoundInv(R, {h} \cup {}, Q) /\ Ahead({h}, {})
  <2>1. {h} \cup {} = {h}
    OBVIOUS
  <2> QED BY <1>4, <2>1 DEF Ahead
<1>6. RouteStart = h.start /\ RouteEnd = LastOf(h)
  <2>1. Fits(h)
    BY <1>4 DEF RoundInv
  <2> QED BY <2>1, FitFacts DEF RouteStart, RouteEnd, h
<1>7. CASE KeepRoute
  <2>1. RoundInv(R \cup {h}, {}, Q) /\ Ahead(R, {h})
    BY <1>1, <1>5, <1>6, <1>7, RoundKeep DEF KeepRoute
  <2>2. result' = Append(result, h) /\ pending' = << >>
    BY <1>1, <1>7 DEF KeepRoute, h
  <2>3. result' \in Seq(Blocks) /\ BlocksOf(result') = R \cup {h} /\ Sorted(result')
    BY <1>1, <1>2, <2>1, <2>2, Appended DEF R
  <2> QED BY <1>1, <1>2, <2>1, <2>2, <2>3, EmptyList, RoundFrame DEF Q
<1>8. CASE RemoveRoute
  <2>1. RoundInv(R, {}, Q)
    BY <1>1, <1>5, <1>6, <1>8, RoundSkip DEF RemoveRoute
  <2>2. result' = result /\ pending' = << >>
    BY <1>1, <1>8 DEF RemoveRoute
  <2> QED BY <1>1, <1>2, <2>1, <2>2, EmptyList, RoundFrame DEF R, Q
<1>9. CASE SplitRoute
  <2>1. PICK left, right \in Blocks :
          /\ Children(h.start, h.prefix) = << left, right >>
          /\ RoundInv(R, {left, right} \cup {}, Q)
          /\ Before(left, right) /\ Ahead({left, right}, {}) /\ Ahead({left, right}, Q)
    BY <1>1, <1>5, <1>6, <1>9, RoundSplit DEF SplitRoute
  <2>2. result' = result /\ pending' = << left, right >> \o << >>
    <3>1. << left, right >> = << left, right >> \o << >>
      OBVIOUS
    <3> QED BY <1>6, <1>9, <2>1, <3>1 DEF SplitRoute, h
  <2>3. /\ pending' \in Seq(Blocks) /\ BlocksOf(pending') = {left, right} \cup {}
        /\ Sorted(pending')
    BY <2>1, <2>2, EmptyList, Prepended
  <2> QED BY <1>1, <1>2, <2>1, <2>2, <2>3, RoundFrame DEF R, Q
<1> QED BY <1>7, <1>8, <1>9

LEMMA ChildIInv ==
  ASSUME IInv, KeepChild \/ SkipChild \/ SplitChild
  PROVE  IInv'
<1> DEFINE h == Head(pending)
           R == BlocksOf(result)
           P == BlocksOf(Tail(pending))
           Q == BlocksOf(routes)
<1>1. /\ TypeOK /\ from <= to /\ busy
      /\ pending # << >> /\ routes' = routes
      /\ UNCHANGED <<from, to, busy, excluded, rounds>>
      /\ Sorted(result) /\ Sorted(pending) /\ Sorted(routes)
      /\ routes \in Seq(Blocks) /\ result \in Seq(Blocks) /\ pending \in Seq(Blocks)
  BY DEF IInv, TypeOK, KeepChild, SkipChild, SplitChild, AtChild
<1>2. /\ h \in Blocks /\ Tail(pending) \in Seq(Blocks) /\ BlocksOf(pending) = {h} \cup P
      /\ Sorted(Tail(pending)) /\ Ahead({h}, P)
  BY <1>1, HeadAndTail
<1>3. RoundInv(R, {h} \cup P, Q)
  BY <1>1, <1>2 DEF IInv
<1>4. ChildStart = h.start /\ ChildEnd = LastOf(h)
  BY DEF ChildStart, ChildEnd, Size, LastOf
<1> HIDE DEF h, R, P, Q
<1>5. CASE KeepChild
  <2>1. RoundInv(R \cup {h}, P, Q) /\ Ahead(R, {h})
    BY <1>1, <1>2, <1>3, <1>4, <1>5, RoundKeep DEF KeepChild
  <2>2. result' = Append(result, h) /\ pending' = Tail(pending)
    BY <1>5 DEF KeepChild, h
  <2>3. result' \in Seq(Blocks) /\ BlocksOf(result') = R \cup {h} /\ Sorted(result')
    BY <1>1, <1>2, <2>1, <2>2, Appended DEF R
  <2> QED BY <1>1, <1>2, <2>1, <2>2, <2>3, RoundFrame DEF P, Q
<1>6. CASE SkipChild
  <2>1. RoundInv(R, P, Q)
    BY <1>1, <1>2, <1>3, <1>4, <1>6, RoundSkip DEF SkipChild
  <2>2. result' = result /\ pending' = Tail(pending)
    BY <1>6 DEF SkipChild
  <2> QED BY <1>1, <1>2, <2>1, <2>2, RoundFrame DEF R, P, Q
<1>7. CASE SplitChild
  <2>1. PICK left, right \in Blocks :
          /\ Children(h.start, h.prefix) = << left, right >>
          /\ RoundInv(R, {left, right} \cup P, Q)
          /\ Before(left, right) /\ Ahead({left, right}, P) /\ Ahead({left, right}, Q)
    <3>1. Overlapped(h.start, LastOf(h))
      BY <1>4, <1>7 DEF SplitChild
    <3>2. TypeOK /\ busy /\ from <= to /\ Ahead({h}, P)
      BY <1>1, <1>2
    <3> QED BY <1>3, <3>1, <3>2, RoundSplit, Zenon
  <2>2. result' = result /\ pending' = << left, right >> \o Tail(pending)
    BY <1>4, <1>7, <2>1 DEF SplitChild, h
  <2>3. /\ pending' \in Seq(Blocks) /\ BlocksOf(pending') = {left, right} \cup P
        /\ Sorted(pending')
    BY <1>2, <2>1, <2>2, Prepended DEF P
  <2> QED BY <1>1, <2>1, <2>2, <2>3, RoundFrame DEF R, Q
<1> QED BY <1>5, <1>6, <1>7

LEMMA ReturnIInv == ASSUME IInv, Return PROVE IInv'
<1> DEFINE R == BlocksOf(result)
<1>1. /\ busy = TRUE /\ busy' = FALSE /\ pending = << >> /\ routes = << >>
      /\ pending' = << >> /\ result' = << >> /\ routes' = result
      /\ UNCHANGED <<from, to, excluded, rounds>>
  BY DEF IInv, TypeOK, Return
<1>2. RoundInv(R, {}, {}) /\ Sorted(result) /\ TypeOK /\ from <= to
  BY <1>1, EmptyList DEF IInv
<1>3. TypeOK'
  BY <1>1, <1>2, EmptyList DEF TypeOK
<1>4. /\ BlocksOf(routes') = R /\ BlocksOf(result') = {} /\ BlocksOf(pending') = {}
      /\ Sorted(routes') /\ Sorted(result') /\ Sorted(pending')
  BY <1>1, <1>2, EmptyList
<1>5. RoundInv(BlocksOf(result), BlocksOf(pending), BlocksOf(routes))'
  <2>1. \A b \in R : Fits(b)
    BY <1>2 DEF RoundInv
  <2>2. \A a : ~In(a, {})
    BY DEF In
  <2>3. \A a \in Addresses : a \notin excluded <=> In(a, R)
    BY <1>2, <2>2 DEF RoundInv
  <2>4. \A b, c \in R : ~(b # c /\ Halves(b, c))
    BY <1>2 DEF RoundInv
  <2> HIDE DEF R
  <2> QED BY <1>1, <1>4, <2>1, <2>2, <2>3, <2>4 DEF RoundInv, Ahead
<1> QED BY <1>1, <1>2, <1>3, <1>4, <1>5 DEF IInv

LEMMA NextIInv == IInv /\ [Next]_vars => IInv'
<1> SUFFICES ASSUME IInv, [Next]_vars PROVE IInv'
  OBVIOUS
<1>1. CASE \E ip \in Addresses, prefix \in PrefixLengths : Begin(ip, prefix)
  BY <1>1, BeginIInv
<1>2. CASE KeepRoute \/ RemoveRoute \/ SplitRoute
  BY <1>2, RouteIInv
<1>3. CASE KeepChild \/ SkipChild \/ SplitChild
  BY <1>3, ChildIInv
<1>4. CASE Return
  BY <1>4, ReturnIInv
<1>5. CASE UNCHANGED vars
  BY <1>5 DEF vars, IInv, TypeOK, RoundInv, Apart
<1> QED BY <1>1, <1>2, <1>3, <1>4, <1>5 DEF Next

-----------------------------------------------------------------------------
(* Theorems. *)

\* The invariant of the loops of subtractCidr and splitExcluding.
THEOREM Invariance == Spec => []IInv
  BY InitIInv, NextIInv, PTL DEF Spec

\* Every variable of the route computation keeps its type; splitExcluding never
\* makes a prefix length that is too long.
THEOREM TypeCorrect == Spec => []TypeOK
<1>1. IInv => TypeOK
  BY DEF IInv
<1> QED BY <1>1, Invariance, PTL

LEMMA RouteFits ==
  ASSUME IInv, NEW i \in 1..Len(routes)
  PROVE  Fits(routes[i]) /\ routes[i] \in BlocksOf(routes)
<1>1. DOMAIN routes = 1..Len(routes)
  BY DEF IInv, TypeOK
<1>2. routes[i] \in BlocksOf(routes)
  BY <1>1 DEF BlocksOf
<1> QED BY <1>2 DEF IInv, RoundInv

\* applyVpnRoutes only gives addRoute prefixes without host bits.
THEOREM AllWellFormed == Spec => []WellFormed
<1>1. IInv => WellFormed
  BY RouteFits DEF WellFormed, Fits, Blocks
<1> QED BY <1>1, Invariance, PTL

\* applyVpnRoutes routes exactly the addresses that neither a LAN range nor a
\* bypass route excludes, each once and in order: for every address width and
\* any number of ranges, nested, overlapping or repeated.
THEOREM ExactRoutes == Spec => []RoutesExactlyTheRest
<1>1. ASSUME IInv PROVE RoutesExactlyTheRest
  <2> SUFFICES ASSUME ~busy PROVE
        /\ UNION {AddressesOf(routes[i]) : i \in 1..Len(routes)} = Addresses \ excluded
        /\ \A i, j \in 1..Len(routes) :
             i < j => \A a \in AddressesOf(routes[i]), b \in AddressesOf(routes[j]) : a < b
    BY DEF RoutesExactlyTheRest
  <2> DEFINE Q == BlocksOf(routes)
  <2>1. DOMAIN routes = 1..Len(routes)
    BY <1>1 DEF IInv, TypeOK
  <2>2. RoundInv({}, {}, Q) /\ Sorted(routes)
    BY <1>1, EmptyList DEF IInv
  <2>3. \A a \in Addresses : a \notin excluded <=> In(a, Q)
    BY <2>2 DEF RoundInv, In
  <2>4. ASSUME NEW i \in 1..Len(routes)
        PROVE  /\ AddressesOf(routes[i]) \subseteq Addresses
               /\ routes[i].start \in Nat /\ LastOf(routes[i]) \in Nat
               /\ AddressesOf(routes[i]) = routes[i].start..LastOf(routes[i])
    <3>1. Fits(routes[i])
      BY <1>1, <2>4, RouteFits
    <3>2. routes[i].start \in Nat /\ LastOf(routes[i]) \in Nat
      BY <3>1, FitFacts
    <3>3. AddressesOf(routes[i]) = routes[i].start..LastOf(routes[i])
      BY DEF AddressesOf, LastOf
    <3>4. LastOf(routes[i]) \in Addresses
      BY <3>1 DEF Fits
    <3> QED BY <3>2, <3>3, <3>4, Sizes DEF Addresses
  <2>5. \A a \in Addresses : In(a, Q) <=> \E i \in 1..Len(routes) : a \in AddressesOf(routes[i])
    <3> SUFFICES ASSUME NEW a \in Addresses
                 PROVE  In(a, Q) <=> \E i \in 1..Len(routes) : a \in AddressesOf(routes[i])
      OBVIOUS
    <3>1. a \in Nat
      BY Sizes DEF Addresses
    <3>2. In(a, Q) <=> \E i \in 1..Len(routes) : routes[i].start <= a /\ a <= LastOf(routes[i])
      BY <2>1 DEF In, BlocksOf
    <3>3. \A i \in 1..Len(routes) :
            a \in AddressesOf(routes[i]) <=> routes[i].start <= a /\ a <= LastOf(routes[i])
      BY <2>4, <3>1
    <3> QED BY <3>2, <3>3
  <2>6. UNION {AddressesOf(routes[i]) : i \in 1..Len(routes)} = Addresses \ excluded
    <3> HIDE DEF Q
    <3> QED BY <2>3, <2>4, <2>5
  <2>7. ASSUME NEW i \in 1..Len(routes), NEW j \in 1..Len(routes), i < j,
               NEW a \in AddressesOf(routes[i]), NEW b \in AddressesOf(routes[j])
        PROVE  a < b
    <3>1. LastOf(routes[i]) < routes[j].start
      BY <2>1, <2>2, <2>7 DEF Sorted, Before
    <3> QED BY <2>4, <3>1
  <2> QED BY <2>6, <2>7
<1> QED BY <1>1, Invariance, PTL

\* splitExcluding keeps "the largest possible sub-blocks": no two routes could
\* be one.
THEOREM BlocksAreLargest == Spec => []LargestBlocks
<1>1. ASSUME IInv PROVE LargestBlocks
  <2> SUFFICES ASSUME ~busy, NEW i \in 1..Len(routes), NEW j \in 1..Len(routes), i # j,
                      routes[i].prefix = routes[j].prefix, routes[i].prefix > 0
               PROVE  Start(routes[i].start, routes[i].prefix - 1)
                        # Start(routes[j].start, routes[j].prefix - 1)
    BY DEF LargestBlocks
  <2>1. DOMAIN routes = 1..Len(routes) /\ Sorted(routes)
    BY <1>1 DEF IInv, TypeOK
  <2>2. RoundInv({}, {}, BlocksOf(routes))
    BY <1>1, EmptyList DEF IInv
  <2>3. routes[i] # routes[j]
    <3>1. Before(routes[i], routes[j]) \/ Before(routes[j], routes[i])
      BY <2>1 DEF Sorted
    <3>2. ~Before(routes[i], routes[i])
      BY <1>1, RouteFits, FitFacts DEF Before
    <3> QED BY <3>1, <3>2
  <2>4. ~Halves(routes[i], routes[j])
    BY <1>1, <2>2, <2>3, RouteFits DEF RoundInv
  <2> QED BY <2>4 DEF Halves
<1> QED BY <1>1, Invariance, PTL
=============================================================================
