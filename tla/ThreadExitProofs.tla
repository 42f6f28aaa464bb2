-------------------------- MODULE ThreadExitProofs --------------------------
(***************************************************************************)
(* Proofs about what belongs to a thread and ends with it: the emulated    *)
(* thread_local objects (EmulatedTls), the destructors and callbacks of    *)
(* its end (ThreadExit) and the thread-specific values (ThreadKeys).       *)
(***************************************************************************)
EXTENDS MCThreadExit, SequenceTheorems, TLAPS

-----------------------------------------------------------------------------
(* Emulated thread_local objects *)

LEMMA EmutlsInit == Emutls!Init => Emutls!EmutlsInv
<1>1. SUFFICES ASSUME Emutls!Init PROVE Emutls!EmutlsInv
  OBVIOUS
<1>2. Emutls!NoArray \in Emutls!Arrays /\ Emutls!NoArray.entries = {}
  BY DEF Emutls!NoArray, Emutls!Arrays
<1>3. Emutls!NoCall \in Emutls!CallRecords /\ Emutls!NoCall.pc = "user"
  BY DEF Emutls!NoCall, Emutls!CallRecords
<1>4. Emutls!TypeOK
  BY <1>1, <1>2, <1>3 DEF Emutls!Init, Emutls!TypeOK
<1>5. Emutls!PlaceInv
  BY <1>1 DEF Emutls!Init, Emutls!PlaceInv
<1>6. Emutls!CallInv
  BY <1>1, <1>3 DEF Emutls!Init, Emutls!CallInv, Emutls!CallOK
<1>7. Emutls!ArrayInv
  BY <1>1, <1>2 DEF Emutls!Init, Emutls!ArrayInv, Emutls!ArrayOK
<1>8. QED
  BY <1>4, <1>5, <1>6, <1>7 DEF Emutls!EmutlsInv

\* A call that starts or goes on in t leaves the places and the arrays alone.
LEMMA GetAddressStep ==
  ASSUME Emutls!EmutlsInv, NEW t \in Emutls!Executions, NEW v \in Variables,
         Emutls!GetAddress(t, v)
  PROVE  Emutls!EmutlsInv'
<1> DEFINE c == [variable |-> v, offset |-> location[v],
                 pc |-> IF location[v] = 0 THEN "assign" ELSE "find"]
<1>1. /\ call' = [call EXCEPT ![t] = c]
      /\ location' = location /\ emutls_object_count' = emutls_object_count
      /\ array' = array
  BY DEF Emutls!GetAddress
<1>2. /\ c \in Emutls!CallRecords /\ c.variable = v /\ c.offset = location[v]
      /\ c.pc = "find" => location[v] # 0
  BY DEF Emutls!EmutlsInv, Emutls!TypeOK, Emutls!CallRecords
<1> HIDE DEF c
<1>3. Emutls!TypeOK' /\ Emutls!PlaceInv'
  BY <1>1, <1>2 DEF Emutls!EmutlsInv, Emutls!TypeOK, Emutls!PlaceInv
<1>4. Emutls!CallInv'
  BY <1>1, <1>2 DEF Emutls!EmutlsInv, Emutls!TypeOK, Emutls!CallInv, Emutls!CallOK
<1>5. Emutls!ArrayInv'
  BY <1>1 DEF Emutls!EmutlsInv, Emutls!ArrayInv, Emutls!ArrayOK
<1>6. QED
  BY <1>3, <1>4, <1>5 DEF Emutls!EmutlsInv

\* A place is assigned only to a variable that has none when interrupts are disabled.
LEMMA AssignOffsetStep ==
  ASSUME Emutls!EmutlsInv, NEW t \in Emutls!Executions, Emutls!AssignOffset(t)
  PROVE  Emutls!EmutlsInv'
<1> DEFINE v == call[t].variable
           c == [call[t] EXCEPT !.offset = location'[v], !.pc = "find"]
<1>1. /\ call[t] \in Emutls!CallRecords /\ v \in Variables
      /\ location \in [Variables -> Nat] /\ emutls_object_count \in Nat
  BY DEF Emutls!EmutlsInv, Emutls!TypeOK, Emutls!CallInv, Emutls!CallOK, Emutls!AssignOffset
<1>2. /\ location' = IF location[v] = 0 THEN [location EXCEPT ![v] = emutls_object_count + 1]
                     ELSE location
      /\ emutls_object_count' = emutls_object_count + IF location[v] = 0 THEN 1 ELSE 0
      /\ array' = array
  BY DEF Emutls!AssignOffset, Emutls!MustAssign
<1>3. /\ location' \in [Variables -> Nat] /\ location'[v] # 0
      /\ \A w \in Variables : location[w] # 0 => location'[w] = location[w]
  BY <1>1, <1>2
<1>4. call' = [call EXCEPT ![t] = c]
  BY DEF Emutls!AssignOffset, Emutls!EmutlsInv, Emutls!TypeOK
<1>5. /\ c \in Emutls!CallRecords /\ c.variable = v /\ c.offset = location'[v]
      /\ c.pc = "find"
  BY <1>1, <1>3 DEF Emutls!CallRecords
<1> HIDE DEF c
<1>6. Emutls!TypeOK'
  BY <1>1, <1>2, <1>3, <1>4, <1>5 DEF Emutls!EmutlsInv, Emutls!TypeOK
<1>7. Emutls!PlaceInv'
  BY <1>1, <1>2 DEF Emutls!EmutlsInv, Emutls!PlaceInv
<1>8. Emutls!CallInv'
  BY <1>1, <1>3, <1>4, <1>5
     DEF Emutls!EmutlsInv, Emutls!TypeOK, Emutls!CallInv, Emutls!CallOK
<1>9. Emutls!ArrayInv'
  BY <1>1, <1>2, <1>3
     DEF Emutls!EmutlsInv, Emutls!TypeOK, Emutls!Arrays, Emutls!Entries,
         Emutls!ArrayInv, Emutls!ArrayOK
<1>10. QED
  BY <1>6, <1>7, <1>8, <1>9 DEF Emutls!EmutlsInv

\* The array that is allocated or grown for an offset holds it, and loses nothing.
LEMMA CapacityGrows ==
  ASSUME NEW a \in Emutls!Arrays, NEW offset \in Nat
  PROVE  /\ Emutls!Capacity(a, offset) \in Nat
         /\ offset <= Emutls!Capacity(a, offset)
         /\ a.capacity <= Emutls!Capacity(a, offset)
<1>1. a.capacity \in Nat /\ Spare \in Nat
  BY ThreadExitAssumption DEF Emutls!Arrays
<1>2. CASE a.capacity = 0
  BY <1>1, <1>2 DEF Emutls!Capacity, Emutls!Grown
<1>3. CASE a.capacity # 0 /\ offset > a.capacity
  BY <1>1, <1>3 DEF Emutls!Capacity, Emutls!Grown
<1>4. CASE a.capacity # 0 /\ ~(offset > a.capacity)
  BY <1>1, <1>4 DEF Emutls!Capacity
<1>5. QED
  BY <1>2, <1>3, <1>4

LEMMA FindObjectStep ==
  ASSUME Emutls!EmutlsInv, NEW t \in Emutls!Executions, Emutls!FindObject(t)
  PROVE  Emutls!EmutlsInv'
<1> DEFINE c == call[t]
           e == [offset |-> c.offset, variable |-> c.variable]
           a == [capacity |-> Emutls!Capacity(array[t], c.offset),
                 entries  |-> IF \E d \in array[t].entries : d.offset = c.offset
                              THEN array[t].entries ELSE array[t].entries \cup {e}]
<1>1. /\ array' = [array EXCEPT ![t] = a]
      /\ call' = [call EXCEPT ![t] = Emutls!NoCall]
      /\ location' = location /\ emutls_object_count' = emutls_object_count
  BY DEF Emutls!FindObject, Emutls!EmutlsInv, Emutls!TypeOK
<1>2. /\ c.offset \in Nat /\ c.variable \in Variables /\ array[t] \in Emutls!Arrays
      /\ c.offset = location[c.variable] /\ c.offset # 0
  BY DEF Emutls!FindObject, Emutls!EmutlsInv, Emutls!TypeOK, Emutls!CallRecords,
         Emutls!CallInv, Emutls!CallOK
<1>3. /\ Emutls!Capacity(array[t], c.offset) \in Nat
      /\ c.offset <= Emutls!Capacity(array[t], c.offset)
      /\ array[t].capacity <= Emutls!Capacity(array[t], c.offset)
  BY <1>2, CapacityGrows
<1>4. /\ e \in Emutls!Entries /\ e.offset = c.offset /\ e.variable = c.variable
      /\ array[t].capacity \in Nat /\ array[t].entries \subseteq Emutls!Entries
      /\ \A d \in Emutls!Entries : d.offset \in Nat
  BY <1>2 DEF Emutls!Entries, Emutls!Arrays
<1> HIDE DEF e, c
<1>5. /\ a \in Emutls!Arrays
      /\ a.capacity = Emutls!Capacity(array[t], c.offset)
      /\ \A d \in a.entries : d \in array[t].entries \/ d = e
  BY <1>3, <1>4 DEF Emutls!Arrays
<1> HIDE DEF a
<1>6. Emutls!ArrayOK(array[t]) /\ \A u \in Emutls!Executions : Emutls!ArrayOK(array[u])
  BY DEF Emutls!EmutlsInv, Emutls!ArrayInv
<1>7. Emutls!ArrayOK(a)
  BY <1>2, <1>3, <1>4, <1>5, <1>6 DEF Emutls!ArrayOK
<1>8. Emutls!NoCall \in Emutls!CallRecords /\ Emutls!NoCall.pc = "user"
  BY DEF Emutls!NoCall, Emutls!CallRecords
<1>9. Emutls!TypeOK' /\ Emutls!PlaceInv'
  BY <1>1, <1>5, <1>8 DEF Emutls!EmutlsInv, Emutls!TypeOK, Emutls!PlaceInv
<1>10. Emutls!CallInv'
  BY <1>1, <1>8 DEF Emutls!EmutlsInv, Emutls!TypeOK, Emutls!CallInv, Emutls!CallOK
<1>11. Emutls!ArrayInv'
  BY <1>1, <1>6, <1>7
     DEF Emutls!EmutlsInv, Emutls!TypeOK, Emutls!ArrayInv, Emutls!ArrayOK
<1>12. QED
  BY <1>9, <1>10, <1>11 DEF Emutls!EmutlsInv

\* The deletion of a thread and the adoption move whole arrays.
LEMMA ArraysMove ==
  ASSUME Emutls!EmutlsInv, NEW t \in Emutls!Executions, NEW u \in Emutls!Executions,
         NEW a, a = Emutls!NoArray \/ a = array[u],
         array' = [array EXCEPT ![t] = a, ![u] = Emutls!NoArray],
         location' = location, emutls_object_count' = emutls_object_count, call' = call
  PROVE  Emutls!EmutlsInv'
<1>1. Emutls!NoArray \in Emutls!Arrays /\ Emutls!NoArray.entries = {}
  BY DEF Emutls!NoArray, Emutls!Arrays
<1>2. Emutls!ArrayOK(a) /\ Emutls!ArrayOK(Emutls!NoArray) /\ a \in Emutls!Arrays
  BY <1>1 DEF Emutls!EmutlsInv, Emutls!TypeOK, Emutls!ArrayInv, Emutls!ArrayOK
<1>3. Emutls!TypeOK' /\ Emutls!PlaceInv' /\ Emutls!CallInv'
  BY <1>1, <1>2
     DEF Emutls!EmutlsInv, Emutls!TypeOK, Emutls!PlaceInv, Emutls!CallInv, Emutls!CallOK
<1>4. Emutls!ArrayInv'
  BY <1>2 DEF Emutls!EmutlsInv, Emutls!TypeOK, Emutls!ArrayInv, Emutls!ArrayOK
<1>5. QED
  BY <1>3, <1>4 DEF Emutls!EmutlsInv

LEMMA EmutlsNext == Emutls!EmutlsInv /\ [Emutls!Next]_Emutls!vars => Emutls!EmutlsInv'
<1> SUFFICES ASSUME Emutls!EmutlsInv, [Emutls!Next]_Emutls!vars PROVE Emutls!EmutlsInv'
  OBVIOUS
<1>1. CASE UNCHANGED Emutls!vars
  BY <1>1 DEF Emutls!vars, Emutls!EmutlsInv, Emutls!TypeOK, Emutls!PlaceInv,
              Emutls!CallInv, Emutls!CallOK, Emutls!ArrayInv, Emutls!ArrayOK
<1>2. CASE Emutls!Adopt
  <2>1. Main \in Emutls!Executions /\ Boot \in Emutls!Executions
    BY ThreadExitAssumption DEF Emutls!Executions
  <2>2. QED
    BY <1>2, <2>1, ArraysMove DEF Emutls!Adopt
<1>3. ASSUME NEW t \in Emutls!Executions, NEW v \in Variables, Emutls!GetAddress(t, v)
      PROVE  Emutls!EmutlsInv'
  BY <1>3, GetAddressStep
<1>4. ASSUME NEW t \in Emutls!Executions, Emutls!AssignOffset(t) PROVE Emutls!EmutlsInv'
  BY <1>4, AssignOffsetStep
<1>5. ASSUME NEW t \in Emutls!Executions, Emutls!FindObject(t) PROVE Emutls!EmutlsInv'
  BY <1>5, FindObjectStep
<1>6. ASSUME NEW t \in Emutls!Executions, Emutls!Destroy(t) PROVE Emutls!EmutlsInv'
  <2>1. array' = [array EXCEPT ![t] = Emutls!NoArray, ![t] = Emutls!NoArray]
    BY <1>6 DEF Emutls!Destroy, Emutls!EmutlsInv, Emutls!TypeOK
  <2>2. QED
    BY <1>6, <2>1, ArraysMove DEF Emutls!Destroy
<1>7. QED
  BY <1>1, <1>2, <1>3, <1>4, <1>5, <1>6 DEF Emutls!Next

\* Places are unique, so entries of one array that share a place or a variable are one.
LEMMA EmutlsPromise == Emutls!EmutlsInv => OneObjectPerVariable
<1> SUFFICES ASSUME Emutls!EmutlsInv, NEW t \in Emutls!Executions,
                    NEW e \in array[t].entries
             PROVE  /\ e.offset \in 1 .. array[t].capacity
                    /\ e.offset = location[e.variable]
                    /\ \A f \in array[t].entries :
                         e # f => e.offset # f.offset /\ e.variable # f.variable
  BY DEF OneObjectPerVariable, Emutls!OneObjectPerVariable
<1>1. Emutls!ArrayOK(array[t]) /\ array[t].entries \subseteq Emutls!Entries
  BY DEF Emutls!EmutlsInv, Emutls!TypeOK, Emutls!ArrayInv, Emutls!Arrays
<1>2. array[t].capacity \in Nat
  BY DEF Emutls!EmutlsInv, Emutls!TypeOK, Emutls!Arrays
<1>3. ASSUME NEW f \in array[t].entries, e.offset = f.offset \/ e.variable = f.variable
      PROVE  e = f
  <2>1. e.variable \in Variables /\ f.variable \in Variables
    BY <1>1 DEF Emutls!Entries
  <2>2. e.offset = location[e.variable] /\ f.offset = location[f.variable]
    BY <1>1 DEF Emutls!ArrayOK
  <2>3. e.offset # 0
    BY <1>1, <1>2 DEF Emutls!ArrayOK
  <2>4. e.offset = f.offset /\ e.variable = f.variable
    BY <1>3, <2>1, <2>2, <2>3 DEF Emutls!EmutlsInv, Emutls!PlaceInv
  <2>5. QED
    BY <1>1, <2>4 DEF Emutls!Entries
<1>4. QED
  BY <1>1, <1>3 DEF Emutls!ArrayOK

\* For any threads, variables and growth: every thread has one object of each thread_local
\* variable inside its array, whoever used the variable first (__emutls_get_address).
THEOREM EmutlsOneObject == Emutls!Spec => []OneObjectPerVariable
<1>1. Emutls!Spec => []Emutls!EmutlsInv
  BY EmutlsInit, EmutlsNext, PTL DEF Emutls!Spec
<1>2. QED
  BY <1>1, EmutlsPromise, PTL

-----------------------------------------------------------------------------
(* Generations *)

\* A remainder is determined by its equation.
LEMMA Remainder ==
  ASSUME NEW n \in Nat, NEW p \in Nat \ {0}, NEW k \in Nat, NEW r \in Nat, r < p,
         n = p * k + r
  PROVE  n % p = r
<1> DEFINE m == n \div p
           s == n % p
<1>1. m \in Nat /\ s \in Nat /\ n = p * m + s /\ s < p
  OBVIOUS
<1>2. ASSUME NEW d \in Int, d >= 1 PROVE p * d >= p
  BY <1>2
<1> HIDE DEF m, s
<1>3. p * (k - m) = s - r /\ p * (m - k) = r - s
  BY <1>1
<1>4. ~(k - m >= 1) /\ ~(m - k >= 1)
  BY <1>1, <1>2, <1>3
<1>5. r = s
  BY <1>1, <1>3, <1>4
<1>6. QED
  BY <1>5 DEF s

\* The remainder of the next number.
LEMMA NextRemainder ==
  ASSUME NEW a \in Nat, NEW p \in Nat \ {0}
  PROVE  (a + 1) % p = IF (a % p) + 1 = p THEN 0 ELSE (a % p) + 1
<1> DEFINE k == a \div p
           r == a % p
<1>1. k \in Nat /\ r \in Nat /\ a = p * k + r /\ r < p
  OBVIOUS
<1> HIDE DEF k, r
<1>2. CASE r + 1 = p
  <2>1. PICK m \in Nat : m = k + 1
    BY <1>1
  <2>2. a + 1 = p * m + 0 /\ a + 1 \in Nat /\ 0 < p
    BY <1>1, <1>2, <2>1
  <2>3. (a + 1) % p = 0
    BY <2>2, Remainder
  <2>4. QED
    BY <1>2, <2>3 DEF r
<1>3. CASE r + 1 # p
  <2>1. a + 1 = p * k + (r + 1) /\ r + 1 \in Nat /\ r + 1 < p
    BY <1>1, <1>3
  <2>2. (a + 1) % p = r + 1
    BY <1>1, <2>1, Remainder
  <2>3. QED
    BY <1>3, <2>1, <2>2 DEF r
<1>4. QED
  BY <1>2, <1>3 DEF r

LEMMA SmallRemainder ==
  ASSUME NEW g \in 1 .. Generations
  PROVE  g % Generations = IF g = Generations THEN 0 ELSE g
<1>1. Generations \in Nat \ {0}
  BY ThreadKeysAssumption
<1>2. ASSUME g < Generations PROVE g % Generations = g
  BY <1>1, <1>2, g = Generations * 0 + g, Remainder
<1>3. Generations % Generations = 0
  BY <1>1, Generations = Generations * 1 + 0, Remainder
<1>4. QED
  BY <1>1, <1>2, <1>3

\* A birth has one generation.
LEMMA MatchesUnique ==
  ASSUME NEW g \in Nat, NEW h \in Nat, NEW birth \in Nat, Matches(g, birth), Matches(h, birth)
  PROVE  g = h
<1>1. CASE birth = 0
  BY <1>1 DEF Matches
<1>2. CASE birth # 0
  <2>1. /\ g \in 1 .. Generations /\ h \in 1 .. Generations
        /\ g % Generations = h % Generations
    BY <1>2 DEF Matches
  <2>2. QED
    BY <2>1, SmallRemainder, ThreadKeysAssumption
<1>3. QED
  BY <1>1, <1>2

\* Keys of one slot with one generation are a number of full wraps apart.
LEMMA MatchesWrapped ==
  ASSUME NEW g \in Nat, NEW b \in Nat, NEW c \in Nat, Matches(g, b), Matches(g, c)
  PROVE  b % Generations = c % Generations
BY DEF Matches

\* The generation of the next key of a slot.
LEMMA MatchesNext ==
  ASSUME NEW g \in Nat, NEW birth \in Nat, Matches(g, birth)
  PROVE  NextGeneration(g) \in Nat /\ Matches(NextGeneration(g), birth + 1)
<1> DEFINE n == NextGeneration(g)
           G == Generations
<1>1. G \in Nat \ {0}
  BY ThreadKeysAssumption
<1>2. g \in 0 .. G /\ n \in 1 .. G
  BY <1>1 DEF Matches, NextGeneration
<1>3. (birth + 1) % G = IF (birth % G) + 1 = G THEN 0 ELSE (birth % G) + 1
  BY <1>1, NextRemainder
<1>4. n % G = IF n = G THEN 0 ELSE n
  BY <1>2, SmallRemainder
<1>5. CASE birth = 0
  <2>1. g = 0 /\ n = 1
    BY <1>1, <1>5 DEF Matches, NextGeneration
  <2>2. birth % G = 0
    BY <1>1, <1>5, 0 = G * 0 + 0, Remainder
  <2>3. QED
    BY <1>1, <1>2, <1>3, <1>4, <1>5, <2>1, <2>2 DEF Matches
<1>6. CASE birth # 0
  <2>1. g \in 1 .. G /\ birth % G = g % G
    BY <1>6 DEF Matches
  <2>2. g % G = IF g = G THEN 0 ELSE g
    BY <2>1, SmallRemainder
  <2>3. n = IF g = G THEN 1 ELSE g + 1
    BY DEF NextGeneration
  <2>4. birth % G = IF g = G THEN 0 ELSE g
    BY <2>1, <2>2
  <2> HIDE DEF n, G
  <2>5. (birth + 1) % G = n % G
    BY <1>1, <1>3, <1>4, <2>1, <2>3, <2>4
  <2>6. QED
    BY <1>1, <1>2, <1>6, <2>5 DEF n, G, Matches
<1>7. QED
  BY <1>5, <1>6
-----------------------------------------------------------------------------
(* Thread-specific values *)

LEMMA KeysInit == Init => KeysInv
<1> SUFFICES ASSUME Init PROVE KeysInv
  OBVIOUS
<1>1. /\ \A i \in Slots : /\ keys[i] \in KeyRecords
                          /\ keys[i].generation = 0 /\ keys[i].births = 0
      /\ keys \in [Slots -> KeyRecords]
  BY DEF Init, KeyRecords
<1>2. NoValue \in Values /\ NoValue.generation = 0 /\ NoValue.birth = 0
  BY DEF NoValue, Values
<1>3. NoKey \in Handles /\ NotExiting \in Exits /\ NotExiting.pass = 0
  BY DEF NoKey, Handles, NotExiting, Exits
<1>4. TypeOK
  BY <1>1, <1>2, <1>3 DEF Init, TypeOK, Places
<1>5. KeyInv /\ HandleInv
  BY <1>1 DEF Init, KeyInv, HandleInv, Matches
<1>6. ValueInv
  BY <1>1, <1>2 DEF Init, ValueInv, ValueOK, Matches
<1>7. ExitInv /\ PassInv
  BY <1>3 DEF Init, ExitInv, ExitOK, PassInv, PassOK
<1>8. ValuesStayWithKey
  BY DEF Init, ValuesStayWithKey, NoPair
<1>9. QED
  BY <1>4, <1>5, <1>6, <1>7, <1>8 DEF KeysInv

\* What the calls of other threads do to a slot: its key may get younger, and a key that
\* stays may only lose its destructor.
KeysGrow ==
  \A i \in Slots :
    /\ keys[i].births <= keys'[i].births
    /\ keys'[i].births = keys[i].births /\ keys'[i].destructor = 1 =>
         keys[i].destructor = 1 /\ keys'[i].generation = keys[i].generation

\* What has the types that the proofs need of one thread.
LEMMA ThreadTypes ==
  ASSUME TypeOK, NEW t \in Threads
  PROVE  /\ exit[t] \in Exits /\ exit[t].pass \in Nat /\ exit[t].index \in Nat
         /\ exit[t].birth \in Nat /\ exit[t].generation \in Nat
         /\ key[t] \in Handles /\ key[t].generation \in Nat /\ key[t].birth \in Nat
         /\ \A i \in Slots : /\ keys[i] \in KeyRecords /\ keys[i].births \in Nat
                             /\ keys[i].generation \in Nat
                             /\ values[t][i] \in Values /\ values[t][i].birth \in Nat
                             /\ values[t][i].generation \in Nat
BY DEF TypeOK, Exits, Handles, KeyRecords, Values

\* A thread that does nothing keeps its part of the invariant while keys come and go.
LEMMA KeysFrame ==
  ASSUME KeysInv, KeysGrow, TypeOK', NEW u \in Threads,
         pc'[u] = pc[u], exit'[u] = exit[u], values'[u] = values[u]
  PROVE  ExitOK(u)' /\ PassOK(u)' /\ \A i \in Slots : ValueOK(u, i)'
<1>1. ExitOK(u) /\ PassOK(u) /\ \A i \in Slots : ValueOK(u, i)
  BY DEF KeysInv, ExitInv, PassInv, ValueInv
<1>2. /\ exit[u].birth \in Nat
      /\ \A i \in Slots : keys[i].births \in Nat /\ values[u][i].birth \in Nat
  BY ThreadTypes DEF KeysInv
<1>3. \A i \in Slots : keys'[i].births \in Nat
  BY DEF TypeOK, KeyRecords
<1>4. \A i \in Slots : ValueOK(u, i)'
  BY <1>1, <1>2, <1>3 DEF ValueOK, Matches, KeysGrow
<1>5. ASSUME pc[u] = "compare" PROVE CopyOK(u)'
  <2>1. CopyOK(u) /\ exit[u].index \in Slots
    BY <1>1, <1>5 DEF ExitOK
  <2>2. QED
    BY <1>2, <1>3, <2>1 DEF CopyOK, Matches, KeysGrow
<1>6. ExitOK(u)'
  BY <1>1, <1>5 DEF ExitOK
<1>7. ASSUME NEW i \in Slots, Clean(u, i) PROVE Clean(u, i)'
  <2>1. keys'[i].births = keys[i].births \/ keys'[i].births # values[u][i].birth
    BY <1>1, <1>2, <1>3 DEF ValueOK, KeysGrow
  <2>2. QED
    BY <1>7, <2>1 DEF Clean, KeysGrow
<1>8. PassOK(u)'
  BY <1>1, <1>7 DEF PassOK
<1>9. QED
  BY <1>4, <1>6, <1>8

\* What the steps that leave the keys alone need not say of them.
LEMMA KeysStay ==
  ASSUME KeysInv, keys' = keys, issued' = issued
  PROVE  KeysGrow /\ KeyInv' /\ \A h \in issued' : HandleOK(h)'
<1>1. \A i \in Slots : keys[i].births \in Nat
  BY DEF KeysInv, TypeOK, KeyRecords
<1>2. KeysGrow
  BY <1>1 DEF KeysGrow
<1>3. KeyInv' /\ \A h \in issued' : HandleOK(h)'
  BY DEF KeysInv, KeyInv, HandleInv, HandleOK, Matches
<1>4. QED
  BY <1>2, <1>3

\* A step of t in which the keys stay, from what it does to t.
LEMMA ThreadStep ==
  ASSUME KeysInv, keys' = keys, issued' = issued, NEW t \in Threads,
         NEW place \in Places, pc' = [pc EXCEPT ![t] = place],
         NEW h \in Handles, key' = [key EXCEPT ![t] = h],
         place \in {"get", "set"} => HandleOK(h),
         NEW e \in Exits, exit' = [exit EXCEPT ![t] = e],
         values' \in [Threads -> [Slots -> Values]],
         \A u \in Threads \ {t} : values'[u] = values[u],
         \A i \in Slots : ValueOK(t, i)', ExitOK(t)', PassOK(t)', ValuesStayWithKey'
  PROVE  KeysInv'
<1>1. TypeOK'
  BY DEF KeysInv, TypeOK
<1>2. KeysGrow /\ KeyInv' /\ \A g \in issued' : HandleOK(g)'
  BY KeysStay
<1>3. ASSUME NEW u \in Threads, pc'[u] \in {"get", "set"} PROVE HandleOK(key[u])' 
  <2>1. CASE u = t
    <3>1. key'[u] = h /\ HandleOK(h)
      BY <1>3, <2>1 DEF KeysInv, TypeOK
    <3>2. QED
      BY <3>1 DEF HandleOK, Matches
  <2>2. CASE u # t
    <3>1. key'[u] = key[u] /\ HandleOK(key[u])
      BY <1>3, <2>2 DEF KeysInv, TypeOK, HandleInv
    <3>2. QED
      BY <3>1 DEF HandleOK, Matches
  <2>3. QED
    BY <2>1, <2>2
<1>4. HandleInv'
  BY <1>2, <1>3 DEF HandleInv
<1>5. ASSUME NEW u \in Threads
      PROVE  ExitOK(u)' /\ PassOK(u)' /\ \A i \in Slots : ValueOK(u, i)'
  <2>1. CASE u = t
    BY <2>1
  <2>2. CASE u # t
    <3>1. pc'[u] = pc[u] /\ exit'[u] = exit[u] /\ values'[u] = values[u]
      BY <2>2 DEF KeysInv, TypeOK
    <3>2. QED
      BY <1>1, <1>2, <3>1, KeysFrame
  <2>3. QED
    BY <2>1, <2>2
<1>6. QED
  BY <1>1, <1>2, <1>4, <1>5 DEF KeysInv, ValueInv, ExitInv, PassInv
\* A record of a thread that changes its place only.
LEMMA SameParts ==
  ASSUME TypeOK, NEW t \in Threads
  PROVE  /\ exit = [exit EXCEPT ![t] = exit[t]] /\ exit[t] \in Exits
         /\ key = [key EXCEPT ![t] = key[t]] /\ key[t] \in Handles
BY DEF TypeOK

\* A value of t is written at a slot.
LEMMA ValueWritten ==
  ASSUME TypeOK, NEW t \in Threads, NEW i \in Slots, NEW v \in Values,
         values' = [values EXCEPT ![t][i] = v]
  PROVE  /\ values' \in [Threads -> [Slots -> Values]]
         /\ \A u \in Threads \ {t} : values'[u] = values[u]
         /\ values'[t][i] = v
         /\ \A j \in Slots \ {i} : values'[t][j] = values[t][j]
BY DEF TypeOK

\* Values that stay keep what is true of them while the keys stay.
LEMMA ValuesStay ==
  ASSUME KeysInv, keys' = keys, NEW t \in Threads, values'[t] = values[t]
  PROVE  \A i \in Slots : ValueOK(t, i)'
BY DEF KeysInv, ValueInv, ValueOK, Matches

LEMMA NoPairStays == used' = NoPair => ValuesStayWithKey'
BY DEF NoPair, ValuesStayWithKey

\* key_get and key_set up to the release of the mutex.
LEMMA KeyCheckStep ==
  ASSUME KeysInv, NEW t \in Threads, NEW h \in issued, NEW c \in {"get", "set"},
         KeyCheck(t, h, c)
  PROVE  KeysInv'
<1>1. /\ keys' = keys /\ issued' = issued /\ values' = values /\ exit' = exit
      /\ pc[t] = "user" /\ pc' = [pc EXCEPT ![t] = c] /\ key' = [key EXCEPT ![t] = h]
      /\ used' = NoPair
  BY DEF KeyCheck, InUser, GoTo
<1>2. h \in Handles /\ HandleOK(h) /\ TypeOK /\ ExitOK(t) /\ c \in Places
  BY DEF KeysInv, TypeOK, HandleInv, ExitInv, Places
<1>3. pc'[t] = c
  BY <1>1, <1>2 DEF TypeOK
<1>4. exit[t].pass > 0 => exit[t].invoked # 0
  BY <1>1, <1>2 DEF ExitOK
<1>5. ExitOK(t)' /\ PassOK(t)'
  BY <1>1, <1>2, <1>3, <1>4 DEF ExitOK, PassOK
<1>6. (\A i \in Slots : ValueOK(t, i)') /\ ValuesStayWithKey'
  BY <1>1, ValuesStay, NoPairStays
<1>7. values' \in [Threads -> [Slots -> Values]]
  BY <1>1, <1>2 DEF TypeOK
<1>8. exit' = [exit EXCEPT ![t] = exit[t]] /\ exit[t] \in Exits
  BY <1>1, <1>2, SameParts
<1>9. QED
  BY <1>1, <1>2, <1>5, <1>6, <1>7, <1>8, ThreadStep

\* What a call that returns leaves of the end of its thread: nothing, or a pass that has
\* invoked a destructor.
LEMMA CallReturns ==
  ASSUME KeysInv, NEW t \in Threads, pc[t] \in {"get", "set"}, exit' = exit,
         pc' = [pc EXCEPT ![t] = "user"]
  PROVE  ExitOK(t)' /\ PassOK(t)'
<1>1. pc'[t] = "user" /\ ExitOK(t)
  BY DEF KeysInv, TypeOK, ExitInv
<1>2. exit[t].pass > 0 => exit[t].invoked # 0
  BY <1>1 DEF ExitOK
<1>3. QED
  BY <1>1, <1>2 DEF ExitOK, PassOK

LEMMA NoKeyHandle == NoKey \in Handles
BY DEF NoKey, Handles

LEMMA KeyGetStep ==
  ASSUME KeysInv, NEW t \in Threads, KeyGet(t)
  PROVE  KeysInv'
<1> DEFINE h == key[t]
           v == values[t][h.index]
<1>1. /\ keys' = keys /\ issued' = issued /\ values' = values /\ exit' = exit
      /\ pc[t] = "get" /\ pc' = [pc EXCEPT ![t] = "user"]
      /\ key' = [key EXCEPT ![t] = NoKey]
      /\ used' = IF Readable(t, h) THEN Pair(h.birth, v) ELSE NoPair
  BY DEF KeyGet, GoTo
<1>2. TypeOK /\ HandleOK(h) /\ h.index \in Slots
  BY <1>1 DEF KeysInv, HandleInv, HandleOK
<1>3. ExitOK(t)' /\ PassOK(t)' /\ \A i \in Slots : ValueOK(t, i)'
  BY <1>1, CallReturns, ValuesStay
<1>4. ValuesStayWithKey'
  <2>1. CASE ~Readable(t, h)
    BY <1>1, <2>1, NoPairStays
  <2>2. CASE Readable(t, h)
    <3>1. used'.key = h.birth /\ used'.value = v.birth
      BY <1>1, <2>2 DEF Pair
    <3>2. v.generation = h.generation
      BY <2>2 DEF Readable
    <3>3. ValueOK(t, h.index)
      BY <1>2 DEF KeysInv, ValueInv
    <3>4. Matches(h.generation, h.birth) /\ Matches(v.generation, v.birth)
      BY <1>2, <3>3 DEF HandleOK, ValueOK
    <3>5. h.generation \in Nat /\ h.birth \in Nat /\ v.birth \in Nat
      BY <1>2, ThreadTypes
    <3>6. h.birth % Generations = v.birth % Generations
      BY <3>2, <3>4, <3>5, MatchesWrapped
    <3>7. QED
      BY <3>1, <3>6 DEF ValuesStayWithKey, Wrapped
  <2>3. QED
    BY <2>1, <2>2
<1>5. values' \in [Threads -> [Slots -> Values]]
  BY <1>1, <1>2 DEF TypeOK
<1>6. exit' = [exit EXCEPT ![t] = exit[t]] /\ exit[t] \in Exits
  BY <1>1, <1>2, SameParts
<1>7. "user" \in Places
  BY DEF Places
<1>8. QED
  BY <1>1, <1>3, <1>4, <1>5, <1>6, <1>7, NoKeyHandle, ThreadStep

LEMMA KeySetStep ==
  ASSUME KeysInv, NEW t \in Threads, KeySet(t)
  PROVE  KeysInv'
<1> DEFINE h == key[t]
<1>1. PICK set \in {0, 1} :
        values' = [values EXCEPT ![t][h.index] =
                     [set |-> set, generation |-> h.generation, birth |-> h.birth]]
  BY DEF KeySet
<1>2. /\ keys' = keys /\ issued' = issued /\ exit' = exit
      /\ pc[t] = "set" /\ pc' = [pc EXCEPT ![t] = "user"]
      /\ key' = [key EXCEPT ![t] = NoKey] /\ used' = NoPair
  BY DEF KeySet, GoTo
<1>3. TypeOK /\ HandleOK(h) /\ h.index \in Slots
  BY <1>2 DEF KeysInv, HandleInv, HandleOK
<1> DEFINE v == [set |-> set, generation |-> h.generation, birth |-> h.birth]
<1>4. v \in Values /\ v.generation = h.generation /\ v.birth = h.birth
  BY <1>3, ThreadTypes DEF Values
<1> HIDE DEF v
<1>5. /\ values' \in [Threads -> [Slots -> Values]]
      /\ \A u \in Threads \ {t} : values'[u] = values[u]
      /\ values'[t][h.index] = v
      /\ \A j \in Slots \ {h.index} : values'[t][j] = values[t][j]
  BY <1>1, <1>3, <1>4, ValueWritten, ZenonT(40) DEF v
<1>6. \A i \in Slots : ValueOK(t, i)'
  BY <1>2, <1>3, <1>4, <1>5 DEF KeysInv, ValueInv, ValueOK, HandleOK, Matches
<1>7. ExitOK(t)' /\ PassOK(t)' /\ ValuesStayWithKey'
  BY <1>2, CallReturns, NoPairStays
<1>8. exit' = [exit EXCEPT ![t] = exit[t]] /\ exit[t] \in Exits
  BY <1>2, <1>3, SameParts
<1>9. "user" \in Places
  BY DEF Places
<1>10. QED
  BY <1>2, <1>5, <1>6, <1>7, <1>8, <1>9, NoKeyHandle, ThreadStep
\* key_create and key_delete: one slot changes, and no thread moves.
LEMMA SlotChanges ==
  ASSUME KeysInv, NEW i \in Slots, NEW k \in KeyRecords, keys' = [keys EXCEPT ![i] = k],
         Matches(k.generation, k.births), keys[i].births <= k.births,
         k.births = keys[i].births => k.destructor = 0,
         issued' \subseteq Handles,
         \A h \in issued' \ issued :
           h.index = i /\ Matches(h.generation, h.birth) /\ h.birth = k.births,
         values' = values, pc' = pc, key' = key, exit' = exit, used' = NoPair
  PROVE  KeysInv'
<1>1. TypeOK'
  BY DEF KeysInv, TypeOK
<1>2. /\ keys'[i] = k /\ \A j \in Slots \ {i} : keys'[j] = keys[j]
      /\ k.births \in Nat /\ \A j \in Slots : keys[j].births \in Nat
  BY DEF KeysInv, TypeOK, KeyRecords
<1>3. KeysGrow
  BY <1>2 DEF KeysGrow
<1>4. KeyInv'
  BY <1>2 DEF KeysInv, KeyInv, Matches
<1>5. ASSUME NEW h \in Handles, HandleOK(h) PROVE HandleOK(h)'
  <2>1. h.birth \in Nat
    BY DEF Handles
  <2>2. QED
    BY <1>2, <1>5, <2>1 DEF HandleOK, Matches
<1>6. \A h \in issued' : HandleOK(h)'
  <2>1. ASSUME NEW h \in issued' PROVE HandleOK(h)'
    <3>1. CASE h \in issued
      BY <1>5, <3>1 DEF KeysInv, HandleInv, TypeOK
    <3>2. CASE h \notin issued
      BY <1>2, <2>1, <3>2 DEF HandleOK, Matches, Handles
    <3>3. QED
      BY <3>1, <3>2
  <2>2. QED
    BY <2>1
<1>7. ASSUME NEW u \in Threads, pc'[u] \in {"get", "set"} PROVE HandleOK(key[u])'
  <2>1. HandleOK(key[u]) /\ key[u] \in Handles
    BY <1>7 DEF KeysInv, HandleInv, TypeOK
  <2>2. QED
    BY <1>5, <2>1
<1>8. HandleInv'
  BY <1>6, <1>7 DEF HandleInv
<1>9. ASSUME NEW u \in Threads
      PROVE  ExitOK(u)' /\ PassOK(u)' /\ \A j \in Slots : ValueOK(u, j)'
  BY <1>1, <1>3, KeysFrame
<1>10. QED
  BY <1>1, <1>4, <1>8, <1>9, NoPairStays DEF KeysInv, ValueInv, ExitInv, PassInv

LEMMA KeyCreateStep ==
  ASSUME KeysInv, NEW t \in Threads, KeyCreate(t)
  PROVE  KeysInv'
<1>1. PICK i \in Slots, destructor \in {0, 1} :
        LET generation == NextGeneration(keys[i].generation)
        IN  /\ keys' = [keys EXCEPT ![i] = [allocated |-> 1, destructor |-> destructor,
                                            generation |-> generation,
                                            births |-> @.births + 1]]
            /\ issued' = issued \cup {[index |-> i, generation |-> generation,
                                       birth |-> keys[i].births + 1]}
            /\ used' = NoPair
            /\ UNCHANGED <<values, callVars, exit>>
  BY DEF KeyCreate
<1> DEFINE g == NextGeneration(keys[i].generation)
           b == keys[i].births + 1
           k == [allocated |-> 1, destructor |-> destructor, generation |-> g, births |-> b]
           h == [index |-> i, generation |-> g, birth |-> b]
<1>2. /\ keys[i].births \in Nat /\ keys[i].generation \in Nat
      /\ Matches(keys[i].generation, keys[i].births) /\ keys \in [Slots -> KeyRecords]
  BY DEF KeysInv, KeyInv, TypeOK, KeyRecords
<1>3. g \in Nat /\ b \in Nat /\ Matches(g, b) /\ keys[i].births < b
  BY <1>2, MatchesNext
<1>4. keys' = [keys EXCEPT ![i] = k] /\ issued' = issued \cup {h}
  BY <1>1, <1>2
<1> HIDE DEF g, b
<1>5. k \in KeyRecords /\ k.generation = g /\ k.births = b
  BY <1>3 DEF KeyRecords
<1>6. h \in Handles /\ h.index = i /\ h.generation = g /\ h.birth = b
  BY <1>3, ThreadKeysAssumption DEF Handles
<1> HIDE DEF k, h
<1>7. issued' \subseteq Handles
  BY <1>4, <1>6 DEF KeysInv, TypeOK
<1>8. values' = values /\ pc' = pc /\ key' = key /\ exit' = exit /\ used' = NoPair
  BY <1>1 DEF callVars
<1>9. keys[i].births <= k.births /\ k.births # keys[i].births
  BY <1>2, <1>3, <1>5
<1>10. QED
  BY <1>3, <1>4, <1>5, <1>6, <1>7, <1>8, <1>9, SlotChanges

LEMMA KeyDeleteStep ==
  ASSUME KeysInv, NEW t \in Threads, NEW h \in issued, KeyDelete(t, h)
  PROVE  KeysInv'
<1> DEFINE i == h.index
           k == [keys[i] EXCEPT !.allocated = 0, !.destructor = 0]
<1>1. i \in Slots /\ keys[i] \in KeyRecords /\ Matches(keys[i].generation, keys[i].births)
  BY DEF KeysInv, HandleInv, HandleOK, KeyInv, TypeOK
<1>2. keys' = [keys EXCEPT ![i] = k]
  BY <1>1 DEF KeyDelete, KeysInv, TypeOK
<1>3. /\ k \in KeyRecords /\ k.generation = keys[i].generation
      /\ k.births = keys[i].births /\ k.destructor = 0 /\ keys[i].births \in Nat
  BY <1>1 DEF KeyRecords
<1> HIDE DEF k, i
<1>4. /\ issued' = issued /\ issued' \subseteq Handles
      /\ values' = values /\ pc' = pc /\ key' = key /\ exit' = exit /\ used' = NoPair
  BY DEF KeyDelete, callVars, KeysInv, TypeOK
<1>5. keys[i].births <= k.births
  BY <1>3
<1>6. QED
  BY <1>1, <1>2, <1>3, <1>4, <1>5, SlotChanges

\* The steps of a thread at its end change its place, its locals and no key or handle.
LEMMA EndStep ==
  ASSUME KeysInv, keys' = keys, issued' = issued, key' = key, values' = values,
         used' = NoPair, NEW t \in Threads,
         NEW place \in {"scan", "compare", "ended"}, pc' = [pc EXCEPT ![t] = place],
         NEW e \in Exits, exit' = [exit EXCEPT ![t] = e], e.pass > 0, e.index \in Slots,
         place = "compare" => CopyOK(t)',
         e.invoked = 0 => \A i \in Slots : i < e.index \/ place = "ended" => Clean(t, i)
  PROVE  KeysInv'
<1>1. TypeOK /\ place \in Places
  BY DEF KeysInv, Places
<1>2. pc'[t] = place /\ exit'[t] = e
  BY <1>1 DEF TypeOK
<1>3. ExitOK(t)'
  BY <1>2 DEF ExitOK
<1>4. PassOK(t)'
  BY <1>2 DEF PassOK, Clean
<1>5. (\A i \in Slots : ValueOK(t, i)') /\ ValuesStayWithKey'
  BY ValuesStay, NoPairStays
<1>6. key' = [key EXCEPT ![t] = key[t]] /\ key[t] \in Handles
  BY <1>1, SameParts
<1>7. values' \in [Threads -> [Slots -> Values]]
  BY <1>1 DEF TypeOK
<1>8. QED
  BY <1>1, <1>3, <1>4, <1>5, <1>6, <1>7, ThreadStep

LEMMA ThreadExitsStep ==
  ASSUME KeysInv, NEW t \in Threads, ThreadExits(t)
  PROVE  KeysInv'
<1>1. PICK i \in Slots : /\ IsFirst(i, Slots)
                         /\ exit' = [exit EXCEPT ![t] = [@ EXCEPT !.pass = 1, !.index = i]]
  BY DEF ThreadExits
<1> DEFINE e == [exit[t] EXCEPT !.pass = 1, !.index = i]
<1>2. exit' = [exit EXCEPT ![t] = e] /\ exit[t] \in Exits
  BY <1>1 DEF KeysInv, TypeOK
<1>3. e \in Exits /\ e.pass = 1 /\ e.index = i
  BY <1>2, ThreadKeysAssumption DEF Exits
<1> HIDE DEF e
<1>4. /\ keys' = keys /\ issued' = issued /\ key' = key /\ values' = values
      /\ used' = NoPair /\ pc' = [pc EXCEPT ![t] = "scan"]
  BY DEF ThreadExits, GoTo
<1>5. \A j \in Slots : ~(j < i)
  BY <1>1, ThreadKeysAssumption DEF IsFirst
<1>6. e.pass > 0
  BY <1>3
<1>7. QED
  BY <1>2, <1>3, <1>4, <1>5, <1>6, EndStep

LEMMA ScanKeyStep ==
  ASSUME KeysInv, NEW t \in Threads, ScanKey(t)
  PROVE  KeysInv'
<1> DEFINE k == keys[exit[t].index]
           e == [exit[t] EXCEPT !.destructor = k.destructor, !.generation = k.generation,
                                !.birth = k.births]
<1>1. /\ keys' = keys /\ issued' = issued /\ key' = key /\ values' = values
      /\ used' = NoPair /\ pc' = [pc EXCEPT ![t] = "compare"] /\ pc[t] = "scan"
      /\ exit' = [exit EXCEPT ![t] = e]
  BY DEF ScanKey, GoTo, KeysInv, TypeOK
<1>2. TypeOK /\ exit[t] \in Exits /\ ExitOK(t) /\ PassOK(t)
  BY DEF KeysInv, TypeOK, ExitInv, PassInv
<1>3. exit[t].pass > 0 /\ exit[t].index \in Slots
  BY <1>1, <1>2 DEF ExitOK
<1>4. k \in KeyRecords /\ k.births \in Nat /\ Matches(k.generation, k.births)
  BY <1>2, <1>3, ThreadTypes DEF KeysInv, KeyInv
<1>5. k.destructor \in {0, 1} /\ k.generation \in Nat
  BY <1>4 DEF KeyRecords
<1> HIDE DEF k
<1>6. /\ e \in Exits /\ e.pass = exit[t].pass /\ e.index = exit[t].index
      /\ e.invoked = exit[t].invoked /\ e.destructor = k.destructor
      /\ e.generation = k.generation /\ e.birth = k.births
  BY <1>2, <1>4, <1>5 DEF Exits
<1> HIDE DEF e
<1>7. exit'[t] = e
  BY <1>1, <1>2 DEF TypeOK
<1>8. values[t][exit[t].index].birth <= k.births
  BY <1>3 DEF KeysInv, ValueInv, ValueOK, k
<1>9. CopyOK(t)'
  BY <1>1, <1>4, <1>6, <1>7, <1>8 DEF CopyOK, Matches, k
<1>10. e.invoked = 0 => \A i \in Slots : i < e.index => Clean(t, i)
  BY <1>2, <1>3, <1>6 DEF PassOK
<1>11. QED
  BY <1>1, <1>3, <1>6, <1>9, <1>10, EndStep
LEMMA CallDestructorStep ==
  ASSUME KeysInv, NEW t \in Threads, CallDestructor(t)
  PROVE  KeysInv'
<1> DEFINE i == exit[t].index
           v == [values[t][i] EXCEPT !.set = 0]
           e == [exit[t] EXCEPT !.invoked = 1]
<1>1. /\ keys' = keys /\ issued' = issued /\ key' = key
      /\ pc[t] = "compare" /\ pc' = [pc EXCEPT ![t] = "user"] /\ Destroyable(t)
      /\ exit' = [exit EXCEPT ![t] = e]
      /\ used' = Pair(exit[t].birth, values[t][i])
  BY DEF CallDestructor, GoTo, KeysInv, TypeOK
<1>2. TypeOK /\ exit[t] \in Exits /\ ExitOK(t)
  BY DEF KeysInv, TypeOK, ExitInv
<1>3. exit[t].pass > 0 /\ i \in Slots /\ CopyOK(t)
  BY <1>1, <1>2 DEF ExitOK
<1>4. ValueOK(t, i) /\ values[t][i] \in Values /\ values[t][i].birth \in Nat
  BY <1>2, <1>3, ThreadTypes DEF KeysInv, ValueInv
<1>5. values' = [values EXCEPT ![t][i] = v]
  BY <1>2, <1>3 DEF CallDestructor, TypeOK
<1>6. ValuesStayWithKey'
  <2>1. used'.key = exit[t].birth /\ used'.value = values[t][i].birth
    BY <1>1 DEF Pair
  <2>2. values[t][i].generation = exit[t].generation
    BY <1>1 DEF Destroyable
  <2>3. /\ Matches(exit[t].generation, exit[t].birth)
        /\ Matches(values[t][i].generation, values[t][i].birth)
    BY <1>3, <1>4 DEF CopyOK, ValueOK
  <2>4. exit[t].generation \in Nat /\ exit[t].birth \in Nat
    BY <1>2, ThreadTypes
  <2>5. exit[t].birth % Generations = values[t][i].birth % Generations
    BY <1>4, <2>2, <2>3, <2>4, MatchesWrapped
  <2>6. QED
    BY <2>1, <2>5 DEF ValuesStayWithKey, Wrapped
<1>7. /\ v \in Values /\ v.generation = values[t][i].generation
      /\ v.birth = values[t][i].birth
  BY <1>4 DEF Values
<1>8. e \in Exits /\ e.pass = exit[t].pass /\ e.index = i /\ e.invoked = 1
  BY <1>2 DEF Exits
<1> HIDE DEF v, e
<1>9. /\ values' \in [Threads -> [Slots -> Values]]
      /\ \A u \in Threads \ {t} : values'[u] = values[u]
      /\ values'[t][i] = v
      /\ \A j \in Slots \ {i} : values'[t][j] = values[t][j]
  BY <1>2, <1>3, <1>5, <1>7, ValueWritten, ZenonT(40)
<1>10. \A j \in Slots : ValueOK(t, j)'
  BY <1>1, <1>3, <1>4, <1>7, <1>9, SMTT(40) DEF KeysInv, ValueInv, ValueOK, Matches
<1>11. exit'[t] = e /\ pc'[t] = "user"
  BY <1>1, <1>2 DEF TypeOK
<1>12. ExitOK(t)' /\ PassOK(t)'
  BY <1>3, <1>8, <1>11 DEF ExitOK, PassOK
<1>13. "user" \in Places /\ key' = [key EXCEPT ![t] = key[t]] /\ key[t] \in Handles
  BY <1>1, <1>2, SameParts DEF Places
<1>14. QED
  BY <1>1, <1>6, <1>8, <1>9, <1>10, <1>12, <1>13, ThreadStep

\* A slot whose value is not destroyed has none for the destructor of its key, which was
\* copied before or is younger.
LEMMA ComparedIsClean ==
  ASSUME KeysInv, NEW t \in Threads, pc[t] = "compare", ~Destroyable(t)
  PROVE  Clean(t, exit[t].index)
<1> DEFINE i == exit[t].index
           v == values[t][i]
           k == keys[i]
<1>1. i \in Slots /\ CopyOK(t)
  BY DEF KeysInv, ExitInv, ExitOK
<1>2. SUFFICES ASSUME v.set = 1, k.destructor = 1, k.births = v.birth PROVE FALSE
  BY DEF Clean
<1>3. /\ exit[t].birth \in Nat /\ k.births \in Nat /\ v.birth \in Nat
      /\ k.generation \in Nat /\ v.generation \in Nat
  BY <1>1, ThreadTypes DEF KeysInv
<1>4. exit[t].birth <= k.births /\ v.birth <= exit[t].birth
  BY <1>1 DEF CopyOK
<1>5. exit[t].birth = k.births
  BY <1>2, <1>3, <1>4
<1>6. exit[t].destructor = 1 /\ exit[t].generation = k.generation
  BY <1>1, <1>2, <1>5 DEF CopyOK
<1>7. Matches(k.generation, k.births) /\ Matches(v.generation, v.birth)
  BY <1>1 DEF KeysInv, KeyInv, ValueInv, ValueOK
<1>8. v.generation = k.generation
  BY <1>2, <1>3, <1>7, MatchesUnique
<1>9. QED
  BY <1>2, <1>6, <1>8 DEF Destroyable

\* The loops of run_thread_specific_destructors go on after a clean slot or a destructor.
LEMMA AdvanceStep ==
  ASSUME KeysInv, NEW t \in Threads, Advance(t), exit[t].pass > 0,
         exit[t].invoked = 0 =>
           \A i \in Slots : i <= exit[t].index => Clean(t, i)
  PROVE  KeysInv'
<1>1. /\ keys' = keys /\ issued' = issued /\ key' = key /\ values' = values
      /\ used' = NoPair
  BY DEF Advance
<1>2. TypeOK /\ exit[t] \in Exits /\ exit[t].index \in Slots
  BY DEF KeysInv, TypeOK, ExitInv, ExitOK
<1>3. Slots \subseteq Nat /\ exit[t].index \in Nat /\ exit[t].pass \in Nat
  BY <1>2, ThreadKeysAssumption DEF Exits
<1>4. ASSUME NEW i \in Above(exit[t].index), IsFirst(i, Above(exit[t].index)),
             exit' = [exit EXCEPT ![t] = [@ EXCEPT !.index = i]], GoTo(t, "scan")
      PROVE  KeysInv'
  <2> DEFINE e == [exit[t] EXCEPT !.index = i]
  <2>1. i \in Slots /\ i \in Nat
    BY <1>3 DEF Above
  <2>2. exit' = [exit EXCEPT ![t] = e]
    BY <1>2, <1>4 DEF TypeOK
  <2>3. e \in Exits /\ e.index = i /\ e.pass = exit[t].pass /\ e.invoked = exit[t].invoked
    BY <1>2, <2>1 DEF Exits
  <2> HIDE DEF e
  <2>4. \A j \in Slots : j < i => j <= exit[t].index
    BY <1>3, <1>4, <2>1 DEF IsFirst, Above
  <2>5. QED
    BY <1>1, <1>4, <2>1, <2>2, <2>3, <2>4, EndStep DEF GoTo
<1>5. ASSUME NEW i \in Slots, IsFirst(i, Slots),
             exit' = [exit EXCEPT ![t] = [@ EXCEPT !.index = i, !.pass = exit[t].pass + 1,
                                                    !.invoked = 0]],
             GoTo(t, "scan")
      PROVE  KeysInv'
  <2> DEFINE n == exit[t].pass + 1
            e == [exit[t] EXCEPT !.index = i, !.pass = n, !.invoked = 0]
  <2>1. i \in Nat /\ \A j \in Slots : ~(j < i)
    BY <1>3, <1>5 DEF IsFirst
  <2>2. exit' = [exit EXCEPT ![t] = e]
    BY <1>2, <1>5 DEF TypeOK
  <2>3. n \in Nat /\ n > 0
    BY <1>3
  <2> HIDE DEF n
  <2>4. e \in Exits /\ e.index = i /\ e.pass = n
    BY <1>2, <2>1, <2>3 DEF Exits
  <2> HIDE DEF e
  <2>5. pc' = [pc EXCEPT ![t] = "scan"]
    BY <1>5 DEF GoTo
  <2>6. QED
    BY <1>1, <2>1, <2>2, <2>3, <2>4, <2>5, EndStep
<1>6. ASSUME Above(exit[t].index) = {}, exit' = exit, GoTo(t, "ended")
      PROVE  KeysInv'
  <2>1. \A j \in Slots : j <= exit[t].index
    BY <1>3, <1>6 DEF Above
  <2>2. exit' = [exit EXCEPT ![t] = exit[t]]
    BY <1>2, <1>6, SameParts
  <2>3. QED
    BY <1>1, <1>2, <1>6, <2>1, <2>2, EndStep DEF GoTo
<1>7. QED
  BY <1>4, <1>5, <1>6 DEF Advance

LEMMA KeysNext == KeysInv /\ [Next]_vars => KeysInv'
<1> SUFFICES ASSUME KeysInv, [Next]_vars PROVE KeysInv'
  OBVIOUS
<1>1. CASE UNCHANGED vars
  BY <1>1 DEF vars, KeysInv, TypeOK, KeyInv, HandleInv, HandleOK, ValueInv, ValueOK,
              ExitInv, ExitOK, CopyOK, PassInv, PassOK, Clean, ValuesStayWithKey, Matches
<1>2. CASE Next
  <2> PICK t \in Threads :
        \/ KeyCreate(t)
        \/ \E h \in issued : KeyDelete(t, h) \/ KeyCheck(t, h, "get") \/ KeyCheck(t, h, "set")
        \/ KeyGet(t) \/ KeySet(t)
        \/ ThreadExits(t) \/ ScanKey(t) \/ CallDestructor(t)
        \/ NothingToDestroy(t) \/ DestructorReturns(t)
    BY <1>2 DEF Next
  <2>1. CASE KeyCreate(t)
    BY <2>1, KeyCreateStep
  <2>2. CASE \E h \in issued : KeyDelete(t, h) \/ KeyCheck(t, h, "get") \/ KeyCheck(t, h, "set")
    BY <2>2, KeyDeleteStep, KeyCheckStep
  <2>3. CASE KeyGet(t) \/ KeySet(t)
    BY <2>3, KeyGetStep, KeySetStep
  <2>4. CASE ThreadExits(t) \/ ScanKey(t) \/ CallDestructor(t)
    BY <2>4, ThreadExitsStep, ScanKeyStep, CallDestructorStep
  <2>5. CASE NothingToDestroy(t)
    <3>1. pc[t] = "compare" /\ ~Destroyable(t) /\ Advance(t)
      BY <2>5 DEF NothingToDestroy
    <3>2. Clean(t, exit[t].index) /\ PassOK(t) /\ ExitOK(t) /\ TypeOK
      BY <3>1, ComparedIsClean DEF KeysInv, PassInv, ExitInv
    <3>3. exit[t].pass > 0 /\ exit[t].index \in Nat /\ Slots \subseteq Nat
      BY <3>1, <3>2, ThreadTypes, ThreadKeysAssumption DEF ExitOK
    <3>4. exit[t].invoked = 0 => \A i \in Slots : i <= exit[t].index => Clean(t, i)
      BY <3>2, <3>3 DEF PassOK
    <3>5. QED
      BY <3>1, <3>3, <3>4, AdvanceStep
  <2>6. CASE DestructorReturns(t)
    <3>1. pc[t] = "user" /\ exit[t].pass > 0 /\ Advance(t)
      BY <2>6 DEF DestructorReturns, InUser
    <3>2. exit[t].invoked # 0
      BY <3>1 DEF KeysInv, ExitInv, ExitOK
    <3>3. QED
      BY <3>1, <3>2, AdvanceStep
  <2>7. QED
    BY <2>1, <2>2, <2>3, <2>4, <2>5, <2>6
<1>3. QED
  BY <1>1, <1>2

\* The inductive invariant of keys and values, for any threads, slots, generations and
\* passes.
THEOREM KeysInvariant == Spec => []KeysInv
BY KeysInit, KeysNext, PTL DEF Spec

\* What key_get returns and what a key's destructor gets was set through that key, short of
\* a full wrap of the slot's generations.
THEOREM KeyValuesStay == Spec => []ValuesStayWithKey
<1>1. KeysInv => ValuesStayWithKey
  BY DEF KeysInv
<1>2. QED
  BY <1>1, KeysInvariant, PTL

\* run_thread_specific_destructors leaves no value of a key with a destructor when it stops
\* before its last pass.
THEOREM EarlyEndLeavesNothing == Spec => []EarlyEndIsClean
<1>1. KeysInv => EarlyEndIsClean
  <2> SUFFICES ASSUME KeysInv, NEW t \in Threads, pc[t] = "ended", exit[t].invoked = 0
               PROVE  \A i \in Slots : Clean(t, i)
    BY DEF EarlyEndIsClean, Clean
  <2>1. ExitOK(t) /\ PassOK(t)
    BY DEF KeysInv, ExitInv, PassInv
  <2>2. QED
    BY <2>1 DEF ExitOK, PassOK
<1>2. QED
  BY <1>1, KeysInvariant, PTL
-----------------------------------------------------------------------------
(* Lists of destructors and callbacks *)

\* An object goes before those already in a list.
LEMMA Prepended ==
  ASSUME NEW s \in Seq(Nat), NEW n \in Nat, Exit!Once(s), ~Exit!Holds(s, n), NEW r,
         r = <<n>> \o s
  PROVE  /\ r \in Seq(Nat) /\ Exit!Once(r) /\ Exit!Holds(r, n)
         /\ \A i \in DOMAIN r : r[i] = n \/ Exit!Holds(s, r[i])
         /\ \A x : Exit!Holds(s, x) => Exit!Holds(r, x)
<1>1. /\ r \in Seq(Nat) /\ Len(s) \in Nat /\ Len(r) = Len(s) + 1 /\ r[1] = n
      /\ DOMAIN r = 1 .. Len(s) + 1 /\ DOMAIN s = 1 .. Len(s)
  OBVIOUS
<1>2. \A i \in 2 .. Len(s) + 1 : r[i] = s[i - 1]
  BY <1>1
<1>3. Exit!Holds(r, n)
  BY <1>1 DEF Exit!Holds
<1>4. ASSUME NEW i \in DOMAIN r PROVE i = 1 \/ (i - 1 \in DOMAIN s /\ r[i] = s[i - 1])
  BY <1>1, <1>2
<1>5. \A i \in DOMAIN r : r[i] = n \/ Exit!Holds(s, r[i])
  BY <1>1, <1>4 DEF Exit!Holds
<1>6. Exit!Once(r)
  BY <1>1, <1>4 DEF Exit!Once, Exit!Holds
<1>7. ASSUME NEW x, Exit!Holds(s, x) PROVE Exit!Holds(r, x)
  <2>1. PICK i \in DOMAIN s : s[i] = x
    BY <1>7 DEF Exit!Holds
  <2>2. i + 1 \in DOMAIN r /\ r[i + 1] = s[i]
    BY <1>1, <1>2
  <2>3. QED
    BY <2>1, <2>2 DEF Exit!Holds
<1>8. QED
  BY <1>1, <1>3, <1>5, <1>6, <1>7

\* The first object is taken from a list.
LEMMA Taken ==
  ASSUME NEW s \in Seq(Nat), s # <<>>, Exit!Once(s), NEW r, r = Tail(s)
  PROVE  /\ r \in Seq(Nat) /\ Exit!Once(r) /\ Exit!Holds(s, Head(s)) /\ Head(s) \in Nat
         /\ \A i \in DOMAIN r : Exit!Holds(s, r[i]) /\ r[i] # Head(s)
         /\ \A x : Exit!Holds(s, x) => x = Head(s) \/ Exit!Holds(r, x)
<1>1. /\ r \in Seq(Nat) /\ Len(s) \in Nat /\ Len(s) > 0 /\ Len(r) = Len(s) - 1
      /\ Head(s) = s[1] /\ DOMAIN r = 1 .. Len(s) - 1 /\ DOMAIN s = 1 .. Len(s)
  OBVIOUS
<1>2. \A i \in DOMAIN r : r[i] = s[i + 1] /\ i + 1 \in DOMAIN s
  BY <1>1
<1>3. Exit!Holds(s, Head(s)) /\ Head(s) \in Nat
  BY <1>1 DEF Exit!Holds
<1>4. \A i \in DOMAIN r : Exit!Holds(s, r[i]) /\ r[i] # Head(s)
  BY <1>1, <1>2, SMTT(40) DEF Exit!Holds, Exit!Once
<1>5. Exit!Once(r)
  BY <1>1, <1>2 DEF Exit!Once
<1>6. ASSUME NEW x, Exit!Holds(s, x), x # Head(s) PROVE Exit!Holds(r, x)
  <2>1. PICK i \in DOMAIN s : s[i] = x
    BY <1>6 DEF Exit!Holds
  <2>2. i - 1 \in DOMAIN r /\ r[i - 1] = s[i]
    BY <1>1, <1>2, <1>6, <2>1
  <2>3. QED
    BY <2>1, <2>2 DEF Exit!Holds
<1>7. QED
  BY <1>1, <1>3, <1>4, <1>5, <1>6

LEMMA EmptyList ==
  /\ <<>> \in Seq(Nat) /\ Exit!Once(<<>>) /\ (\A x : ~Exit!Holds(<<>>, x))
  /\ DOMAIN <<>> = {}
BY DEF Exit!Once, Exit!Holds

\* What an object held by a sound list is.
LEMMA HeldWaits ==
  ASSUME NEW s, NEW t, NEW kind, Exit!Sound(s, t, kind), NEW x, Exit!Holds(s, x)
  PROVE  Exit!Waits(x, t, kind)
BY DEF Exit!Sound, Exit!Holds

-----------------------------------------------------------------------------
(* The end of a thread *)

LEMMA ExitInit == Exit!Init => Exit!ExitInv
<1> SUFFICES ASSUME Exit!Init PROVE Exit!ExitInv
  OBVIOUS
<1>1. Exit!TypeOK
  BY EmptyList DEF Exit!Init, Exit!TypeOK, Exit!Steps
<1>2. \A t, kind : Exit!Sound(<<>>, t, kind)
  BY EmptyList DEF Exit!Sound
<1>3. Exit!StartupInv
  BY <1>2 DEF Exit!Init, Exit!StartupInv
<1>4. Exit!ThreadInv
  BY <1>2, EmptyList
     DEF Exit!Init, Exit!ThreadInv, Exit!IdleOK, Exit!CleanupOK, Exit!ListOK
<1>5. Exit!ObjectInv /\ Exit!OrderInv
  BY EmptyList DEF Exit!Init, Exit!ObjectInv, Exit!OrderInv
<1>6. QED
  BY <1>1, <1>3, <1>4, <1>5 DEF Exit!ExitInv

\* The invariant of one thread and one object, opened.
LEMMA ExitParts ==
  ASSUME Exit!ExitInv
  PROVE  /\ Exit!TypeOK /\ Exit!StartupInv
         /\ \A t \in Exit!AllThreads : Exit!IdleOK(t) /\ Exit!CleanupOK(t) /\ Exit!ListOK(t)
         /\ \A x \in DOMAIN objects : Exit!KeptOK(x) /\ Exit!ReachedOK(x)
         /\ \A x, y \in DOMAIN objects : Exit!OrderOK(x, y)
         /\ \A x \in DOMAIN objects : objects[x] \in Exit!Registrations
         /\ \A x \in DOMAIN objects : objects[x].thread \in Exit!AllThreads
         /\ \A x \in DOMAIN objects : ran[x] \in Nat /\ x \in Nat
         /\ DOMAIN objects = 1 .. Len(objects) /\ DOMAIN ran = DOMAIN objects
<1>1. Exit!TypeOK
  BY DEF Exit!ExitInv
<1>2. /\ \A x \in DOMAIN objects : objects[x] \in Exit!Registrations
      /\ \A x \in DOMAIN objects : ran[x] \in Nat /\ x \in Nat
      /\ DOMAIN objects = 1 .. Len(objects) /\ DOMAIN ran = DOMAIN objects
  BY <1>1 DEF Exit!TypeOK
<1>3. \A x \in DOMAIN objects : objects[x].thread \in Exit!AllThreads
  BY <1>2 DEF Exit!Registrations
<1>4. QED
  BY <1>1, <1>2, <1>3 DEF Exit!ExitInv, Exit!ThreadInv, Exit!ObjectInv, Exit!OrderInv

\* A step that only moves a thread, past the start of its end or further.
LEMMA MoveStep ==
  ASSUME Exit!ExitInv, NEW t \in Exit!AllThreads,
         NEW place \in Exit!Steps \ {"none", "deleted"}, NEW b \in BOOLEAN,
         at[t] \notin {"none", "deleted"},
         at' = [at EXCEPT ![t] = place],
         cleanup_started' = [cleanup_started EXCEPT ![t] = b],
         startup_destructors' = startup_destructors, tls_destructors' = tls_destructors,
         callbacks' = callbacks, calling' = calling, pass' = pass,
         objects' = objects, ran' = ran,
         \/ place \in {"function", "thread_locals", "destructor", "keys", "cleaned"}
         \/ place = "notify" /\ ~b
         => calling[t] = <<>>,
         place = "cleaned" /\ pass[t] < Passes => callbacks[t] = <<>>,
         place \in {"thread_locals", "destructor", "keys", "list", "callback", "cleaned"} => b,
         place \in {"keys", "list", "callback", "cleaned"} =>
           \A x \in DOMAIN objects :
             /\ objects[x].thread = t /\ objects[x].kind = "thread_local"
             /\ Exit!BeforeKeys(x)
             => ran[x] = 1,
         \/ place \in {"function", "thread_locals", "destructor"}
         \/ place = "notify" /\ ~b
         => \A x \in DOMAIN objects : objects[x].thread = t => Exit!BeforeKeys(x)
  PROVE  Exit!ExitInv'
<1>1. Exit!TypeOK /\ Exit!StartupInv
  BY ExitParts
<1>2. /\ at'[t] = place /\ cleanup_started'[t] = b
      /\ \A u \in Exit!AllThreads \ {t} :
           at'[u] = at[u] /\ cleanup_started'[u] = cleanup_started[u]
  BY <1>1 DEF Exit!TypeOK
<1>3. Exit!TypeOK'
  BY <1>1 DEF Exit!TypeOK
<1>4. Application \in Exit!AllThreads
  BY DEF Exit!AllThreads
<1>5. Exit!StartupInv'
  BY <1>1, <1>2, <1>4 DEF Exit!StartupInv, Exit!Sound, Exit!Waits, Exit!Once
<1>6. ASSUME NEW u \in Exit!AllThreads
      PROVE  (Exit!IdleOK(u) /\ Exit!CleanupOK(u) /\ Exit!ListOK(u))'
  <2>1. Exit!IdleOK(u) /\ Exit!CleanupOK(u) /\ Exit!ListOK(u)
    BY ExitParts
  <2>2. Exit!IdleOK(u)'
    BY <1>2, <2>1 DEF Exit!IdleOK
  <2>3. Exit!CleanupOK(u)'
    BY <1>2, <2>1 DEF Exit!CleanupOK
  <2>4. Exit!ListOK(u)'
    BY <2>1 DEF Exit!ListOK, Exit!Sound, Exit!Waits, Exit!Once, Exit!Holds
  <2>5. QED
    BY <2>2, <2>3, <2>4
<1>7. ASSUME NEW x \in DOMAIN objects PROVE (Exit!KeptOK(x) /\ Exit!ReachedOK(x))'
  <2>1. Exit!KeptOK(x) /\ Exit!ReachedOK(x) /\ objects[x].thread \in Exit!AllThreads
    BY ExitParts
  <2>2. Exit!KeptOK(x)'
    BY <1>2, <2>1 DEF Exit!KeptOK, Exit!Holds
  <2>3. Exit!ReachedOK(x)'
    BY <1>2, <2>1 DEF Exit!ReachedOK, Exit!BeforeKeys
  <2>4. QED
    BY <2>2, <2>3
<1>8. Exit!OrderInv'
  BY DEF Exit!ExitInv, Exit!OrderInv, Exit!OrderOK, Exit!BeforeKeys
<1>9. QED
  BY <1>3, <1>5, <1>6, <1>7, <1>8 DEF Exit!ExitInv, Exit!ThreadInv, Exit!ObjectInv
\* The part of a step that a move leaves alone.
LEMMA CleanupStays ==
  ASSUME Exit!TypeOK, NEW t \in Exit!AllThreads
  PROVE  /\ cleanup_started = [cleanup_started EXCEPT ![t] = cleanup_started[t]]
         /\ cleanup_started[t] \in BOOLEAN
BY DEF Exit!TypeOK

\* The start of cleanup_thread_runtime, with nothing called and no key reached yet.
LEMMA CleanupStep ==
  ASSUME Exit!ExitInv, NEW t \in Exit!AllThreads, Exit!Cleanup(t),
         \/ at[t] = "function"
         \/ at[t] \in {"notify", "cleaned"} /\ ~cleanup_started[t],
         UNCHANGED <<startup_destructors, tls_destructors, callbacks, calling, pass,
                     objects, ran>>
  PROVE  Exit!ExitInv'
<1>1. /\ at' = [at EXCEPT ![t] = "thread_locals"]
      /\ cleanup_started' = [cleanup_started EXCEPT ![t] = TRUE]
  BY DEF Exit!Cleanup, Exit!Move, Exit!FirstPhase
<1>2. Exit!IdleOK(t) /\ Exit!CleanupOK(t)
  BY ExitParts
<1>3. at[t] = "function" \/ (at[t] = "notify" /\ ~cleanup_started[t])
  <2>1. at[t] = "cleaned" => cleanup_started[t]
    BY <1>2 DEF Exit!CleanupOK
  <2>2. QED
    BY <2>1
<1>4. calling[t] = <<>>
  BY <1>2, <1>3 DEF Exit!IdleOK
<1>5. \A x \in DOMAIN objects : objects[x].thread = t => Exit!BeforeKeys(x)
  BY <1>3, ExitParts DEF Exit!ReachedOK
<1>6. "thread_locals" \in Exit!Steps \ {"none", "deleted"} /\ TRUE \in BOOLEAN
  BY DEF Exit!Steps
<1>7. QED
  BY <1>1, <1>3, <1>4, <1>5, <1>6, MoveStep

\* A thread leaves user code for good, or notifies.
LEMMA LeaveStep ==
  ASSUME Exit!ExitInv, NEW t \in Exit!AllThreads,
         NEW place \in {"notify", "exited", "terminated"},
         at' = [at EXCEPT ![t] = place],
         Exit!InUserCode(t) \/ (at[t] \in {"notify", "cleaned"} /\ place = "exited"),
         UNCHANGED <<startup_destructors, cleanup_started, tls_destructors, callbacks,
                     calling, pass, objects, ran>>
  PROVE  Exit!ExitInv'
<1> DEFINE b == cleanup_started[t]
<1>1. Exit!TypeOK /\ Exit!IdleOK(t) /\ Exit!CleanupOK(t)
  BY ExitParts
<1>2. cleanup_started' = [cleanup_started EXCEPT ![t] = b] /\ b \in BOOLEAN
  BY <1>1, CleanupStays
<1>3. place \in Exit!Steps \ {"none", "deleted"} /\ at[t] \notin {"none", "deleted"}
  BY DEF Exit!Steps, Exit!InUserCode
<1>4. place = "notify" /\ ~b => at[t] = "function"
  BY <1>1 DEF Exit!CleanupOK, Exit!InUserCode
<1>5. place = "notify" /\ ~b => calling[t] = <<>>
  BY <1>1, <1>4 DEF Exit!IdleOK
<1>6. place = "notify" /\ ~b =>
        \A x \in DOMAIN objects : objects[x].thread = t => Exit!BeforeKeys(x)
  BY <1>4, ExitParts DEF Exit!ReachedOK
<1> HIDE DEF b
<1>7. QED
  BY <1>2, <1>3, <1>5, <1>6, MoveStep

\* A thread goes on with its thread_local destructors, or comes back from one.
LEMMA DestructorReturnsStep ==
  ASSUME Exit!ExitInv, NEW t \in Exit!AllThreads, Exit!DestructorReturns(t)
  PROVE  Exit!ExitInv'
<1>1. /\ at[t] = "destructor" /\ at' = [at EXCEPT ![t] = "thread_locals"]
      /\ UNCHANGED <<startup_destructors, cleanup_started, tls_destructors, callbacks,
                     calling, pass, objects, ran>>
  BY DEF Exit!DestructorReturns, Exit!Move
<1>2. Exit!TypeOK /\ Exit!IdleOK(t) /\ Exit!CleanupOK(t)
  BY ExitParts
<1>3. calling[t] = <<>> /\ cleanup_started[t]
  BY <1>1, <1>2 DEF Exit!IdleOK, Exit!CleanupOK
<1>4. \A x \in DOMAIN objects : objects[x].thread = t => Exit!BeforeKeys(x)
  BY <1>1, ExitParts DEF Exit!ReachedOK
<1>5. "thread_locals" \in Exit!Steps \ {"none", "deleted"}
  BY DEF Exit!Steps
<1>6. /\ cleanup_started' = [cleanup_started EXCEPT ![t] = cleanup_started[t]]
      /\ cleanup_started[t] \in BOOLEAN
  BY <1>1, <1>2, CleanupStays
<1>7. QED
  BY <1>1, <1>3, <1>4, <1>5, <1>6, MoveStep

\* A thread whose list of thread_local destructors is empty has run them all.
LEMMA AllDestroyed ==
  ASSUME Exit!ExitInv, NEW t \in Exit!AllThreads, tls_destructors[t] = <<>>,
         at[t] = "thread_locals",
         NEW x \in DOMAIN objects, objects[x].thread = t, objects[x].kind = "thread_local"
  PROVE  ran[x] = 1
<1>1. Exit!KeptOK(x) /\ Exit!StartupInv
  BY ExitParts
<1>2. t = Application => startup_destructors = <<>>
  BY <1>1 DEF Exit!StartupInv
<1>3. QED
  BY <1>1, <1>2, EmptyList DEF Exit!KeptOK

\* The steps between the keys, the list of callbacks and the end.
LEMMA KeysMoveStep ==
  ASSUME Exit!ExitInv, NEW t \in Exit!AllThreads,
         NEW place \in {"keys", "list", "cleaned"}, at' = [at EXCEPT ![t] = place],
         \/ at[t] = "thread_locals" /\ tls_destructors[t] = <<>> /\ place = "keys"
         \/ at[t] = "list" /\ calling[t] = <<>> /\ place = "keys"
         \/ at[t] = "callback" /\ place = "list"
         \/ /\ at[t] = "keys" /\ place = "cleaned"
            /\ callbacks[t] = <<>> \/ pass[t] = Passes,
         UNCHANGED <<startup_destructors, cleanup_started, tls_destructors, callbacks,
                     calling, pass, objects, ran>>
  PROVE  Exit!ExitInv'
<1>1. Exit!TypeOK /\ Exit!IdleOK(t) /\ Exit!CleanupOK(t)
  BY ExitParts
<1>2. cleanup_started[t] /\ at[t] \notin {"none", "deleted"}
  BY <1>1 DEF Exit!CleanupOK
<1>3. place # "list" => calling[t] = <<>>
  BY <1>1 DEF Exit!IdleOK
<1>4. place = "cleaned" /\ pass[t] < Passes => callbacks[t] = <<>>
  BY <1>1, ThreadKeysAssumption DEF Exit!TypeOK
<1>5. \A x \in DOMAIN objects :
        objects[x].thread = t /\ objects[x].kind = "thread_local" /\ Exit!BeforeKeys(x)
        => ran[x] = 1
  BY AllDestroyed, ExitParts DEF Exit!ReachedOK
<1>6. place \in Exit!Steps \ {"none", "deleted"}
  BY DEF Exit!Steps
<1>7. /\ cleanup_started' = [cleanup_started EXCEPT ![t] = cleanup_started[t]]
      /\ cleanup_started[t] \in BOOLEAN
  BY <1>1, CleanupStays
<1>8. QED
  BY <1>2, <1>3, <1>4, <1>5, <1>6, <1>7, MoveStep
\* A registration adds one object, the newest, which has not run.
LEMMA Registered ==
  ASSUME Exit!ExitInv, NEW t \in Exit!AllThreads, NEW kind \in {"thread_local", "notifier"},
         Exit!Register(t, kind)
  PROVE  /\ objects' \in Seq(Exit!Registrations) /\ ran' \in Seq(Nat)
         /\ Len(ran') = Len(objects')
         /\ Exit!Newest \in Nat /\ Exit!Newest \notin DOMAIN objects
         /\ DOMAIN objects' = DOMAIN objects \cup {Exit!Newest}
         /\ \A x \in DOMAIN objects :
              objects'[x] = objects[x] /\ ran'[x] = ran[x] /\ x < Exit!Newest
         /\ objects'[Exit!Newest].thread = t /\ objects'[Exit!Newest].kind = kind
         /\ objects'[Exit!Newest].phase = at[t] /\ ran'[Exit!Newest] = 0
<1> DEFINE o == [thread |-> t, kind |-> kind, phase |-> at[t]]
<1>1. Exit!TypeOK
  BY ExitParts
<1>2. objects' = Append(objects, o) /\ ran' = Append(ran, 0)
  BY DEF Exit!Register
<1>3. o \in Exit!Registrations /\ o.thread = t /\ o.kind = kind /\ o.phase = at[t]
  BY <1>1 DEF Exit!TypeOK, Exit!Registrations
<1> HIDE DEF o
<1>4. /\ objects \in Seq(Exit!Registrations) /\ ran \in Seq(Nat) /\ Len(ran) = Len(objects)
      /\ Len(objects) \in Nat
  BY <1>1 DEF Exit!TypeOK
<1>5. /\ objects' \in Seq(Exit!Registrations) /\ ran' \in Seq(Nat)
      /\ Len(objects') = Len(objects) + 1 /\ Len(ran') = Len(objects) + 1
      /\ objects'[Len(objects) + 1] = o /\ ran'[Len(objects) + 1] = 0
      /\ \A x \in 1 .. Len(objects) : objects'[x] = objects[x] /\ ran'[x] = ran[x]
  BY <1>2, <1>3, <1>4
<1>6. DOMAIN objects = 1 .. Len(objects) /\ DOMAIN objects' = 1 .. Len(objects) + 1
  BY <1>4, <1>5
<1>7. QED
  BY <1>3, <1>4, <1>5, <1>6 DEF Exit!Newest

\* Objects that wait go on waiting when others are registered, and no list holds the newest.
LEMMA StillWaits ==
  ASSUME Exit!ExitInv, NEW t \in Exit!AllThreads, NEW kind \in {"thread_local", "notifier"},
         Exit!Register(t, kind), NEW n, n = Exit!Newest
  PROVE  /\ \A x, u, k : Exit!Waits(x, u, k) => Exit!Waits(x, u, k)'
         /\ \A s, u, k : Exit!Sound(s, u, k) => ~Exit!Holds(s, n)
         /\ Exit!Waits(n, t, kind)'
<1>1. \A x, u, k : Exit!Waits(x, u, k) => Exit!Waits(x, u, k)'
  BY Registered DEF Exit!Waits
<1>2. \A s, u, k : Exit!Sound(s, u, k) => ~Exit!Holds(s, n)
  BY Registered, HeldWaits DEF Exit!Waits
<1>3. QED
  BY <1>1, <1>2, Registered DEF Exit!Waits

\* A list that a registration does not touch stays sound.
LEMMA ListStays ==
  ASSUME Exit!ExitInv, NEW t \in Exit!AllThreads, NEW kind \in {"thread_local", "notifier"},
         Exit!Register(t, kind), NEW s \in Seq(Nat), NEW u, NEW k, Exit!Sound(s, u, k)
  PROVE  Exit!Sound(s, u, k)'
<1> DEFINE n == Exit!Newest
<1>1. \A i \in DOMAIN s : Exit!Waits(s[i], u, k)'
  BY StillWaits DEF Exit!Sound
<1>2. QED
  BY <1>1 DEF Exit!Sound, Exit!Once

\* r is the list s with n before it.
Before(n, s, r) == r = <<n>> \o s

\* The list that gets the newest object.
LEMMA ListGrows ==
  ASSUME Exit!ExitInv, NEW t \in Exit!AllThreads, NEW kind \in {"thread_local", "notifier"},
         Exit!Register(t, kind), NEW n, n = Exit!Newest,
         NEW s \in Seq(Nat), Exit!Sound(s, t, kind), NEW r, Before(n, s, r)
  PROVE  /\ r \in Seq(Nat) /\ Exit!Sound(r, t, kind)' /\ Exit!Holds(r, n)
         /\ \A x : Exit!Holds(s, x) => Exit!Holds(r, x)
         /\ \A i \in DOMAIN r : r[i] = n \/ Exit!Holds(s, r[i])
<1>1. n \in Nat /\ ~Exit!Holds(s, n) /\ Exit!Once(s)
  BY Registered, StillWaits DEF Exit!Sound
<1>2. /\ r \in Seq(Nat) /\ Exit!Once(r) /\ Exit!Holds(r, n)
      /\ \A i \in DOMAIN r : r[i] = n \/ Exit!Holds(s, r[i])
      /\ \A x : Exit!Holds(s, x) => Exit!Holds(r, x)
  BY <1>1, Prepended DEF Before
<1>3. ASSUME NEW i \in DOMAIN r PROVE Exit!Waits(r[i], t, kind)'
  BY <1>2, StillWaits, HeldWaits
<1>4. Exit!Sound(r, t, kind)'
  BY <1>2, <1>3 DEF Exit!Sound, Exit!Once
<1>5. QED
  BY <1>2, <1>4

\* A registration keeps the invariant if the lists grow as they should.
LEMMA RegisterStep ==
  ASSUME Exit!ExitInv, NEW t \in Exit!AllThreads, NEW kind \in {"thread_local", "notifier"},
         Exit!Register(t, kind), NEW n, n = Exit!Newest,
         at[t] \in {"none", "function", "destructor", "callback"},
         at' = at, cleanup_started' = cleanup_started, calling' = calling, pass' = pass,
         startup_destructors' \in Seq(Nat), tls_destructors' \in [Exit!AllThreads -> Seq(Nat)],
         callbacks' \in [Exit!AllThreads -> Seq(Nat)],
         Exit!StartupInv',
         \A u \in Exit!AllThreads : Exit!IdleOK(u)' /\ Exit!ListOK(u)',
         \A x : Exit!Holds(startup_destructors, x) => Exit!Holds(startup_destructors', x),
         \A u \in Exit!AllThreads :
           \A x : /\ Exit!Holds(tls_destructors[u], x) => Exit!Holds(tls_destructors'[u], x)
                  /\ Exit!Holds(callbacks[u], x) => Exit!Holds(callbacks'[u], x),
         kind = "thread_local" =>
           \/ Exit!Holds(tls_destructors'[t], n)
           \/ Exit!Holds(startup_destructors', n) /\ t = Application,
         kind = "notifier" => Exit!Holds(callbacks'[t], n)
  PROVE  Exit!ExitInv'
<1>1. /\ objects' \in Seq(Exit!Registrations) /\ ran' \in Seq(Nat)
      /\ Len(ran') = Len(objects') /\ n \in Nat
      /\ DOMAIN objects' = DOMAIN objects \cup {n} /\ n \notin DOMAIN objects
      /\ \A x \in DOMAIN objects :
           objects'[x] = objects[x] /\ ran'[x] = ran[x] /\ x < n
      /\ objects'[n].thread = t /\ objects'[n].kind = kind
      /\ objects'[n].phase = at[t] /\ ran'[n] = 0
  BY Registered
<1>2. Exit!TypeOK'
  BY <1>1, ExitParts DEF Exit!TypeOK
<1>3. ASSUME NEW u \in Exit!AllThreads PROVE Exit!CleanupOK(u)'
  BY ExitParts DEF Exit!CleanupOK
<1>4. ASSUME NEW x \in DOMAIN objects PROVE (Exit!KeptOK(x) /\ Exit!ReachedOK(x))'
  <2>1. /\ Exit!KeptOK(x) /\ Exit!ReachedOK(x) /\ objects[x].thread \in Exit!AllThreads
        /\ objects'[x] = objects[x] /\ ran'[x] = ran[x]
    BY <1>1, ExitParts
  <2>2. Exit!KeptOK(x)'
    <3>1. ran'[x] <= 1
      BY <2>1 DEF Exit!KeptOK
    <3>2. objects[x].kind = "thread_local" =>
            \/ ran[x] = 1 \/ at[objects[x].thread] = "deleted"
            \/ Exit!Holds(tls_destructors'[objects[x].thread], x)
            \/ Exit!Holds(startup_destructors', x) /\ objects[x].thread = Application
      BY <2>1 DEF Exit!KeptOK
    <3>3. objects[x].kind = "notifier" =>
            \/ ran[x] = 1 \/ Exit!Holds(callbacks'[objects[x].thread], x)
            \/ Exit!Holds(calling'[objects[x].thread], x)
      BY <2>1 DEF Exit!KeptOK
    <3>4. QED
      BY <2>1, <3>1, <3>2, <3>3 DEF Exit!KeptOK, Exit!Holds
  <2>3. Exit!ReachedOK(x)'
    BY <2>1 DEF Exit!ReachedOK, Exit!BeforeKeys
  <2>4. QED
    BY <2>2, <2>3
<1>5. Exit!KeptOK(n)'
  BY <1>1 DEF Exit!KeptOK, Exit!Holds
<1>6. Exit!ReachedOK(n)'
  BY <1>1 DEF Exit!ReachedOK, Exit!BeforeKeys
<1>7. ASSUME NEW x \in DOMAIN objects, NEW y \in DOMAIN objects PROVE Exit!OrderOK(x, y)'
  BY <1>1, ExitParts, ZenonT(40) DEF Exit!OrderOK, Exit!BeforeKeys
<1>8. ASSUME NEW y \in DOMAIN objects PROVE Exit!OrderOK(n, y)'
  <2>1. Exit!ReachedOK(y) /\ objects'[y] = objects[y]
    BY <1>1, ExitParts
  <2>2. at[t] # "callback" /\ objects[y].thread = t => Exit!BeforeKeys(y)
    BY <2>1 DEF Exit!ReachedOK
  <2>3. QED
    BY <1>1, <2>1, <2>2 DEF Exit!OrderOK, Exit!BeforeKeys
<1>9. ASSUME NEW x \in DOMAIN objects' PROVE Exit!OrderOK(x, n)'
  <2>1. ~(n < x)
    BY <1>1, ExitParts
  <2>2. QED
    BY <2>1 DEF Exit!OrderOK
<1>10. Exit!ObjectInv' /\ Exit!OrderInv'
  BY <1>1, <1>4, <1>5, <1>6, <1>7, <1>8, <1>9 DEF Exit!ObjectInv, Exit!OrderInv
<1>11. QED
  BY <1>2, <1>3, <1>10 DEF Exit!ExitInv, Exit!ThreadInv

\* __cxa_thread_atexit in a thread.
LEMMA ThreadAtExitStep ==
  ASSUME Exit!ExitInv, NEW t \in Exit!AllThreads, Exit!ThreadAtExit(t)
  PROVE  Exit!ExitInv'
<1>1. /\ Exit!TypeOK /\ Exit!StartupInv
      /\ \A u \in Exit!AllThreads : Exit!IdleOK(u) /\ Exit!ListOK(u)
  BY ExitParts
<1> PICK n : n = Exit!Newest
  OBVIOUS
<1> PICK l : l = tls_destructors[t]
  OBVIOUS
<1>r. PICK r : r = <<n>> \o l
  OBVIOUS
<1>2. /\ Exit!Register(t, "thread_local") /\ at[t] \in {"function", "destructor", "callback"}
      /\ tls_destructors' = [tls_destructors EXCEPT ![t] = r]
      /\ startup_destructors' = startup_destructors /\ at' = at
      /\ cleanup_started' = cleanup_started /\ callbacks' = callbacks
      /\ calling' = calling /\ pass' = pass
  BY <1>1, <1>r DEF Exit!ThreadAtExit, Exit!InUserCode, Exit!TypeOK
<1>3. l \in Seq(Nat) /\ Exit!Sound(l, t, "thread_local")
  BY <1>1 DEF Exit!TypeOK, Exit!ListOK
<1>4. /\ r \in Seq(Nat) /\ Exit!Sound(r, t, "thread_local")' /\ Exit!Holds(r, n)
      /\ \A x : Exit!Holds(l, x) => Exit!Holds(r, x)
  <2>1. Before(n, l, r)
    BY <1>r DEF Before
  <2>2. QED
    BY <1>1, <1>2, <1>3, <2>1, ListGrows
<1>5. /\ tls_destructors'[t] = r /\ tls_destructors' \in [Exit!AllThreads -> Seq(Nat)]
      /\ \A u \in Exit!AllThreads \ {t} : tls_destructors'[u] = tls_destructors[u]
  BY <1>1, <1>2, <1>4 DEF Exit!TypeOK
<1>6. Exit!StartupInv'
  <2>1. PICK s : s = startup_destructors
    OBVIOUS
  <2>2. Exit!Sound(s, Application, "thread_local")'
    BY <1>1, <1>2, <2>1, ListStays DEF Exit!StartupInv, Exit!TypeOK
  <2>3. QED
    BY <1>1, <1>2, <2>1, <2>2 DEF Exit!StartupInv
<1>7. ASSUME NEW u \in Exit!AllThreads PROVE Exit!IdleOK(u)' /\ Exit!ListOK(u)'
  <2>1. PICK s, c, d : s = tls_destructors[u] /\ c = callbacks[u] /\ d = calling[u]
    OBVIOUS
  <2>2. s \in Seq(Nat) /\ c \in Seq(Nat) /\ d \in Seq(Nat)
    BY <1>1, <2>1 DEF Exit!TypeOK
  <2>3. /\ Exit!Sound(s, u, "thread_local") /\ Exit!Sound(c, u, "notifier")
        /\ Exit!Sound(d, u, "notifier") /\ \A i \in DOMAIN c : ~Exit!Holds(d, c[i])
    BY <1>1, <2>1 DEF Exit!ListOK
  <2>4. /\ Exit!Sound(s, u, "thread_local")' /\ Exit!Sound(c, u, "notifier")'
        /\ Exit!Sound(d, u, "notifier")'
    BY <1>2, <2>2, <2>3, ListStays
  <2>5. Exit!Sound(tls_destructors[u], u, "thread_local")'
    BY <1>4, <1>5, <2>1, <2>4
  <2>6. Exit!ListOK(u)'
    BY <1>2, <2>1, <2>3, <2>4, <2>5 DEF Exit!ListOK, Exit!Holds
  <2>7. Exit!IdleOK(u)'
    BY <1>1, <1>2, <1>5 DEF Exit!IdleOK
  <2>8. QED
    BY <2>6, <2>7
<1>8. QED
  BY <1>1, <1>2, <1>4, <1>5, <1>6, <1>7, RegisterStep DEF Exit!TypeOK

\* notify_all_at_thread_exit.
LEMMA NotifyAtExitStep ==
  ASSUME Exit!ExitInv, NEW t \in Exit!AllThreads, Exit!NotifyAtExit(t)
  PROVE  Exit!ExitInv'
<1>1. /\ Exit!TypeOK /\ Exit!StartupInv
      /\ \A u \in Exit!AllThreads : Exit!IdleOK(u) /\ Exit!ListOK(u)
  BY ExitParts
<1> PICK n : n = Exit!Newest
  OBVIOUS
<1> PICK l : l = callbacks[t]
  OBVIOUS
<1>r. PICK r : r = <<n>> \o l
  OBVIOUS
<1>2. /\ Exit!Register(t, "notifier") /\ at[t] \in {"function", "destructor", "callback"}
      /\ callbacks' = [callbacks EXCEPT ![t] = r]
      /\ startup_destructors' = startup_destructors /\ at' = at
      /\ cleanup_started' = cleanup_started /\ tls_destructors' = tls_destructors
      /\ calling' = calling /\ pass' = pass
  BY <1>1, <1>r DEF Exit!NotifyAtExit, Exit!InUserCode, Exit!TypeOK
<1>3. l \in Seq(Nat) /\ Exit!Sound(l, t, "notifier")
  BY <1>1 DEF Exit!TypeOK, Exit!ListOK
<1>4. /\ r \in Seq(Nat) /\ Exit!Sound(r, t, "notifier")' /\ Exit!Holds(r, n)
      /\ \A x : Exit!Holds(l, x) => Exit!Holds(r, x)
      /\ \A i \in DOMAIN r : r[i] = n \/ Exit!Holds(l, r[i])
  <2>1. Before(n, l, r)
    BY <1>r DEF Before
  <2>2. QED
    BY <1>1, <1>2, <1>3, <2>1, ListGrows
<1>5. /\ callbacks'[t] = r /\ callbacks' \in [Exit!AllThreads -> Seq(Nat)]
      /\ \A u \in Exit!AllThreads \ {t} : callbacks'[u] = callbacks[u]
  BY <1>1, <1>2, <1>4 DEF Exit!TypeOK
<1>6. Exit!StartupInv'
  <2>1. PICK s : s = startup_destructors
    OBVIOUS
  <2>2. Exit!Sound(s, Application, "thread_local")'
    BY <1>1, <1>2, <2>1, ListStays DEF Exit!StartupInv, Exit!TypeOK
  <2>3. QED
    BY <1>1, <1>2, <2>1, <2>2 DEF Exit!StartupInv
<1>7. ASSUME NEW u \in Exit!AllThreads PROVE Exit!IdleOK(u)' /\ Exit!ListOK(u)'
  <2>1. PICK s, c, d : s = tls_destructors[u] /\ c = callbacks[u] /\ d = calling[u]
    OBVIOUS
  <2>2. s \in Seq(Nat) /\ c \in Seq(Nat) /\ d \in Seq(Nat)
    BY <1>1, <2>1 DEF Exit!TypeOK
  <2>3. /\ Exit!Sound(s, u, "thread_local") /\ Exit!Sound(c, u, "notifier")
        /\ Exit!Sound(d, u, "notifier") /\ \A i \in DOMAIN c : ~Exit!Holds(d, c[i])
    BY <1>1, <2>1 DEF Exit!ListOK
  <2>4. /\ Exit!Sound(s, u, "thread_local")' /\ Exit!Sound(c, u, "notifier")'
        /\ Exit!Sound(d, u, "notifier")'
    BY <1>2, <2>2, <2>3, ListStays
  <2>5. Exit!Sound(callbacks[u], u, "notifier")'
    BY <1>4, <1>5, <2>1, <2>4
  <2>6. \A i \in DOMAIN callbacks'[u] : ~Exit!Holds(d, callbacks'[u][i])
    <3>1. CASE u = t
      <4>1. c = l /\ ~Exit!Holds(d, n)
        BY <1>2, <2>1, <2>3, <3>1, StillWaits
      <4>2. ASSUME NEW x, Exit!Holds(l, x) PROVE ~Exit!Holds(d, x)
        BY <2>3, <4>1, <4>2 DEF Exit!Holds
      <4>3. QED
        BY <1>4, <1>5, <3>1, <4>1, <4>2
    <3>2. CASE u # t
      BY <1>5, <2>1, <2>3, <3>2
    <3>3. QED
      BY <3>1, <3>2
  <2>7. Exit!ListOK(u)'
    BY <1>2, <2>1, <2>4, <2>5, <2>6 DEF Exit!ListOK, Exit!Holds
  <2>8. Exit!IdleOK(u)'
    BY <1>1, <1>2, <1>5 DEF Exit!IdleOK
  <2>9. QED
    BY <2>7, <2>8
<1>8. QED
  BY <1>1, <1>2, <1>4, <1>5, <1>6, <1>7, RegisterStep DEF Exit!TypeOK

\* __cxa_thread_atexit in a global constructor.
LEMMA StartupRegistersStep ==
  ASSUME Exit!ExitInv, Exit!StartupRegisters
  PROVE  Exit!ExitInv'
<1>1. /\ Exit!TypeOK /\ Exit!StartupInv /\ Application \in Exit!AllThreads
      /\ \A u \in Exit!AllThreads : Exit!IdleOK(u) /\ Exit!ListOK(u)
  BY ExitParts DEF Exit!AllThreads
<1> PICK n : n = Exit!Newest
  OBVIOUS
<1> PICK l : l = startup_destructors
  OBVIOUS
<1>r. PICK r : r = <<n>> \o l
  OBVIOUS
<1>2. /\ Exit!Register(Application, "thread_local") /\ at[Application] = "none"
      /\ startup_destructors' = r
      /\ tls_destructors' = tls_destructors /\ at' = at
      /\ cleanup_started' = cleanup_started /\ callbacks' = callbacks
      /\ calling' = calling /\ pass' = pass
  BY <1>r DEF Exit!StartupRegisters, Exit!threadVars
<1>3. l \in Seq(Nat) /\ Exit!Sound(l, Application, "thread_local")
  BY <1>1 DEF Exit!TypeOK, Exit!StartupInv
<1>4. /\ r \in Seq(Nat) /\ Exit!Sound(r, Application, "thread_local")' /\ Exit!Holds(r, n)
      /\ \A x : Exit!Holds(l, x) => Exit!Holds(r, x)
  <2>1. Before(n, l, r)
    BY <1>r DEF Before
  <2>2. QED
    BY <1>1, <1>2, <1>3, <2>1, ListGrows
<1>5. Exit!StartupInv'
  BY <1>2, <1>4 DEF Exit!StartupInv
<1>6. ASSUME NEW u \in Exit!AllThreads PROVE Exit!IdleOK(u)' /\ Exit!ListOK(u)'
  <2>1. PICK s, c, d : s = tls_destructors[u] /\ c = callbacks[u] /\ d = calling[u]
    OBVIOUS
  <2>2. s \in Seq(Nat) /\ c \in Seq(Nat) /\ d \in Seq(Nat)
    BY <1>1, <2>1 DEF Exit!TypeOK
  <2>3. /\ Exit!Sound(s, u, "thread_local") /\ Exit!Sound(c, u, "notifier")
        /\ Exit!Sound(d, u, "notifier") /\ \A i \in DOMAIN c : ~Exit!Holds(d, c[i])
    BY <1>1, <2>1 DEF Exit!ListOK
  <2>4. /\ Exit!Sound(s, u, "thread_local")' /\ Exit!Sound(c, u, "notifier")'
        /\ Exit!Sound(d, u, "notifier")'
    BY <1>1, <1>2, <2>2, <2>3, ListStays
  <2>5. Exit!ListOK(u)'
    BY <1>2, <2>1, <2>3, <2>4 DEF Exit!ListOK, Exit!Holds
  <2>6. Exit!IdleOK(u)'
    BY <1>1, <1>2 DEF Exit!IdleOK
  <2>7. QED
    BY <2>5, <2>6
<1>7. QED
  BY <1>1, <1>2, <1>4, <1>5, <1>6, RegisterStep DEF Exit!TypeOK
\* While objects and runs stay, a sound list stays sound.
LEMMA SoundStays ==
  ASSUME objects' = objects, ran' = ran, NEW s, NEW t, NEW kind, Exit!Sound(s, t, kind)
  PROVE  Exit!Sound(s, t, kind)'
BY DEF Exit!Sound, Exit!Waits, Exit!Once

LEMMA EmptySound == \A t, kind : Exit!Sound(<<>>, t, kind) /\ Exit!Sound(<<>>, t, kind)'
BY EmptyList DEF Exit!Sound, Exit!Once

\* The start of a thread; the application's adopts what constructors registered.
LEMMA CreateStep ==
  ASSUME Exit!ExitInv, NEW t \in Exit!AllThreads, Exit!Create(t)
  PROVE  Exit!ExitInv'
<1>1. /\ Exit!TypeOK /\ Exit!StartupInv /\ Application \in Exit!AllThreads
      /\ \A u \in Exit!AllThreads : Exit!IdleOK(u) /\ Exit!CleanupOK(u) /\ Exit!ListOK(u)
  BY ExitParts DEF Exit!AllThreads
<1> PICK l : l = Exit!Adopted(t)
  OBVIOUS
<1>2. /\ at[t] = "none" /\ (t # Application => at[Application] # "none")
      /\ at' = [at EXCEPT ![t] = "function"]
      /\ cleanup_started' = [cleanup_started EXCEPT ![t] = FALSE]
      /\ tls_destructors' = [tls_destructors EXCEPT ![t] = l]
      /\ startup_destructors' = IF t = Application THEN <<>> ELSE startup_destructors
      /\ callbacks' = [callbacks EXCEPT ![t] = <<>>]
      /\ pass' = [pass EXCEPT ![t] = 0]
      /\ calling' = calling /\ objects' = objects /\ ran' = ran
  BY DEF Exit!Create, Exit!Move
<1>3. tls_destructors[t] = <<>> /\ callbacks[t] = <<>> /\ calling[t] = <<>>
  BY <1>1, <1>2 DEF Exit!IdleOK
<1>4. l \in Seq(Nat) /\ Exit!Sound(l, t, "thread_local")'
  <2>1. l \in Seq(Nat) /\ Exit!Sound(l, t, "thread_local")
    BY <1>1, EmptyList, EmptySound DEF Exit!Adopted, Exit!TypeOK, Exit!StartupInv
  <2>2. QED
    BY <1>2, <2>1, SoundStays
<1>5. callbacks' = callbacks
  BY <1>1, <1>2, <1>3 DEF Exit!TypeOK
<1>6. /\ at'[t] = "function" /\ tls_destructors'[t] = l
      /\ \A u \in Exit!AllThreads \ {t} :
           /\ at'[u] = at[u] /\ cleanup_started'[u] = cleanup_started[u]
           /\ tls_destructors'[u] = tls_destructors[u] /\ pass'[u] = pass[u]
  BY <1>1, <1>2 DEF Exit!TypeOK
<1>7. Exit!TypeOK'
  <2>1. "function" \in Exit!Steps /\ FALSE \in BOOLEAN /\ 0 \in Nat
    BY DEF Exit!Steps
  <2>2. startup_destructors' \in Seq(Nat)
    BY <1>1, <1>2, EmptyList DEF Exit!TypeOK
  <2>3. QED
    BY <1>1, <1>2, <1>4, <1>5, <2>1, <2>2 DEF Exit!TypeOK
<1>8. Exit!StartupInv'
  <2>1. CASE t = Application
    BY <1>2, <2>1, EmptySound DEF Exit!StartupInv
  <2>2. CASE t # Application
    <3>1. startup_destructors' = <<>>
      BY <1>1, <1>2, <2>2 DEF Exit!StartupInv
    <3>2. QED
      BY <3>1, EmptySound DEF Exit!StartupInv
  <2>3. QED
    BY <2>1, <2>2
<1>9. ASSUME NEW u \in Exit!AllThreads
      PROVE  (Exit!IdleOK(u) /\ Exit!CleanupOK(u) /\ Exit!ListOK(u))'
  <2>1. PICK s, c, d : s = tls_destructors[u] /\ c = callbacks[u] /\ d = calling[u]
    OBVIOUS
  <2>2. /\ Exit!Sound(s, u, "thread_local") /\ Exit!Sound(c, u, "notifier")
        /\ Exit!Sound(d, u, "notifier") /\ \A i \in DOMAIN c : ~Exit!Holds(d, c[i])
    BY <1>1, <2>1 DEF Exit!ListOK
  <2>3. /\ Exit!Sound(s, u, "thread_local")' /\ Exit!Sound(c, u, "notifier")'
        /\ Exit!Sound(d, u, "notifier")'
    BY <1>2, <2>2, SoundStays
  <2>4. Exit!Sound(tls_destructors[u], u, "thread_local")'
    BY <1>4, <1>6, <2>1, <2>3
  <2>5. Exit!ListOK(u)'
    BY <1>2, <1>5, <2>1, <2>2, <2>3, <2>4 DEF Exit!ListOK, Exit!Holds
  <2>6. Exit!IdleOK(u)'
    BY <1>1, <1>2, <1>3, <1>5, <1>6 DEF Exit!IdleOK
  <2>7. Exit!CleanupOK(u)'
    BY <1>1, <1>6 DEF Exit!CleanupOK
  <2>8. QED
    BY <2>5, <2>6, <2>7
<1>10. ASSUME NEW x \in DOMAIN objects PROVE (Exit!KeptOK(x) /\ Exit!ReachedOK(x))'
  <2>1. Exit!KeptOK(x) /\ Exit!ReachedOK(x) /\ objects[x].thread \in Exit!AllThreads
    BY ExitParts
  <2>2. Exit!ReachedOK(x)'
    BY <1>2, <1>6, <2>1 DEF Exit!ReachedOK, Exit!BeforeKeys
  <2>3. CASE objects[x].thread = t
    <3>1. ~Exit!Holds(tls_destructors[t], x)
      BY <1>3, EmptyList
    <3>2. /\ Exit!Holds(startup_destructors, x) /\ t = Application
          => Exit!Holds(tls_destructors'[t], x)
      BY <1>6 DEF Exit!Adopted
    <3>3. objects[x].kind = "thread_local" => ran[x] = 1 \/ Exit!Holds(tls_destructors'[t], x)
      BY <1>2, <2>1, <2>3, <3>1, <3>2 DEF Exit!KeptOK
    <3>4. Exit!KeptOK(x)'
      BY <1>2, <1>5, <2>1, <2>3, <3>3 DEF Exit!KeptOK, Exit!Holds
    <3>5. QED
      BY <2>2, <3>4
  <2>4. CASE objects[x].thread # t
    <3>1. startup_destructors' = startup_destructors \/ objects[x].thread # Application
      BY <1>2, <2>4
    <3>2. Exit!KeptOK(x)'
      BY <1>2, <1>5, <1>6, <2>1, <2>4, <3>1 DEF Exit!KeptOK, Exit!Holds
    <3>3. QED
      BY <2>2, <3>2
  <2>5. QED
    BY <2>3, <2>4
<1>11. Exit!OrderInv'
  BY <1>2 DEF Exit!ExitInv, Exit!OrderInv, Exit!OrderOK, Exit!BeforeKeys
<1>12. QED
  BY <1>2, <1>7, <1>8, <1>9, <1>10, <1>11 DEF Exit!ExitInv, Exit!ThreadInv, Exit!ObjectInv

\* runtime_tls_thread_delete.
LEMMA DeleteStep ==
  ASSUME Exit!ExitInv, NEW t \in Exit!AllThreads, Exit!Delete(t)
  PROVE  Exit!ExitInv'
<1>1. /\ Exit!TypeOK /\ Exit!StartupInv /\ Application \in Exit!AllThreads
      /\ \A u \in Exit!AllThreads : Exit!IdleOK(u) /\ Exit!CleanupOK(u) /\ Exit!ListOK(u)
  BY ExitParts DEF Exit!AllThreads
<1>2. /\ at[t] \in {"exited", "terminated"} /\ t # Application
      /\ at' = [at EXCEPT ![t] = "deleted"]
      /\ tls_destructors' = [tls_destructors EXCEPT ![t] = <<>>]
      /\ cleanup_started' = cleanup_started /\ startup_destructors' = startup_destructors
      /\ callbacks' = callbacks /\ calling' = calling /\ pass' = pass
      /\ objects' = objects /\ ran' = ran
  BY DEF Exit!Delete, Exit!Move
<1>3. /\ at'[t] = "deleted" /\ tls_destructors'[t] = <<>>
      /\ \A u \in Exit!AllThreads \ {t} :
           at'[u] = at[u] /\ tls_destructors'[u] = tls_destructors[u]
  BY <1>1, <1>2 DEF Exit!TypeOK
<1>4. Exit!TypeOK'
  <2>1. "deleted" \in Exit!Steps
    BY DEF Exit!Steps
  <2>2. QED
    BY <1>1, <1>2, <2>1, EmptyList DEF Exit!TypeOK
<1>5. Exit!StartupInv'
  BY <1>1, <1>2, <1>3 DEF Exit!StartupInv, Exit!Sound, Exit!Waits, Exit!Once
<1>6. ASSUME NEW u \in Exit!AllThreads
      PROVE  (Exit!IdleOK(u) /\ Exit!CleanupOK(u) /\ Exit!ListOK(u))'
  <2>1. PICK s, c, d : s = tls_destructors[u] /\ c = callbacks[u] /\ d = calling[u]
    OBVIOUS
  <2>2. /\ Exit!Sound(s, u, "thread_local") /\ Exit!Sound(c, u, "notifier")
        /\ Exit!Sound(d, u, "notifier") /\ \A i \in DOMAIN c : ~Exit!Holds(d, c[i])
    BY <1>1, <2>1 DEF Exit!ListOK
  <2>3. /\ Exit!Sound(s, u, "thread_local")' /\ Exit!Sound(c, u, "notifier")'
        /\ Exit!Sound(d, u, "notifier")'
    BY <1>2, <2>2, SoundStays
  <2>4. Exit!Sound(tls_destructors[u], u, "thread_local")'
    BY <1>3, <2>1, <2>3, EmptySound
  <2>5. Exit!ListOK(u)'
    BY <1>2, <2>1, <2>2, <2>3, <2>4 DEF Exit!ListOK, Exit!Holds
  <2>6. Exit!IdleOK(u)' /\ Exit!CleanupOK(u)'
    BY <1>1, <1>2, <1>3 DEF Exit!IdleOK, Exit!CleanupOK
  <2>7. QED
    BY <2>5, <2>6
<1>7. ASSUME NEW x \in DOMAIN objects PROVE (Exit!KeptOK(x) /\ Exit!ReachedOK(x))'
  <2>1. Exit!KeptOK(x) /\ Exit!ReachedOK(x) /\ objects[x].thread \in Exit!AllThreads
    BY ExitParts
  <2>2. Exit!KeptOK(x)'
    BY <1>2, <1>3, <2>1 DEF Exit!KeptOK, Exit!Holds
  <2>3. Exit!ReachedOK(x)'
    BY <1>2, <1>3, <2>1 DEF Exit!ReachedOK, Exit!BeforeKeys
  <2>4. QED
    BY <2>2, <2>3
<1>8. Exit!OrderInv'
  BY <1>2 DEF Exit!ExitInv, Exit!OrderInv, Exit!OrderOK, Exit!BeforeKeys
<1>9. QED
  BY <1>2, <1>4, <1>5, <1>6, <1>7, <1>8 DEF Exit!ExitInv, Exit!ThreadInv, Exit!ObjectInv
\* An object that waited is run: it has run once, and the others wait as before.
LEMMA RunOnce ==
  ASSUME Exit!ExitInv, NEW h, NEW t, NEW kind, Exit!Waits(h, t, kind), Exit!Run(h),
         objects' = objects
  PROVE  /\ ran' \in Seq(Nat) /\ Len(ran') = Len(objects') /\ ran'[h] = 1
         /\ \A x \in DOMAIN objects \ {h} : ran'[x] = ran[x]
         /\ \A x, u, k : x # h /\ Exit!Waits(x, u, k) => Exit!Waits(x, u, k)'
<1>1. /\ h \in DOMAIN objects /\ ran[h] = 0 /\ ran \in Seq(Nat) /\ DOMAIN ran = DOMAIN objects
      /\ Len(ran) = Len(objects)
  BY ExitParts DEF Exit!Waits, Exit!TypeOK
<1>2. ran' = [ran EXCEPT ![h] = 1]
  BY <1>1 DEF Exit!Run
<1>3. ran' \in Seq(Nat) /\ Len(ran') = Len(ran)
  BY <1>1, <1>2
<1>4. ran'[h] = 1 /\ \A x \in DOMAIN objects \ {h} : ran'[x] = ran[x]
  BY <1>1, <1>2
<1>5. QED
  BY <1>1, <1>3, <1>4 DEF Exit!Waits

\* A sound list without the object stays sound.
LEMMA OthersWait ==
  ASSUME Exit!ExitInv, NEW h, NEW t, NEW kind, Exit!Waits(h, t, kind), Exit!Run(h),
         objects' = objects, NEW s, NEW u, NEW k, Exit!Sound(s, u, k), ~Exit!Holds(s, h)
  PROVE  Exit!Sound(s, u, k)'
<1>1. \A i \in DOMAIN s : Exit!Waits(s[i], u, k) /\ s[i] # h
  BY DEF Exit!Sound, Exit!Holds
<1>2. \A i \in DOMAIN s : Exit!Waits(s[i], u, k)'
  BY <1>1, RunOnce
<1>3. QED
  BY <1>2 DEF Exit!Sound, Exit!Once

\* No list of another thread or kind holds it.
LEMMA ElsewhereNot ==
  ASSUME NEW h, NEW t, NEW kind, Exit!Waits(h, t, kind), NEW s, NEW u, NEW k,
         Exit!Sound(s, u, k), u # t \/ k # kind
  PROVE  ~Exit!Holds(s, h)
BY HeldWaits DEF Exit!Waits

\* runtime_tls_thread_exit calls the newest thread_local destructor.
LEMMA DestroyThreadLocalStep ==
  ASSUME Exit!ExitInv, NEW t \in Exit!AllThreads, Exit!DestroyThreadLocal(t)
  PROVE  Exit!ExitInv'
<1>1. /\ Exit!TypeOK /\ Exit!StartupInv /\ Application \in Exit!AllThreads
      /\ \A u \in Exit!AllThreads : Exit!IdleOK(u) /\ Exit!CleanupOK(u) /\ Exit!ListOK(u)
  BY ExitParts DEF Exit!AllThreads
<1> PICK l : l = tls_destructors[t]
  OBVIOUS
<1> PICK r, h : r = Tail(l) /\ h = Head(l)
  OBVIOUS
<1>2. /\ at[t] = "thread_locals" /\ l # <<>> /\ Exit!Run(h)
      /\ at' = [at EXCEPT ![t] = "destructor"]
      /\ tls_destructors' = [tls_destructors EXCEPT ![t] = r]
      /\ cleanup_started' = cleanup_started /\ startup_destructors' = startup_destructors
      /\ callbacks' = callbacks /\ calling' = calling /\ pass' = pass
      /\ objects' = objects
  BY DEF Exit!DestroyThreadLocal, Exit!Move, Exit!Unlinked
<1>3. l \in Seq(Nat) /\ Exit!Sound(l, t, "thread_local") /\ Exit!Once(l)
  BY <1>1 DEF Exit!TypeOK, Exit!ListOK, Exit!Sound
<1>4. /\ r \in Seq(Nat) /\ Exit!Once(r) /\ Exit!Holds(l, h)
      /\ \A i \in DOMAIN r : Exit!Holds(l, r[i]) /\ r[i] # h
      /\ \A x : Exit!Holds(l, x) => x = h \/ Exit!Holds(r, x)
  BY <1>2, <1>3, Taken
<1>5. Exit!Waits(h, t, "thread_local")
  BY <1>3, <1>4, HeldWaits
<1>6. /\ ran' \in Seq(Nat) /\ Len(ran') = Len(objects') /\ ran'[h] = 1
      /\ \A x \in DOMAIN objects \ {h} : ran'[x] = ran[x]
  BY <1>2, <1>5, RunOnce
<1>7. /\ at'[t] = "destructor" /\ tls_destructors'[t] = r
      /\ \A u \in Exit!AllThreads \ {t} :
           at'[u] = at[u] /\ tls_destructors'[u] = tls_destructors[u]
  BY <1>1, <1>2 DEF Exit!TypeOK
<1>8. Exit!Sound(r, t, "thread_local")'
  <2>1. Exit!Sound(r, t, "thread_local")
    BY <1>3, <1>4, HeldWaits DEF Exit!Sound
  <2>2. QED
    BY <1>2, <1>4, <1>5, <2>1, OthersWait DEF Exit!Holds
<1>9. Exit!TypeOK'
  <2>1. "destructor" \in Exit!Steps
    BY DEF Exit!Steps
  <2>2. QED
    BY <1>1, <1>2, <1>4, <1>6, <2>1 DEF Exit!TypeOK
<1>10. Exit!StartupInv'
  <2>1. PICK s : s = startup_destructors
    OBVIOUS
  <2>2. Exit!Sound(s, Application, "thread_local") /\ ~Exit!Holds(s, h)
    BY <1>1, <1>2, <1>5, <2>1, ElsewhereNot, EmptyList DEF Exit!StartupInv
  <2>3. Exit!Sound(s, Application, "thread_local")'
    BY <1>2, <1>5, <2>2, OthersWait
  <2>4. QED
    BY <1>1, <1>2, <1>7, <2>1, <2>3 DEF Exit!StartupInv
<1>11. ASSUME NEW u \in Exit!AllThreads
      PROVE  (Exit!IdleOK(u) /\ Exit!CleanupOK(u) /\ Exit!ListOK(u))'
  <2>1. PICK s, c, d : s = tls_destructors[u] /\ c = callbacks[u] /\ d = calling[u]
    OBVIOUS
  <2>2. /\ Exit!Sound(s, u, "thread_local") /\ Exit!Sound(c, u, "notifier")
        /\ Exit!Sound(d, u, "notifier") /\ \A i \in DOMAIN c : ~Exit!Holds(d, c[i])
    BY <1>1, <2>1 DEF Exit!ListOK
  <2>3. ~Exit!Holds(c, h) /\ ~Exit!Holds(d, h) /\ (u # t => ~Exit!Holds(s, h))
    BY <1>5, <2>2, ElsewhereNot
  <2>4. /\ u # t => Exit!Sound(s, u, "thread_local")'
        /\ Exit!Sound(c, u, "notifier")' /\ Exit!Sound(d, u, "notifier")'
    BY <1>2, <1>5, <2>2, <2>3, OthersWait
  <2>5. Exit!Sound(tls_destructors[u], u, "thread_local")'
    BY <1>7, <1>8, <2>1, <2>4
  <2>6. Exit!ListOK(u)'
    BY <1>2, <2>1, <2>2, <2>4, <2>5 DEF Exit!ListOK, Exit!Holds
  <2>7. Exit!IdleOK(u)' /\ Exit!CleanupOK(u)'
    BY <1>1, <1>2, <1>7 DEF Exit!IdleOK, Exit!CleanupOK
  <2>8. QED
    BY <2>6, <2>7
<1>12. ASSUME NEW x \in DOMAIN objects PROVE (Exit!KeptOK(x) /\ Exit!ReachedOK(x))'
  <2>1. Exit!KeptOK(x) /\ Exit!ReachedOK(x) /\ objects[x].thread \in Exit!AllThreads
    BY ExitParts
  <2>2. x = h => ran'[x] = 1 /\ objects[x].kind = "thread_local" /\ objects[x].thread = t
    BY <1>5, <1>6 DEF Exit!Waits
  <2>3. x # h => ran'[x] = ran[x]
    BY <1>6
  <2>4. x # h /\ Exit!Holds(tls_destructors[objects[x].thread], x)
        => Exit!Holds(tls_destructors'[objects[x].thread], x)
    BY <1>4, <1>7, <2>1
  <2>5. Exit!KeptOK(x)'
    <3>1. CASE x = h
      BY <1>2, <2>2, <3>1 DEF Exit!KeptOK
    <3>2. CASE x # h
      BY <1>2, <1>7, <2>1, <2>3, <2>4, <3>2 DEF Exit!KeptOK, Exit!Holds
    <3>3. QED
      BY <3>1, <3>2
  <2>6. Exit!ReachedOK(x)'
    BY <1>2, <1>7, <2>1, <2>2, <2>3 DEF Exit!ReachedOK, Exit!BeforeKeys
  <2>7. QED
    BY <2>5, <2>6
<1>13. ASSUME NEW x \in DOMAIN objects, NEW y \in DOMAIN objects PROVE Exit!OrderOK(x, y)'
  <2>1. Exit!OrderOK(x, y) /\ objects[h].kind = "thread_local"
    BY <1>5, ExitParts DEF Exit!Waits
  <2>2. objects[x].kind = "notifier" => ran'[x] = ran[x]
    BY <1>6, <2>1
  <2>3. ran[y] > 0 => ran'[y] > 0
    BY <1>6
  <2>4. QED
    BY <1>2, <2>1, <2>2, <2>3 DEF Exit!OrderOK, Exit!BeforeKeys
<1>14. QED
  BY <1>2, <1>9, <1>10, <1>11, <1>12, <1>13
     DEF Exit!ExitInv, Exit!ThreadInv, Exit!ObjectInv, Exit!OrderInv

\* run_thread_exit_callbacks calls the next notifier.
LEMMA CallNotifierStep ==
  ASSUME Exit!ExitInv, NEW t \in Exit!AllThreads, Exit!CallNotifier(t)
  PROVE  Exit!ExitInv'
<1>1. /\ Exit!TypeOK /\ Exit!StartupInv /\ Application \in Exit!AllThreads
      /\ \A u \in Exit!AllThreads : Exit!IdleOK(u) /\ Exit!CleanupOK(u) /\ Exit!ListOK(u)
  BY ExitParts DEF Exit!AllThreads
<1> PICK l : l = calling[t]
  OBVIOUS
<1> PICK r, h : r = Tail(l) /\ h = Head(l)
  OBVIOUS
<1>2. /\ at[t] = "list" /\ l # <<>> /\ Exit!Run(h)
      /\ at' = [at EXCEPT ![t] = "callback"]
      /\ calling' = [calling EXCEPT ![t] = r]
      /\ cleanup_started' = cleanup_started /\ startup_destructors' = startup_destructors
      /\ callbacks' = callbacks /\ tls_destructors' = tls_destructors /\ pass' = pass
      /\ objects' = objects
  BY <1>1 DEF Exit!CallNotifier, Exit!Move, Exit!TypeOK
<1>3. l \in Seq(Nat) /\ Exit!Sound(l, t, "notifier") /\ Exit!Once(l)
  BY <1>1 DEF Exit!TypeOK, Exit!ListOK, Exit!Sound
<1>4. /\ r \in Seq(Nat) /\ Exit!Once(r) /\ Exit!Holds(l, h)
      /\ \A i \in DOMAIN r : Exit!Holds(l, r[i]) /\ r[i] # h
      /\ \A x : Exit!Holds(l, x) => x = h \/ Exit!Holds(r, x)
  BY <1>2, <1>3, Taken
<1>5. Exit!Waits(h, t, "notifier")
  BY <1>3, <1>4, HeldWaits
<1>6. /\ ran' \in Seq(Nat) /\ Len(ran') = Len(objects') /\ ran'[h] = 1
      /\ \A x \in DOMAIN objects \ {h} : ran'[x] = ran[x]
  BY <1>2, <1>5, RunOnce
<1>7. /\ at'[t] = "callback" /\ calling'[t] = r
      /\ \A u \in Exit!AllThreads \ {t} : at'[u] = at[u] /\ calling'[u] = calling[u]
  BY <1>1, <1>2 DEF Exit!TypeOK
<1>8. Exit!Sound(r, t, "notifier")'
  <2>1. Exit!Sound(r, t, "notifier")
    BY <1>3, <1>4, HeldWaits DEF Exit!Sound
  <2>2. QED
    BY <1>2, <1>4, <1>5, <2>1, OthersWait DEF Exit!Holds
<1>9. Exit!TypeOK'
  <2>1. "callback" \in Exit!Steps
    BY DEF Exit!Steps
  <2>2. QED
    BY <1>1, <1>2, <1>4, <1>6, <2>1 DEF Exit!TypeOK
<1>10. Exit!StartupInv'
  <2>1. PICK s : s = startup_destructors
    OBVIOUS
  <2>2. Exit!Sound(s, Application, "thread_local") /\ ~Exit!Holds(s, h)
    BY <1>1, <1>5, <2>1, ElsewhereNot DEF Exit!StartupInv
  <2>3. Exit!Sound(s, Application, "thread_local")'
    BY <1>2, <1>5, <2>2, OthersWait
  <2>4. QED
    BY <1>1, <1>2, <1>7, <2>1, <2>3 DEF Exit!StartupInv
<1>11. ASSUME NEW u \in Exit!AllThreads
      PROVE  (Exit!IdleOK(u) /\ Exit!CleanupOK(u) /\ Exit!ListOK(u))'
  <2>1. PICK s, c, d : s = tls_destructors[u] /\ c = callbacks[u] /\ d = calling[u]
    OBVIOUS
  <2>2. /\ Exit!Sound(s, u, "thread_local") /\ Exit!Sound(c, u, "notifier")
        /\ Exit!Sound(d, u, "notifier") /\ \A i \in DOMAIN c : ~Exit!Holds(d, c[i])
    BY <1>1, <2>1 DEF Exit!ListOK
  <2>3. ~Exit!Holds(s, h) /\ ~Exit!Holds(c, h) /\ (u # t => ~Exit!Holds(d, h))
    <3>1. CASE u = t
      BY <1>4, <1>5, <2>1, <2>2, <3>1, ElsewhereNot DEF Exit!Holds
    <3>2. CASE u # t
      BY <1>5, <2>2, <3>2, ElsewhereNot
    <3>3. QED
      BY <3>1, <3>2
  <2>4. /\ Exit!Sound(s, u, "thread_local")' /\ Exit!Sound(c, u, "notifier")'
        /\ u # t => Exit!Sound(d, u, "notifier")'
    BY <1>2, <1>5, <2>2, <2>3, OthersWait
  <2>5. Exit!Sound(calling[u], u, "notifier")'
    BY <1>7, <1>8, <2>1, <2>4
  <2>6. \A i \in DOMAIN c : ~Exit!Holds(calling'[u], c[i])
    <3>1. CASE u = t
      <4>1. \A x : Exit!Holds(r, x) => Exit!Holds(l, x)
        BY <1>4 DEF Exit!Holds
      <4>2. QED
        BY <1>7, <2>1, <2>2, <3>1, <4>1
    <3>2. CASE u # t
      BY <1>7, <2>1, <2>2, <3>2
    <3>3. QED
      BY <3>1, <3>2
  <2>7. Exit!ListOK(u)'
    BY <1>2, <2>1, <2>4, <2>5, <2>6 DEF Exit!ListOK, Exit!Holds
  <2>8. Exit!IdleOK(u)' /\ Exit!CleanupOK(u)'
    BY <1>1, <1>2, <1>7 DEF Exit!IdleOK, Exit!CleanupOK
  <2>9. QED
    BY <2>7, <2>8
<1>12. ASSUME NEW x \in DOMAIN objects PROVE (Exit!KeptOK(x) /\ Exit!ReachedOK(x))'
  <2>1. Exit!KeptOK(x) /\ Exit!ReachedOK(x) /\ objects[x].thread \in Exit!AllThreads
    BY ExitParts
  <2>2. x = h => ran'[x] = 1 /\ objects[x].kind = "notifier" /\ objects[x].thread = t
    BY <1>5, <1>6 DEF Exit!Waits
  <2>3. x # h => ran'[x] = ran[x]
    BY <1>6
  <2>4. x # h /\ Exit!Holds(calling[objects[x].thread], x)
        => Exit!Holds(calling'[objects[x].thread], x)
    BY <1>4, <1>7, <2>1
  <2>5. Exit!KeptOK(x)'
    <3>1. CASE x = h
      BY <1>2, <2>2, <3>1 DEF Exit!KeptOK
    <3>2. CASE x # h
      BY <1>2, <1>7, <2>1, <2>3, <2>4, <3>2 DEF Exit!KeptOK, Exit!Holds
    <3>3. QED
      BY <3>1, <3>2
  <2>6. Exit!ReachedOK(x)'
    BY <1>2, <1>7, <2>1, <2>2, <2>3 DEF Exit!ReachedOK, Exit!BeforeKeys
  <2>7. QED
    BY <2>5, <2>6
<1>13. ASSUME NEW x \in DOMAIN objects, NEW y \in DOMAIN objects PROVE Exit!OrderOK(x, y)'
  <2>1. Exit!OrderOK(x, y) /\ Exit!ReachedOK(y) /\ objects[h].kind = "notifier"
    BY <1>5, ExitParts DEF Exit!Waits
  <2>2. objects[y].kind = "thread_local" => ran'[y] = ran[y]
    BY <1>6, <2>1
  <2>3. x # h => ran'[x] = ran[x]
    BY <1>6
  <2>4. x = h /\ objects[y].thread = t /\ objects[y].kind = "thread_local"
        /\ Exit!BeforeKeys(y) => ran[y] = 1
    BY <1>2, <2>1 DEF Exit!ReachedOK
  <2>5. x = h => objects[x].thread = t
    BY <1>5 DEF Exit!Waits
  <2>6. QED
    BY <1>2, <2>1, <2>2, <2>3, <2>4, <2>5 DEF Exit!OrderOK, Exit!BeforeKeys
<1>14. QED
  BY <1>2, <1>9, <1>10, <1>11, <1>12, <1>13
     DEF Exit!ExitInv, Exit!ThreadInv, Exit!ObjectInv, Exit!OrderInv
\* A pass takes the callbacks.
LEMMA KeyPassStep ==
  ASSUME Exit!ExitInv, NEW t \in Exit!AllThreads, at[t] = "keys",
         calling' = [calling EXCEPT ![t] = callbacks[t]],
         callbacks' = [callbacks EXCEPT ![t] = <<>>],
         pass' = [pass EXCEPT ![t] = @ + 1], Exit!Move(t, "list"),
         UNCHANGED <<startup_destructors, cleanup_started, tls_destructors, objects, ran>>
  PROVE  Exit!ExitInv'
<1>1. /\ Exit!TypeOK /\ Exit!StartupInv /\ Application \in Exit!AllThreads
      /\ \A u \in Exit!AllThreads : Exit!IdleOK(u) /\ Exit!CleanupOK(u) /\ Exit!ListOK(u)
  BY ExitParts DEF Exit!AllThreads
<1>2. calling[t] = <<>> /\ at' = [at EXCEPT ![t] = "list"]
  BY <1>1 DEF Exit!IdleOK, Exit!Move
<1>3. /\ at'[t] = "list" /\ calling'[t] = callbacks[t] /\ callbacks'[t] = <<>>
      /\ \A u \in Exit!AllThreads \ {t} :
           /\ at'[u] = at[u] /\ calling'[u] = calling[u] /\ callbacks'[u] = callbacks[u]
           /\ pass'[u] = pass[u]
  BY <1>1, <1>2 DEF Exit!TypeOK
<1>4. Exit!TypeOK'
  <2>1. "list" \in Exit!Steps /\ pass[t] + 1 \in Nat
    BY <1>1 DEF Exit!Steps, Exit!TypeOK
  <2>2. QED
    BY <1>1, <1>2, <2>1, EmptyList DEF Exit!TypeOK
<1>5. Exit!StartupInv'
  BY <1>1, <1>3 DEF Exit!StartupInv, Exit!Sound, Exit!Waits, Exit!Once
<1>6. ASSUME NEW u \in Exit!AllThreads
      PROVE  (Exit!IdleOK(u) /\ Exit!CleanupOK(u) /\ Exit!ListOK(u))'
  <2>1. PICK s, c, d : s = tls_destructors[u] /\ c = callbacks[u] /\ d = calling[u]
    OBVIOUS
  <2>2. /\ Exit!Sound(s, u, "thread_local") /\ Exit!Sound(c, u, "notifier")
        /\ Exit!Sound(d, u, "notifier") /\ \A i \in DOMAIN c : ~Exit!Holds(d, c[i])
    BY <1>1, <2>1 DEF Exit!ListOK
  <2>3. /\ Exit!Sound(s, u, "thread_local")' /\ Exit!Sound(c, u, "notifier")'
        /\ Exit!Sound(d, u, "notifier")'
    BY <2>2, SoundStays
  <2>4. /\ Exit!Sound(tls_destructors[u], u, "thread_local")'
        /\ Exit!Sound(callbacks[u], u, "notifier")'
        /\ Exit!Sound(calling[u], u, "notifier")'
    BY <1>3, <2>1, <2>3, EmptySound
  <2>5. \A i \in DOMAIN callbacks'[u] : ~Exit!Holds(calling'[u], callbacks'[u][i])
    <3>1. CASE u = t
      BY <1>3, <3>1, EmptyList
    <3>2. CASE u # t
      BY <1>3, <2>1, <2>2, <3>2
    <3>3. QED
      BY <3>1, <3>2
  <2>6. Exit!ListOK(u)'
    BY <2>4, <2>5 DEF Exit!ListOK, Exit!Holds
  <2>7. Exit!IdleOK(u)' /\ Exit!CleanupOK(u)'
    BY <1>1, <1>3 DEF Exit!IdleOK, Exit!CleanupOK
  <2>8. QED
    BY <2>6, <2>7
<1>7. ASSUME NEW x \in DOMAIN objects PROVE (Exit!KeptOK(x) /\ Exit!ReachedOK(x))'
  <2>1. Exit!KeptOK(x) /\ Exit!ReachedOK(x) /\ objects[x].thread \in Exit!AllThreads
    BY ExitParts
  <2>2. Exit!Holds(callbacks[objects[x].thread], x) \/ Exit!Holds(calling[objects[x].thread], x)
        => \/ Exit!Holds(callbacks'[objects[x].thread], x)
           \/ Exit!Holds(calling'[objects[x].thread], x)
    BY <1>2, <1>3, <2>1, EmptyList
  <2>3. Exit!KeptOK(x)'
    BY <1>3, <2>1, <2>2 DEF Exit!KeptOK, Exit!Holds
  <2>4. Exit!ReachedOK(x)'
    BY <1>3, <2>1 DEF Exit!ReachedOK, Exit!BeforeKeys
  <2>5. QED
    BY <2>3, <2>4
<1>8. Exit!OrderInv'
  BY DEF Exit!ExitInv, Exit!OrderInv, Exit!OrderOK, Exit!BeforeKeys
<1>9. QED
  BY <1>4, <1>5, <1>6, <1>7, <1>8 DEF Exit!ExitInv, Exit!ThreadInv, Exit!ObjectInv

LEMMA ExitNext == Exit!ExitInv /\ [Exit!Next]_Exit!vars => Exit!ExitInv'
<1> SUFFICES ASSUME Exit!ExitInv, [Exit!Next]_Exit!vars PROVE Exit!ExitInv'
  OBVIOUS
<1>1. CASE UNCHANGED Exit!vars
  BY <1>1, SMTT(40) DEF Exit!vars, Exit!threadVars, Exit!ExitInv, Exit!TypeOK, Exit!StartupInv,
              Exit!ThreadInv, Exit!IdleOK, Exit!CleanupOK, Exit!ListOK, Exit!ObjectInv,
              Exit!KeptOK, Exit!ReachedOK, Exit!OrderInv, Exit!OrderOK, Exit!BeforeKeys,
              Exit!Sound, Exit!Waits, Exit!Once, Exit!Holds
<1>2. CASE Exit!StartupRegisters
  BY <1>2, StartupRegistersStep
<1>3. ASSUME NEW t \in Exit!AllThreads,
             Exit!Create(t) \/ Exit!ThreadAtExit(t) \/ Exit!NotifyAtExit(t) \/ Exit!Delete(t)
      PROVE  Exit!ExitInv'
  BY <1>3, CreateStep, ThreadAtExitStep, NotifyAtExitStep, DeleteStep
<1>4. ASSUME NEW t \in Exit!AllThreads, Exit!EntryReturns(t) PROVE Exit!ExitInv'
  BY <1>4, CleanupStep DEF Exit!EntryReturns
<1>5. ASSUME NEW t \in Exit!AllThreads, Exit!TerminatesItself(t) \/ Exit!Terminated(t)
      PROVE  Exit!ExitInv'
  BY <1>5, LeaveStep DEF Exit!TerminatesItself, Exit!Terminated, Exit!Move
<1>6. ASSUME NEW t \in Exit!AllThreads, Exit!ThreadNotify(t) PROVE Exit!ExitInv'
  <2>1. CASE ~cleanup_started[t] /\ Exit!Cleanup(t)
    BY <1>6, <2>1, CleanupStep DEF Exit!ThreadNotify
  <2>2. CASE cleanup_started[t] /\ Exit!Move(t, "exited") /\ UNCHANGED cleanup_started
    BY <1>6, <2>2, LeaveStep DEF Exit!ThreadNotify, Exit!Move
  <2>3. QED
    BY <1>6, <2>1, <2>2 DEF Exit!ThreadNotify
<1>7. ASSUME NEW t \in Exit!AllThreads,
             \/ Exit!DestroyThreadLocal(t) \/ Exit!DestructorReturns(t)
             \/ Exit!CallNotifier(t)
      PROVE  Exit!ExitInv'
  BY <1>7, DestroyThreadLocalStep, DestructorReturnsStep, CallNotifierStep
<1>8. ASSUME NEW t \in Exit!AllThreads,
             Exit!ThreadLocalsDone(t) \/ Exit!CallbackReturns(t) \/ Exit!ListDone(t)
      PROVE  Exit!ExitInv'
  BY <1>8, KeysMoveStep
     DEF Exit!ThreadLocalsDone, Exit!CallbackReturns, Exit!ListDone, Exit!Move
<1>9. ASSUME NEW t \in Exit!AllThreads, Exit!KeyPass(t) PROVE Exit!ExitInv'
  <2>1. CASE /\ calling' = [calling EXCEPT ![t] = callbacks[t]]
             /\ callbacks' = [callbacks EXCEPT ![t] = <<>>]
             /\ pass' = [pass EXCEPT ![t] = @ + 1]
             /\ Exit!Move(t, "list")
    BY <1>9, <2>1, KeyPassStep DEF Exit!KeyPass
  <2>2. CASE /\ callbacks[t] = <<>> \/ pass[t] = Passes
             /\ Exit!Move(t, "cleaned")
             /\ UNCHANGED <<calling, callbacks, pass>>
    BY <1>9, <2>2, KeysMoveStep DEF Exit!KeyPass, Exit!Move
  <2>3. QED
    BY <1>9, <2>1, <2>2 DEF Exit!KeyPass
<1>10. QED
  BY <1>1, <1>2, <1>3, <1>4, <1>5, <1>6, <1>7, <1>8, <1>9 DEF Exit!Next

\* The inductive invariant of a thread's end: every registration that has not run is in
\* exactly one list of its thread.
THEOREM ExitInvariant == Exit!Spec => []Exit!ExitInv
BY ExitInit, ExitNext, PTL DEF Exit!Spec

\* For any threads, passes and number of registrations: nothing runs twice, a thread that
\* ends itself runs everything registered before the last pass, and a waiter that
\* notify_all_at_thread_exit wakes finds the thread_local objects destroyed.
THEOREM ExitRunsOnce == Exit!Spec => []ExitRunsEachOnce
<1>1. Exit!ExitInv => ExitRunsEachOnce
  <2> SUFFICES ASSUME Exit!ExitInv, NEW x \in DOMAIN objects
               PROVE  LET mine == objects[x].thread
                      IN  /\ ran[x] <= 1
                          /\ at[mine] = "keys" /\ objects[x].kind = "thread_local"
                             /\ Exit!BeforeKeys(x) => ran[x] = 1
                          /\ at[mine] = "cleaned" /\ pass[mine] < Passes
                             /\ objects[x].kind = "notifier" => ran[x] = 1
                          /\ objects[x].kind = "notifier" /\ ran[x] > 0
                             /\ Exit!BeforeKeys(x)
                             => \A y \in 1 .. x - 1 :
                                  objects[y].thread = mine /\ objects[y].kind = "thread_local"
                                  => ran[y] > 0
    BY DEF ExitRunsEachOnce, Exit!ExitRunsEachOnce
  <2>1. /\ Exit!KeptOK(x) /\ Exit!ReachedOK(x) /\ Exit!IdleOK(objects[x].thread)
        /\ \A y \in DOMAIN objects : Exit!OrderOK(x, y)
    BY ExitParts
  <2>2. ran[x] <= 1
    BY <2>1 DEF Exit!KeptOK
  <2>3. at[objects[x].thread] = "keys" /\ objects[x].kind = "thread_local"
        /\ Exit!BeforeKeys(x) => ran[x] = 1
    BY <2>1 DEF Exit!ReachedOK
  <2>4. ASSUME at[objects[x].thread] = "cleaned", pass[objects[x].thread] < Passes,
               objects[x].kind = "notifier"
        PROVE  ran[x] = 1
    <3>1. callbacks[objects[x].thread] = <<>> /\ calling[objects[x].thread] = <<>>
      BY <2>1, <2>4 DEF Exit!IdleOK
    <3>2. QED
      BY <2>1, <2>4, <3>1, EmptyList DEF Exit!KeptOK
  <2>5. ASSUME NEW y \in 1 .. x - 1, objects[y].thread = objects[x].thread,
               objects[y].kind = "thread_local", objects[x].kind = "notifier", ran[x] > 0,
               Exit!BeforeKeys(x)
        PROVE  ran[y] > 0
    <3>1. y \in DOMAIN objects /\ y < x
      BY ExitParts
    <3>2. QED
      BY <2>1, <2>5, <3>1 DEF Exit!OrderOK
  <2>6. QED
    BY <2>2, <2>3, <2>4, <2>5
<1>2. QED
  BY <1>1, ExitInvariant, PTL
=============================================================================
