------------------------ MODULE FamilyAccountsProofs ------------------------
(***************************************************************************)
(* Proofs about the accounts of the family companion, for any number of    *)
(* threads, families, addresses, users and invites, wherever requests are  *)
(* interrupted and however often the server restarts: what refers to an    *)
(* entry finds it, a user is never moved, and the file is never older than *)
(* a store that is at rest (auth.py:114-213, state.py:30-150,              *)
(* server.py:160-191).                                                     *)
(***************************************************************************)
EXTENDS FamilyAccounts, TLAPS

-----------------------------------------------------------------------------
(* The steps a request has left.                                           *)

Has(s, x) == \E i \in DOMAIN s : s[i] = x

(* Every b has an a before it, directly before it unless it comes first,   *)
(* or directly after it.                                                   *)
Before(s, a, b) == \A i \in DOMAIN s : s[i] = b => \E j \in DOMAIN s : j < i /\ s[j] = a

Adjacent(s, a, b) == \A i \in DOMAIN s : i # 1 /\ s[i] = b => s[i - 1] = a

Follows(s, a, b) == \A i \in DOMAIN s : s[i] = a => i + 1 \in DOMAIN s /\ s[i + 1] = b

FamilyWrites == {"putFamily", "addMember", "putOwner", "putEvents"}

Changing == FamilyWrites \cup {"addUser", "putUser", "saveInvite", "useInvite"}

FamilySteps ==
  FamilyWrites \cup {"checkFamily", "addAgent", "readFamily", "checkUser", "addUser",
                     "checkOwner", "saveInvite"}

Steps ==
  FamilySteps \cup {"readUser", "putUser", "checkInvite", "useInvite", "login", "open", "dump"}

(* What all requests have in common: a change is followed by a save, and   *)
(* what is written back was read in the step before.                       *)
Shape(s) ==
  /\ s \in Seq(Steps)
  /\ \A x \in Changing : Follows(s, x, "open")
  /\ \A x \in FamilyWrites : Adjacent(s, "readFamily", x)
  /\ Adjacent(s, "readUser", "putUser")
  /\ Adjacent(s, "checkUser", "addUser")
  /\ \A i \in DOMAIN s : s[i] = "checkInvite" => i = 1

-----------------------------------------------------------------------------
(* What a request knows, in a store with the families F, the users U and   *)
(* the invites I, with the ids D drawn.                                    *)

OwnerOf(f, o, U) == U[o] # None /\ U[o].family = f /\ U[o].role = "owner"

FamilyRead(r, U) ==
  r.read # None =>
    r.read \in FamilyEntry /\ (r.read.owner # None => OwnerOf(r.family, r.read.owner, U))

UserRead(r, U) ==
  /\ r.read \in UserEntry
  /\ U[r.user] # None
  /\ r.read.family = U[r.user].family
  /\ r.read.email = U[r.user].email
  /\ r.read.role = U[r.user].role

Registered(r, U) ==
  /\ r.user \in User /\ U[r.user] # None
  /\ U[r.user].family = r.family
  /\ U[r.user].email = r.email
  /\ U[r.user].role = r.role

InviteRead(r, I) ==
  /\ I[r.invite] # None
  /\ I[r.invite].family = r.family
  /\ I[r.invite].email = r.email

Knows(r, F, U, I, D) ==
  /\ Shape(r.todo)
  /\ r.role \in Role
  /\ r.todo # <<>> =>
       /\ Head(r.todo) \in FamilyWrites => FamilyRead(r, U)
       /\ Head(r.todo) = "putUser" => UserRead(r, U)
       /\ Head(r.todo) = "addUser" => F[r.family] # None
  /\ \A x \in FamilySteps : Has(r.todo, x) => r.family \in Family \/ Has(r.todo, "checkInvite")
  /\ \A x \in {"addUser", "saveInvite"} : Has(r.todo, x) => r.email \in Email
  /\ \A x \in {"readUser", "putUser"} : Has(r.todo, x) => r.user \in User
  /\ Has(r.todo, "putOwner") =>
       r.role = "owner" /\ (Before(r.todo, "addUser", "putOwner") \/ Registered(r, U))
  /\ Has(r.todo, "useInvite") =>
       /\ r.invite \in Invite \cap D
       /\ Has(r.todo, "checkInvite") \/ InviteRead(r, I)
       /\ Before(r.todo, "addUser", "useInvite") \/ Registered(r, U)
  /\ Has(r.todo, "checkInvite") =>
       /\ r.invite \in Invite
       /\ Before(r.todo, "addUser", "useInvite") /\ ~Has(r.todo, "putOwner")

(* A later store: entries stay, users and invites stay who they are.       *)
Grows(F, U, I, D, F2, U2, I2, D2) ==
  /\ \A f \in Family : F[f] # None => F2[f] # None
  /\ \A u \in User : U[u] # None =>
       /\ U2[u] # None /\ U2[u].family = U[u].family
       /\ U2[u].email = U[u].email /\ U2[u].role = U[u].role
  /\ \A i \in Invite \cap D : I[i] # None =>
       I2[i] # None /\ I2[i].family = I[i].family /\ I2[i].email = I[i].email
  /\ D \subseteq D2

Request ==
  [todo : Seq(Steps), family : Family \cup {None}, email : Email \cup {None},
   user : User \cup {None}, role : Role, invite : Invite \cup {None},
   read : FamilyEntry \cup UserEntry \cup {None}]

Asked(q, F, U, I, D) == q \in [Thread -> Request] /\ \A t \in Thread : Knows(q[t], F, U, I, D)

Stores ==
  [families : [Family -> FamilyEntry \cup {None}], users : [User -> UserEntry \cup {None}],
   invites : [Invite -> InviteEntry \cup {None}]]

Sound(c, D) ==
  /\ c \in Stores
  /\ Consistent(c)
  /\ \A u \in User : c.users[u] # None => u \in D

(* The inductive invariant: the store and the file are sound, the file is  *)
(* behind only while a save is due, and requests know what they rely on.   *)
AccountsInv ==
  /\ TypeOK
  /\ restarts \in Nat
  /\ \A u \in sessions : users[u] # None
  /\ Sound(Contents, drawn)
  /\ disk # Torn => Sound(disk, drawn)
  /\ disk \in {Torn, Contents} \/ \E t \in Thread : At(t, "open")
  /\ Asked(request, families, users, invites, drawn)

-----------------------------------------------------------------------------
(* Lemmas about the steps left.                                            *)

LEMMA EmptyIs == \A s \in Seq(Steps) : s = <<>> <=> Len(s) = 0
  OBVIOUS

LEMMA HeadIs ==
  ASSUME NEW s \in Seq(Steps), s # <<>>
  PROVE  Head(s) = s[1] /\ Tail(s) \in Seq(Steps) /\ Len(Tail(s)) = Len(s) - 1
  OBVIOUS

LEMMA TailOf ==
  ASSUME NEW s \in Seq(Steps), s # <<>>
  PROVE  \E n \in Nat :
           /\ n >= 1 /\ DOMAIN s = 1..n /\ DOMAIN Tail(s) = 1..(n - 1) /\ Head(s) = s[1]
           /\ Tail(s) \in Seq(Steps)
           /\ \A i \in 1..(n - 1) : i + 1 \in 1..n /\ Tail(s)[i] = s[i + 1]
           /\ \A i \in 1..n : i # 1 => i - 1 \in 1..(n - 1) /\ Tail(s)[i - 1] = s[i]
           /\ Tail(s) # <<>> <=> n > 1
           /\ Tail(s) # <<>> => Head(Tail(s)) = Tail(s)[1]
<1>1. PICK n \in Nat : n = Len(s)
  OBVIOUS
<1>2. /\ n >= 1 /\ DOMAIN s = 1..n /\ DOMAIN Tail(s) = 1..(n - 1) /\ Head(s) = s[1]
      /\ Tail(s) \in Seq(Steps)
  BY <1>1
<1>3. \A i \in 1..(n - 1) : i + 1 \in 1..n /\ Tail(s)[i] = s[i + 1]
  BY <1>1
<1>4. \A i \in 1..n : i # 1 => i - 1 \in 1..(n - 1) /\ Tail(s)[i - 1] = s[i]
  <2> SUFFICES ASSUME NEW i \in 1..n, i # 1
               PROVE  i - 1 \in 1..(n - 1) /\ Tail(s)[i - 1] = s[i]
    OBVIOUS
  <2>1. i - 1 \in 1..(n - 1) /\ (i - 1) + 1 = i
    OBVIOUS
  <2> QED BY <1>3, <2>1
<1>5. Tail(s) # <<>> <=> n > 1
  <2>2. PICK r \in Seq(Steps) : r = Tail(s) /\ Len(r) = n - 1
    BY <1>1, HeadIs
  <2>3. r # <<>> <=> n > 1
    BY <2>2, EmptyIs
  <2> QED BY <2>2, <2>3
<1>6. Tail(s) # <<>> => Head(Tail(s)) = Tail(s)[1]
  BY <1>2, HeadIs
<1> QED BY <1>2, <1>3, <1>4, <1>5, <1>6

LEMMA TailHas ==
  ASSUME NEW s \in Seq(Steps), s # <<>>, NEW x
  PROVE  /\ Has(Tail(s), x) => Has(s, x)
         /\ Has(s, x) => x = Head(s) \/ Has(Tail(s), x)
         /\ Has(s, Head(s))
<1>1. PICK n \in Nat :
           /\ n >= 1 /\ DOMAIN s = 1..n /\ DOMAIN Tail(s) = 1..(n - 1) /\ Head(s) = s[1]
           /\ \A i \in 1..(n - 1) : i + 1 \in 1..n /\ Tail(s)[i] = s[i + 1]
           /\ \A i \in 1..n : i # 1 => i - 1 \in 1..(n - 1) /\ Tail(s)[i - 1] = s[i]
  BY TailOf
<1>2. Has(Tail(s), x) => Has(s, x)
  BY <1>1 DEF Has
<1>3. Has(s, x) => x = Head(s) \/ Has(Tail(s), x)
  BY <1>1 DEF Has
<1>4. Has(s, Head(s))
  BY <1>1 DEF Has
<1> QED BY <1>2, <1>3, <1>4

LEMMA TailBefore ==
  ASSUME NEW s \in Seq(Steps), s # <<>>, NEW a, NEW b, Before(s, a, b)
  PROVE  Head(s) # b /\ (Head(s) # a => Before(Tail(s), a, b))
<1>1. PICK n \in Nat :
           /\ n >= 1 /\ DOMAIN s = 1..n /\ DOMAIN Tail(s) = 1..(n - 1) /\ Head(s) = s[1]
           /\ \A i \in 1..(n - 1) : i + 1 \in 1..n /\ Tail(s)[i] = s[i + 1]
           /\ \A i \in 1..n : i # 1 => i - 1 \in 1..(n - 1) /\ Tail(s)[i - 1] = s[i]
  BY TailOf
<1>2. Head(s) # b
  BY <1>1 DEF Before
<1>3. ASSUME Head(s) # a, NEW i \in 1..(n - 1), Tail(s)[i] = b
      PROVE  \E j \in 1..(n - 1) : j < i /\ Tail(s)[j] = a
  <2>1. i + 1 \in 1..n /\ s[i + 1] = b
    BY <1>1, <1>3
  <2>2. PICK j \in 1..n : j < i + 1 /\ s[j] = a
    BY <1>1, <2>1 DEF Before
  <2>3. j # 1
    BY <1>1, <1>3, <2>2
  <2>4. j - 1 \in 1..(n - 1) /\ Tail(s)[j - 1] = a /\ j - 1 < i
    BY <1>1, <2>2, <2>3
  <2> QED BY <2>4
<1> QED BY <1>1, <1>2, <1>3 DEF Before

LEMMA TailShape ==
  ASSUME NEW s, Shape(s), s # <<>>
  PROVE  /\ Shape(Tail(s)) /\ s \in Seq(Steps)
         /\ Head(s) \in Changing => Tail(s) # <<>> /\ Head(Tail(s)) = "open"
         /\ Tail(s) # <<>> /\ Head(Tail(s)) \in FamilyWrites => Head(s) = "readFamily"
         /\ Tail(s) # <<>> /\ Head(Tail(s)) = "putUser" => Head(s) = "readUser"
         /\ Tail(s) # <<>> /\ Head(Tail(s)) = "addUser" => Head(s) = "checkUser"
         /\ ~Has(Tail(s), "checkInvite")
<1>1. s \in Seq(Steps)
  BY DEF Shape
<1>2. PICK n \in Nat :
           /\ n >= 1 /\ DOMAIN s = 1..n /\ DOMAIN Tail(s) = 1..(n - 1) /\ Head(s) = s[1]
           /\ Tail(s) \in Seq(Steps)
           /\ \A i \in 1..(n - 1) : i + 1 \in 1..n /\ Tail(s)[i] = s[i + 1]
           /\ \A i \in 1..n : i # 1 => i - 1 \in 1..(n - 1) /\ Tail(s)[i - 1] = s[i]
           /\ Tail(s) # <<>> <=> n > 1
           /\ Tail(s) # <<>> => Head(Tail(s)) = Tail(s)[1]
  BY <1>1, TailOf
<1>3. ASSUME NEW a, NEW b, Follows(s, a, b)
      PROVE  Follows(Tail(s), a, b) /\ (Head(s) = a => Tail(s) # <<>> /\ Head(Tail(s)) = b)
  <2>1. ASSUME NEW i \in 1..(n - 1), Tail(s)[i] = a
        PROVE  i + 1 \in 1..(n - 1) /\ Tail(s)[i + 1] = b
    <3>1. i + 1 \in 1..n /\ s[i + 1] = a
      BY <1>2, <2>1
    <3>2. (i + 1) + 1 \in 1..n /\ s[(i + 1) + 1] = b
      BY <1>2, <1>3, <3>1 DEF Follows
    <3>3. i + 1 \in 1..(n - 1)
      BY <3>2
    <3> QED BY <1>2, <3>2, <3>3
  <2>2. ASSUME Head(s) = a
        PROVE  Tail(s) # <<>> /\ Head(Tail(s)) = b
    <3>1. 1 \in 1..n /\ s[1] = a
      BY <1>2, <2>2
    <3>2. 1 + 1 \in 1..n /\ s[1 + 1] = b
      BY <1>2, <1>3, <3>1 DEF Follows
    <3>3. 1 \in 1..(n - 1) /\ n > 1
      BY <3>2
    <3> QED BY <1>2, <3>2, <3>3
  <2> QED BY <1>2, <2>1, <2>2 DEF Follows
<1>4. ASSUME NEW a, NEW b, Adjacent(s, a, b)
      PROVE  Adjacent(Tail(s), a, b) /\ (Tail(s) # <<>> /\ Head(Tail(s)) = b => Head(s) = a)
  <2>1. ASSUME NEW i \in 1..(n - 1), i # 1, Tail(s)[i] = b
        PROVE  Tail(s)[i - 1] = a
    <3>1. i + 1 \in 1..n /\ i + 1 # 1 /\ s[i + 1] = b
      BY <1>2, <2>1
    <3>2. s[(i + 1) - 1] = a
      BY <1>2, <1>4, <3>1 DEF Adjacent
    <3>3. i \in 1..n /\ (i + 1) - 1 = i
      BY <3>1
    <3> QED BY <1>2, <2>1, <3>2, <3>3
  <2>2. ASSUME Tail(s) # <<>>, Head(Tail(s)) = b
        PROVE  Head(s) = a
    <3>1. 2 \in 1..n /\ s[2] = b
      <4>1. 1 \in 1..(n - 1)
        BY <1>2, <2>2
      <4>2. 1 + 1 \in 1..n /\ Tail(s)[1] = s[1 + 1]
        BY <1>2, <4>1
      <4> QED BY <1>2, <2>2, <4>2
    <3>2. s[2 - 1] = a
      BY <1>2, <1>4, <3>1 DEF Adjacent
    <3> QED BY <1>2, <3>2
  <2> QED BY <1>2, <2>1, <2>2 DEF Adjacent
<1>5. \A i \in 1..(n - 1) : Tail(s)[i] # "checkInvite"
  <2> SUFFICES ASSUME NEW i \in 1..(n - 1), Tail(s)[i] = "checkInvite"
               PROVE  FALSE
    OBVIOUS
  <2>1. i + 1 \in 1..n /\ s[i + 1] = "checkInvite"
    BY <1>2
  <2>2. i + 1 = 1
    BY <1>2, <2>1 DEF Shape
  <2> QED BY <2>2
<1>6. Shape(Tail(s))
  BY <1>2, <1>3, <1>4, <1>5 DEF Shape
<1>7. Head(s) \in Changing => Tail(s) # <<>> /\ Head(Tail(s)) = "open"
  BY <1>3 DEF Shape
<1>8. /\ Tail(s) # <<>> /\ Head(Tail(s)) \in FamilyWrites => Head(s) = "readFamily"
      /\ Tail(s) # <<>> /\ Head(Tail(s)) = "putUser" => Head(s) = "readUser"
      /\ Tail(s) # <<>> /\ Head(Tail(s)) = "addUser" => Head(s) = "checkUser"
  BY <1>4 DEF Shape
<1>9. ~Has(Tail(s), "checkInvite")
  BY <1>2, <1>5 DEF Has
<1> QED BY <1>1, <1>6, <1>7, <1>8, <1>9

-----------------------------------------------------------------------------
(* The scripts.                                                            *)

LEMMA SignupIs ==
  LET s == SignupSteps IN
  /\ Shape(s) /\ s # <<>> /\ Head(s) = "checkFamily"
  /\ Before(s, "addUser", "putOwner")
  /\ \A x \in {"useInvite", "checkInvite", "readUser", "putUser"} : ~Has(s, x)
<1> DEFINE s == SignupSteps
<1>1. s \in Seq(Steps) /\ Len(s) = 19
  BY DEF SignupSteps, RegisterSteps, AddMemberSteps, Save, Steps, FamilySteps, FamilyWrites
<1>2. /\ s[1] = "checkFamily" /\ s[2] = "addAgent" /\ s[3] = "readFamily"
      /\ s[4] = "putFamily" /\ s[5] = "open" /\ s[6] = "dump" /\ s[7] = "checkUser"
      /\ s[8] = "addUser" /\ s[9] = "open" /\ s[10] = "dump" /\ s[11] = "readFamily"
      /\ s[12] = "addMember" /\ s[13] = "open" /\ s[14] = "dump" /\ s[15] = "readFamily"
      /\ s[16] = "putOwner" /\ s[17] = "open" /\ s[18] = "dump" /\ s[19] = "login"
  BY DEF SignupSteps, RegisterSteps, AddMemberSteps, Save
<1> HIDE DEF s
<1>3. DOMAIN s = 1..19 /\ s # <<>> /\ Head(s) = s[1]
  <2>1. DOMAIN s = 1..19
    BY <1>1
  <2>2. s # <<>>
    <3>1. 19 # 0
      OBVIOUS
    <3> QED BY <1>1, <3>1, EmptyIs, Zenon
  <2>3. Head(s) = s[1]
    BY <1>1, <2>2, HeadIs
  <2> QED BY <2>1, <2>2, <2>3
<1>4. \A i \in 1..19 :
        /\ s[i] \in Changing => i + 1 \in 1..19 /\ s[i + 1] = "open"
        /\ i # 1 /\ s[i] \in FamilyWrites => s[i - 1] = "readFamily"
        /\ i # 1 /\ s[i] = "addUser" => s[i - 1] = "checkUser"
        /\ s[i] = "putOwner" => i = 16
        /\ s[i] \notin {"useInvite", "checkInvite", "readUser", "putUser"}
  BY <1>2 DEF Changing, FamilyWrites
<1>5. Shape(s)
  BY <1>1, <1>3, <1>4 DEF Shape, Follows, Adjacent
<1>6. Before(s, "addUser", "putOwner")
  BY <1>2, <1>3, <1>4 DEF Before
<1>7. \A x \in {"useInvite", "checkInvite", "readUser", "putUser"} : ~Has(s, x)
  BY <1>3, <1>4 DEF Has
<1>8. Head(s) = "checkFamily"
  BY <1>2, <1>3
<1> QED BY <1>3, <1>5, <1>6, <1>7, <1>8 DEF s

LEMMA AcceptIs ==
  LET s == AcceptSteps IN
  /\ Shape(s) /\ s # <<>> /\ Head(s) = "checkInvite" /\ Has(s, "checkInvite")
  /\ Before(s, "addUser", "useInvite")
  /\ \A x \in {"putOwner", "saveInvite", "readUser", "putUser"} : ~Has(s, x)
<1> DEFINE s == AcceptSteps
<1>1. s \in Seq(Steps) /\ Len(s) = 13
  BY DEF AcceptSteps, RegisterSteps, AddMemberSteps, Save, Steps, FamilySteps, FamilyWrites
<1>2. /\ s[1] = "checkInvite" /\ s[2] = "checkUser" /\ s[3] = "addUser" /\ s[4] = "open"
      /\ s[5] = "dump" /\ s[6] = "readFamily" /\ s[7] = "addMember" /\ s[8] = "open"
      /\ s[9] = "dump" /\ s[10] = "useInvite" /\ s[11] = "open" /\ s[12] = "dump"
      /\ s[13] = "login"
  BY DEF AcceptSteps, RegisterSteps, AddMemberSteps, Save
<1> HIDE DEF s
<1>3. DOMAIN s = 1..13 /\ s # <<>> /\ Head(s) = s[1]
  BY <1>1
<1>4. \A i \in 1..13 :
        /\ s[i] \in Changing => i + 1 \in 1..13 /\ s[i + 1] = "open"
        /\ i # 1 /\ s[i] \in FamilyWrites => s[i - 1] = "readFamily"
        /\ i # 1 /\ s[i] = "addUser" => s[i - 1] = "checkUser"
        /\ s[i] = "checkInvite" => i = 1
        /\ s[i] = "useInvite" => i = 10
        /\ s[i] \notin {"putOwner", "saveInvite", "readUser", "putUser"}
  BY <1>2 DEF Changing, FamilyWrites
<1>5. Shape(s)
  BY <1>1, <1>3, <1>4 DEF Shape, Follows, Adjacent
<1>6. Before(s, "addUser", "useInvite")
  BY <1>2, <1>3, <1>4 DEF Before
<1>7. \A x \in {"putOwner", "saveInvite", "readUser", "putUser"} : ~Has(s, x)
  BY <1>3, <1>4 DEF Has
<1>8. Head(s) = "checkInvite" /\ Has(s, "checkInvite")
  BY <1>2, <1>3 DEF Has
<1> QED BY <1>3, <1>5, <1>6, <1>7, <1>8 DEF s

(* The scripts of four steps: a check or a reading, a change and its save. *)
LEMMA ShortIs ==
  ASSUME NEW a \in Steps, NEW b \in Changing \ {"addUser", "putOwner", "useInvite"},
         a \notin Changing, a # "checkInvite",
         b \in FamilyWrites => a = "readFamily",
         b = "putUser" => a = "readUser"
  PROVE  LET s == <<a, b>> \o Save IN
         /\ Shape(s) /\ s # <<>> /\ Head(s) = a
         /\ \A x : Has(s, x) => x \in {a, b, "open", "dump"}
<1> DEFINE s == <<a, b>> \o Save
<1>1. b \in Steps
  BY DEF Changing, Steps, FamilySteps
<1>2. s \in Seq(Steps) /\ Len(s) = 4
  <2>1. "open" \in Steps /\ "dump" \in Steps
    BY DEF Steps
  <2> QED BY <1>1, <2>1 DEF Save
<1>3. s[1] = a /\ s[2] = b /\ s[3] = "open" /\ s[4] = "dump"
  BY DEF Save
<1> HIDE DEF s
<1>4. DOMAIN s = 1..4 /\ s # <<>> /\ Head(s) = s[1]
  BY <1>2
<1>5. \A i \in 1..4 :
        /\ s[i] \in Changing => i + 1 \in 1..4 /\ s[i + 1] = "open"
        /\ i # 1 /\ s[i] \in FamilyWrites => s[i - 1] = "readFamily"
        /\ i # 1 /\ s[i] = "putUser" => s[i - 1] = "readUser"
        /\ i # 1 => s[i] # "addUser"
        /\ s[i] # "checkInvite"
        /\ s[i] \in {a, b, "open", "dump"}
  BY <1>3 DEF Changing, FamilyWrites
<1>6. Shape(s)
  BY <1>2, <1>4, <1>5 DEF Shape, Follows, Adjacent
<1>7. \A x : Has(s, x) => x \in {a, b, "open", "dump"}
  BY <1>4, <1>5 DEF Has
<1>8. Head(s) = a
  BY <1>3, <1>4
<1> QED BY <1>4, <1>6, <1>7, <1>8 DEF s

-----------------------------------------------------------------------------
(* What requests know stays true.                                          *)

LEMMA NothingKnown ==
  ASSUME NEW F, NEW U, NEW I, NEW D
  PROVE  NoRequest \in Request /\ Knows(NoRequest, F, U, I, D)
<1>1. NoRequest \in Request /\ NoRequest.todo = <<>> /\ NoRequest.role = "member"
  <2>1. <<>> \in Seq(Steps)
    OBVIOUS
  <2> QED BY <2>1 DEF NoRequest, Request, Role
<1>2. \A x : ~Has(<<>>, x)
  BY DEF Has
<1>3. Shape(<<>>)
  <2>1. <<>> \in Seq(Steps)
    OBVIOUS
  <2> QED BY <2>1 DEF Shape, Follows, Adjacent
<1> QED BY <1>1, <1>2, <1>3 DEF Knows, Role

LEMMA HeadKnows ==
  ASSUME NEW r, NEW F, NEW U, NEW I, NEW D, Knows(r, F, U, I, D), r.todo # <<>>
  PROVE  /\ r.todo \in Seq(Steps) /\ Has(r.todo, Head(r.todo))
         /\ Has(r.todo, "checkInvite") => Head(r.todo) = "checkInvite"
         /\ Head(r.todo) \in FamilySteps => r.family \in Family
         /\ Head(r.todo) \in {"readUser", "putUser"} => r.user \in User
         /\ Head(r.todo) \in {"addUser", "saveInvite"} => r.email \in Email
<1>1. r.todo \in Seq(Steps) /\ Has(r.todo, Head(r.todo))
  BY TailHas DEF Knows, Shape
<1>2. ~Has(Tail(r.todo), "checkInvite")
  BY TailShape DEF Knows
<1>3. Has(r.todo, "checkInvite") => Head(r.todo) = "checkInvite"
  BY <1>1, <1>2, TailHas
<1>4. Head(r.todo) \in FamilySteps => r.family \in Family
  BY <1>1, <1>3 DEF Knows, FamilySteps, FamilyWrites
<1> QED BY <1>1, <1>3, <1>4 DEF Knows

LEMMA KnowsKept ==
  ASSUME NEW r, NEW F, NEW U, NEW I, NEW D, NEW F2, NEW U2, NEW I2, NEW D2,
         Knows(r, F, U, I, D), Grows(F, U, I, D, F2, U2, I2, D2)
  PROVE  Knows(r, F2, U2, I2, D2)
<1>1. Registered(r, U) => Registered(r, U2)
  BY DEF Registered, Grows
<1>2. r.invite \in Invite \cap D => r.invite \in Invite \cap D2
  BY DEF Grows
<1>3. r.invite \in Invite \cap D /\ InviteRead(r, I) => InviteRead(r, I2)
  BY DEF InviteRead, Grows
<1>4. ASSUME r.todo # <<>>
      PROVE  /\ Head(r.todo) \in FamilyWrites => FamilyRead(r, U2)
             /\ Head(r.todo) = "putUser" => UserRead(r, U2)
             /\ Head(r.todo) = "addUser" => F2[r.family] # None
  <2>1. Head(r.todo) \in FamilyWrites => FamilyRead(r, U2)
    <3>1. FamilyRead(r, U) => FamilyRead(r, U2)
      BY DEF FamilyRead, OwnerOf, FamilyEntry, Grows
    <3> QED BY <1>4, <3>1 DEF Knows
  <2>2. Head(r.todo) = "putUser" => UserRead(r, U2)
    <3>1. Head(r.todo) = "putUser" => r.user \in User
      BY <1>4, HeadKnows
    <3>2. r.user \in User /\ UserRead(r, U) => UserRead(r, U2)
      BY DEF UserRead, Grows
    <3> QED BY <1>4, <3>1, <3>2 DEF Knows
  <2>3. Head(r.todo) = "addUser" => F2[r.family] # None
    <3>1. Head(r.todo) = "addUser" => r.family \in Family
      BY <1>4, HeadKnows DEF FamilySteps
    <3> QED BY <1>4, <3>1 DEF Knows, Grows
  <2> QED BY <2>1, <2>2, <2>3
<1> QED BY <1>1, <1>2, <1>3, <1>4 DEF Knows

(* What a request knows after its next step.                               *)
LEMMA StepKnows ==
  ASSUME NEW r, NEW F, NEW U, NEW I, NEW D, NEW F2, NEW U2, NEW I2, NEW D2,
         Knows(r, F, U, I, D), Grows(F, U, I, D, F2, U2, I2, D2), r.todo # <<>>,
         NEW r2, NEW h, h = Head(r.todo),
         r2.todo = Tail(r.todo), r2.email = r.email, r2.invite = r.invite,
         h = "addUser" => Registered(r2, U2),
         h # "addUser" => r2.user = r.user,
         h = "checkInvite" => r2.family \in Family /\ r2.role \in Role /\ InviteRead(r2, I2),
         h # "checkInvite" => r2.family = r.family /\ r2.role = r.role,
         h = "readFamily" => FamilyRead(r2, U2),
         h = "readUser" => UserRead(r2, U2),
         h = "checkUser" => F2[r2.family] # None
  PROVE  Knows(r2, F2, U2, I2, D2)
<1>1. /\ Shape(r2.todo) /\ r.todo \in Seq(Steps) /\ ~Has(r2.todo, "checkInvite")
      /\ r2.todo # <<>> /\ Head(r2.todo) \in FamilyWrites => h = "readFamily"
      /\ r2.todo # <<>> /\ Head(r2.todo) = "putUser" => h = "readUser"
      /\ r2.todo # <<>> /\ Head(r2.todo) = "addUser" => h = "checkUser"
  BY TailShape DEF Knows
<1>2. \A x : Has(r2.todo, x) => Has(r.todo, x)
  BY <1>1, TailHas
<1>3. Has(r.todo, "checkInvite") => h = "checkInvite"
  BY HeadKnows
<1>4. r2.role \in Role
  BY DEF Knows
<1>5. \A x \in FamilySteps : Has(r2.todo, x) => r2.family \in Family
  BY <1>2, <1>3 DEF Knows
<1>6. \A x \in {"addUser", "saveInvite"} : Has(r2.todo, x) => r2.email \in Email
  BY <1>2 DEF Knows
<1>7. \A x \in {"readUser", "putUser"} : Has(r2.todo, x) => r2.user \in User
  BY <1>2 DEF Knows, Registered
<1>8. \A b : Before(r.todo, "addUser", b) =>
              h # b /\ (Before(r2.todo, "addUser", b) \/ Registered(r2, U2))
  BY <1>1, TailBefore
<1>9. Registered(r, U) /\ h # "checkInvite" => Registered(r2, U2)
  BY DEF Registered, Grows
<1>10. ASSUME Has(r2.todo, "putOwner")
       PROVE  /\ r2.role = "owner"
              /\ Before(r2.todo, "addUser", "putOwner") \/ Registered(r2, U2)
  <2>1. Has(r.todo, "putOwner") /\ h # "checkInvite"
    BY <1>2, <1>10, HeadKnows DEF Knows
  <2> QED BY <1>8, <1>9, <2>1 DEF Knows
<1>11. ASSUME Has(r2.todo, "useInvite")
       PROVE  /\ r2.invite \in Invite \cap D2
              /\ InviteRead(r2, I2)
              /\ Before(r2.todo, "addUser", "useInvite") \/ Registered(r2, U2)
  <2>1. Has(r.todo, "useInvite") /\ r.invite \in Invite \cap D
    BY <1>2, <1>11 DEF Knows
  <2>2. InviteRead(r2, I2)
    <3>1. CASE h = "checkInvite"
      BY <3>1
    <3>2. CASE h # "checkInvite"
      <4>1. InviteRead(r, I)
        BY <1>3, <2>1, <3>2 DEF Knows
      <4> QED BY <2>1, <3>2, <4>1 DEF InviteRead, Grows
    <3> QED BY <3>1, <3>2
  <2>3. Before(r2.todo, "addUser", "useInvite") \/ Registered(r2, U2)
    <3>1. CASE h = "checkInvite"
      <4>1. Has(r.todo, "checkInvite")
        BY <1>1, <3>1, TailHas
      <4> QED BY <1>8, <4>1 DEF Knows
    <3>2. CASE h # "checkInvite"
      BY <1>8, <1>9, <2>1, <3>2 DEF Knows
    <3> QED BY <3>1, <3>2
  <2> QED BY <2>1, <2>2, <2>3 DEF Grows
<1> QED BY <1>1, <1>4, <1>5, <1>6, <1>7, <1>10, <1>11 DEF Knows

-----------------------------------------------------------------------------
(* A step by the thread t: what it must show for the requests to be kept.  *)

Becomes(q, q2, t, r) == q2 = [q EXCEPT ![t] = [r EXCEPT !.todo = Tail(@)]]

LEMMA Keeps ==
  ASSUME NEW F, NEW U, NEW I, NEW D, NEW F2, NEW U2, NEW I2, NEW D2, NEW q, NEW q2,
         Asked(q, F, U, I, D), Grows(F, U, I, D, F2, U2, I2, D2),
         NEW t \in Thread, NEW r \in Request, q2 = [q EXCEPT ![t] = r],
         Knows(r, F2, U2, I2, D2)
  PROVE  Asked(q2, F2, U2, I2, D2)
<1>1. q \in [Thread -> Request] /\ \A p \in Thread : Knows(q[p], F2, U2, I2, D2)
  BY KnowsKept DEF Asked
<1> QED BY <1>1 DEF Asked

LEMMA DoneKeeps ==
  ASSUME NEW F, NEW U, NEW I, NEW D, NEW F2, NEW U2, NEW I2, NEW D2, NEW q, NEW q2,
         Asked(q, F, U, I, D), Grows(F, U, I, D, F2, U2, I2, D2),
         NEW t \in Thread, NEW r \in Request, NEW h,
         q[t].todo # <<>>, h = Head(q[t].todo),
         Becomes(q, q2, t, r),
         r.todo = q[t].todo, r.email = q[t].email, r.invite = q[t].invite,
         h = "addUser" => Registered(r, U2),
         h # "addUser" => r.user = q[t].user,
         h = "checkInvite" => r.family \in Family /\ r.role \in Role /\ InviteRead(r, I2),
         h # "checkInvite" => r.family = q[t].family /\ r.role = q[t].role,
         h = "readFamily" => FamilyRead(r, U2),
         h = "readUser" => UserRead(r, U2),
         h = "checkUser" => F2[r.family] # None
  PROVE  Asked(q2, F2, U2, I2, D2)
<1>1. PICK r2 : r2 = [r EXCEPT !.todo = Tail(@)]
  OBVIOUS
<1>2. /\ r2.todo = Tail(q[t].todo) /\ r2.family = r.family /\ r2.email = r.email
      /\ r2.user = r.user /\ r2.role = r.role /\ r2.invite = r.invite /\ r2.read = r.read
  BY <1>1 DEF Request
<1>3. r2 \in Request
  <2>1. r.todo \in Seq(Steps) /\ r.todo # <<>>
    BY DEF Request
  <2>2. Tail(r.todo) \in Seq(Steps)
    BY <2>1, HeadIs
  <2> QED BY <1>1, <2>2 DEF Request
<1>4. Knows(q[t], F, U, I, D)
  BY DEF Asked
<1>5. /\ Registered(r, U2) => Registered(r2, U2)
      /\ InviteRead(r, I2) => InviteRead(r2, I2)
      /\ FamilyRead(r, U2) => FamilyRead(r2, U2)
      /\ UserRead(r, U2) => UserRead(r2, U2)
  BY <1>2 DEF Registered, InviteRead, FamilyRead, UserRead
<1>6. Knows(r2, F2, U2, I2, D2)
  BY <1>2, <1>4, <1>5, StepKnows
<1>7. q2 = [q EXCEPT ![t] = r2]
  BY <1>1 DEF Becomes
<1>8. \A p \in Thread : Knows(q[p], F2, U2, I2, D2)
  BY KnowsKept DEF Asked
<1>9. q2 \in [Thread -> Request] /\ \A p \in Thread : q2[p] = IF p = t THEN r2 ELSE q[p]
  BY <1>3, <1>7 DEF Asked
<1> QED BY <1>6, <1>8, <1>9 DEF Asked

LEMMA RefuseKeeps ==
  ASSUME NEW F, NEW U, NEW I, NEW D, NEW q, NEW q2, Asked(q, F, U, I, D),
         NEW t \in Thread, q2 = [q EXCEPT ![t] = NoRequest]
  PROVE  Asked(q2, F, U, I, D)
<1>1. Grows(F, U, I, D, F, U, I, D)
  BY DEF Grows
<1> QED BY <1>1, NothingKnown, Keeps

(* The rest of the invariant: in a step that leaves the store alone, and   *)
(* in one that changes it.                                                 *)
LEMMA ReadingKeeps ==
  ASSUME AccountsInv, NEW t \in Thread, ~At(t, "open"),
         UNCHANGED <<store, disk, writers, clash, drawn, restarts>>,
         agents' \subseteq Family, sessions' \subseteq User,
         \A u \in sessions' : users[u] # None,
         \A p \in Thread : p # t => request'[p] = request[p],
         Asked(request', families, users, invites, drawn)
  PROVE  AccountsInv'
<1>1. /\ families' = families /\ users' = users /\ invites' = invites /\ disk' = disk
      /\ drawn' = drawn /\ restarts' = restarts /\ writers' = writers /\ clash' = clash
  BY DEF store
<1>2. Contents' = Contents
  BY <1>1 DEF Contents
<1>3. TypeOK'
  BY <1>1 DEF AccountsInv, TypeOK
<1>4. disk' \in {Torn, Contents'} \/ \E p \in Thread : At(p, "open")'
  BY <1>1, <1>2 DEF AccountsInv, At
<1>5. Asked(request, families, users, invites, drawn)'
  BY <1>1
<1> QED BY <1>1, <1>2, <1>3, <1>4, <1>5 DEF AccountsInv, Sound

LEMMA SoundTypes ==
  ASSUME NEW D, Sound(Contents, D)
  PROVE  /\ families \in [Family -> FamilyEntry \cup {None}]
         /\ users \in [User -> UserEntry \cup {None}]
         /\ invites \in [Invite -> InviteEntry \cup {None}]
BY DEF Sound, Stores, Contents

LEMMA SoundLater ==
  ASSUME NEW c, NEW D, NEW D2, Sound(c, D), D \subseteq D2
  PROVE  Sound(c, D2)
BY DEF Sound

LEMMA ChangingKeeps ==
  ASSUME AccountsInv, NEW t \in Thread, NEW h \in Changing, At(t, h), Disturb,
         UNCHANGED <<disk, writers, agents, sessions, restarts>>,
         request'[t].todo = Tail(request[t].todo),
         drawn' \subseteq User \cup Invite,
         Grows(families, users, invites, drawn, families', users', invites', drawn'),
         Sound(Contents', drawn'),
         Asked(request', families', users', invites', drawn')
  PROVE  AccountsInv'
<1>1. Sound(Contents, drawn)'
  OBVIOUS
<1>2. TypeOK'
  <2>1. /\ families' \in [Family -> FamilyEntry \cup {None}]
        /\ users' \in [User -> UserEntry \cup {None}]
        /\ invites' \in [Invite -> InviteEntry \cup {None}]
    BY <1>1 DEF Sound, Stores, Contents
  <2> QED BY <2>1 DEF AccountsInv, TypeOK, Disturb
<1>3. \A u \in sessions' : users'[u] # None
  BY DEF AccountsInv, TypeOK, Grows
<1>4. disk' # Torn => Sound(disk, drawn)'
  BY SoundLater DEF AccountsInv, Grows
<1>5. At(t, "open")'
  <2>1. Shape(request[t].todo) /\ request[t].todo # <<>> /\ Head(request[t].todo) \in Changing
    BY DEF AccountsInv, Asked, Knows, At
  <2> QED BY <2>1, TailShape DEF At
<1> QED BY <1>1, <1>2, <1>3, <1>4, <1>5 DEF AccountsInv

-----------------------------------------------------------------------------
(* Requests arrive.                                                        *)

LEMMA SameGrows == \A F, U, I, D : Grows(F, U, I, D, F, U, I, D)
  BY DEF Grows

LEMMA BeginKeeps ==
  ASSUME AccountsInv, NEW t \in Thread, NEW r \in Request, Begin(t, r),
         Knows(r, families, users, invites, drawn)
  PROVE  AccountsInv'
<1>1. Asked(request', families, users, invites, drawn)
  <2>1. Asked(request, families, users, invites, drawn)
    BY DEF AccountsInv
  <2>2. request' = [request EXCEPT ![t] = r]
    BY DEF Begin
  <2> QED BY <2>1, <2>2, SameGrows, Keeps
<1>2. \A p \in Thread : p # t => request'[p] = request[p]
  BY DEF Begin, AccountsInv, Asked
<1>3. ~At(t, "open")
  BY DEF Begin, At
<1>4. UNCHANGED <<store, disk, writers, clash, drawn, restarts>> /\ agents' = agents
      /\ sessions' = sessions
  BY DEF Begin
<1> QED BY <1>1, <1>2, <1>3, <1>4, ReadingKeeps DEF AccountsInv, TypeOK

(* What a request that has just arrived knows, from its steps.             *)
LEMMA ArrivedKnows ==
  ASSUME NEW r \in Request, NEW F, NEW U, NEW I, NEW D, Shape(r.todo), r.todo # <<>>,
         Head(r.todo) \notin Changing,
         r.family \in Family \/ Has(r.todo, "checkInvite")
           \/ \A x \in FamilySteps : ~Has(r.todo, x),
         r.email \in Email \/ (~Has(r.todo, "addUser") /\ ~Has(r.todo, "saveInvite")),
         r.user \in User \/ (~Has(r.todo, "readUser") /\ ~Has(r.todo, "putUser")),
         Has(r.todo, "putOwner") =>
           r.role = "owner" /\ Before(r.todo, "addUser", "putOwner")
             /\ ~Has(r.todo, "checkInvite"),
         Has(r.todo, "useInvite") => r.invite \in Invite \cap D /\ Has(r.todo, "checkInvite"),
         Has(r.todo, "checkInvite") =>
           r.invite \in Invite /\ Before(r.todo, "addUser", "useInvite")
  PROVE  Knows(r, F, U, I, D)
<1>1. r.role \in Role
  BY DEF Request
<1>2. \A x \in FamilySteps : Has(r.todo, x) => r.family \in Family \/ Has(r.todo, "checkInvite")
  OBVIOUS
<1>3. ~(Head(r.todo) \in FamilyWrites) /\ Head(r.todo) # "putUser" /\ Head(r.todo) # "addUser"
  BY DEF Changing
<1>4. /\ \A x \in {"addUser", "saveInvite"} : Has(r.todo, x) => r.email \in Email
      /\ \A x \in {"readUser", "putUser"} : Has(r.todo, x) => r.user \in User
  OBVIOUS
<1> QED BY <1>1, <1>2, <1>3, <1>4 DEF Knows

LEMMA NoRequestIs ==
  /\ NoRequest \in Request
  /\ DOMAIN NoRequest = {"todo", "family", "email", "user", "role", "invite", "read"}
  /\ NoRequest.todo = <<>> /\ NoRequest.family = None /\ NoRequest.email = None
  /\ NoRequest.user = None /\ NoRequest.role = "member" /\ NoRequest.invite = None
  /\ NoRequest.read = None
<1>1. NoRequest \in Request
  BY NothingKnown
<1> QED BY <1>1 DEF NoRequest

LEMMA SignupKeeps ==
  ASSUME AccountsInv, NEW t \in Thread, Signup(t)
  PROVE  AccountsInv'
<1>1. PICK f \in Family, e \in Email :
        Begin(t, [NoRequest EXCEPT !.todo = SignupSteps, !.family = f, !.email = e,
                                   !.role = "owner"])
  BY DEF Signup
<1>2. PICK s : s = SignupSteps
  OBVIOUS
<1>3. /\ Shape(s) /\ s # <<>> /\ Head(s) = "checkFamily" /\ s \in Seq(Steps)
      /\ Before(s, "addUser", "putOwner") /\ ~Has(s, "useInvite") /\ ~Has(s, "checkInvite")
      /\ ~Has(s, "readUser") /\ ~Has(s, "putUser")
  BY <1>2, SignupIs DEF Shape
<1>4. PICK r : r = [NoRequest EXCEPT !.todo = s, !.family = f, !.email = e, !.role = "owner"]
  OBVIOUS
<1>5. r \in Request /\ r.todo = s /\ r.family = f /\ r.email = e /\ r.role = "owner"
  BY <1>3, <1>4, NoRequestIs DEF Request, Role
<1>6. Head(r.todo) \notin Changing
  BY <1>3, <1>5 DEF Changing, FamilyWrites
<1>7. Knows(r, families, users, invites, drawn)
  BY <1>3, <1>5, <1>6, ArrivedKnows
<1>8. Begin(t, r)
  BY <1>1, <1>2, <1>4
<1> QED BY <1>5, <1>7, <1>8, BeginKeeps

LEMMA AcceptKeeps ==
  ASSUME AccountsInv, NEW t \in Thread, Accept(t)
  PROVE  AccountsInv'
<1>1. PICK i \in Invite \cap drawn, e \in Email :
        Begin(t, [NoRequest EXCEPT !.todo = AcceptSteps, !.invite = i, !.email = e])
  BY DEF Accept
<1>2. PICK s : s = AcceptSteps
  OBVIOUS
<1>3. /\ Shape(s) /\ s # <<>> /\ Head(s) = "checkInvite" /\ s \in Seq(Steps)
      /\ Has(s, "checkInvite") /\ Before(s, "addUser", "useInvite") /\ ~Has(s, "putOwner")
      /\ ~Has(s, "readUser") /\ ~Has(s, "putUser")
  BY <1>2, AcceptIs DEF Shape
<1>4. PICK r : r = [NoRequest EXCEPT !.todo = s, !.invite = i, !.email = e]
  OBVIOUS
<1>5. r \in Request /\ r.todo = s /\ r.email = e /\ r.invite = i
  BY <1>3, <1>4, NoRequestIs DEF Request, Role
<1>6. Head(r.todo) \notin Changing
  BY <1>3, <1>5 DEF Changing, FamilyWrites
<1>7. Knows(r, families, users, invites, drawn)
  BY <1>3, <1>5, <1>6, ArrivedKnows
<1>8. Begin(t, r)
  BY <1>1, <1>2, <1>4
<1> QED BY <1>5, <1>7, <1>8, BeginKeeps

LEMMA ShortKeeps ==
  ASSUME AccountsInv, NEW t \in Thread, NEW r \in Request, Begin(t, r),
         NEW a \in {"readFamily", "checkOwner", "readUser"},
         NEW b \in {"putEvents", "saveInvite", "putUser"},
         r.todo = <<a, b>> \o Save,
         b = "putEvents" => a = "readFamily",
         b = "putUser" => a = "readUser",
         r.family \in Family \/ (a = "readUser" /\ b = "putUser"),
         r.email \in Email \/ b # "saveInvite",
         r.user \in User \/ (a # "readUser" /\ b # "putUser")
  PROVE  AccountsInv'
<1>1. PICK s : s = <<a, b>> \o Save
  OBVIOUS
<1>2. /\ Shape(s) /\ s # <<>> /\ Head(s) = a
      /\ \A x : Has(s, x) => x \in {a, b, "open", "dump"}
  <2>1. a \in Steps /\ a \notin Changing /\ a # "checkInvite"
    BY DEF Steps, FamilySteps, Changing, FamilyWrites
  <2>2. /\ b \in Changing \ {"addUser", "putOwner", "useInvite"}
        /\ b \in FamilyWrites => a = "readFamily"
    BY DEF Changing, FamilyWrites
  <2> QED BY <1>1, <2>1, <2>2, ShortIs
<1>3. /\ ~Has(s, "checkInvite") /\ ~Has(s, "addUser") /\ ~Has(s, "putOwner")
      /\ ~Has(s, "useInvite")
      /\ Has(s, "saveInvite") => b = "saveInvite"
      /\ Has(s, "readUser") => a = "readUser"
      /\ Has(s, "putUser") => b = "putUser"
  <2>1. \A x : Has(s, x) => x = a \/ x = b \/ x = "open" \/ x = "dump"
    BY <1>2
  <2>2. /\ a = "readFamily" \/ a = "checkOwner" \/ a = "readUser"
        /\ b = "putEvents" \/ b = "saveInvite" \/ b = "putUser"
    OBVIOUS
  <2>3. ~Has(s, "checkInvite")
    BY <2>1, <2>2
  <2>4. ~Has(s, "addUser")
    BY <2>1, <2>2
  <2>5. ~Has(s, "putOwner")
    BY <2>1, <2>2
  <2>6. ~Has(s, "useInvite")
    BY <2>1, <2>2
  <2>7. Has(s, "saveInvite") => b = "saveInvite"
    BY <2>1, <2>2
  <2>8. Has(s, "readUser") => a = "readUser"
    BY <2>1, <2>2
  <2>9. Has(s, "putUser") => b = "putUser"
    BY <2>1, <2>2
  <2> QED BY <2>3, <2>4, <2>5, <2>6, <2>7, <2>8, <2>9
<1>4. a = "readUser" /\ b = "putUser" => \A x \in FamilySteps : ~Has(s, x)
  BY <1>2 DEF FamilySteps, FamilyWrites
<1>5. Head(s) \notin Changing
  BY <1>2 DEF Changing, FamilyWrites
<1>6. r.todo = s
  BY <1>1
<1>7. Knows(r, families, users, invites, drawn)
  BY <1>2, <1>3, <1>4, <1>5, <1>6, ArrivedKnows
<1> QED BY <1>7, BeginKeeps

LEMMA ArriveKeeps ==
  ASSUME AccountsInv, NEW t \in Thread, Arrive(t)
  PROVE  AccountsInv'
<1>1. CASE InviteMember(t)
  <2>1. PICK u \in sessions, f \in Family, e \in Email, o \in Role :
          Begin(t, [NoRequest EXCEPT !.todo = InviteSteps, !.user = u, !.family = f,
                                     !.email = e, !.role = o])
    BY <1>1 DEF InviteMember
  <2>2. PICK r : r = [NoRequest EXCEPT !.todo = InviteSteps, !.user = u, !.family = f,
                                       !.email = e, !.role = o]
    OBVIOUS
  <2>3. u \in User /\ InviteSteps \in Seq(Steps)
    BY DEF AccountsInv, TypeOK, InviteSteps, Save, Steps, FamilySteps
  <2>4. /\ r \in Request /\ r.todo = InviteSteps /\ r.family = f /\ r.email = e /\ r.user = u
    BY <2>2, <2>3, NoRequestIs DEF Request
  <2>5. Begin(t, r)
    BY <2>1, <2>2
  <2> QED BY <2>3, <2>4, <2>5, ShortKeeps DEF InviteSteps
<1>2. CASE SaveEvents(t)
  <2>1. PICK u \in sessions :
          /\ users[u].family \in agents
          /\ Begin(t, [NoRequest EXCEPT !.todo = EventsSteps, !.user = u,
                                        !.family = users[u].family])
    BY <1>2 DEF SaveEvents
  <2>2. PICK f \in Family : f = users[u].family
    BY <2>1 DEF AccountsInv, TypeOK
  <2>3. PICK r : r = [NoRequest EXCEPT !.todo = EventsSteps, !.user = u, !.family = f]
    OBVIOUS
  <2>4. u \in User /\ EventsSteps \in Seq(Steps)
    BY DEF AccountsInv, TypeOK, EventsSteps, Save, Steps, FamilySteps, FamilyWrites
  <2>5. r \in Request /\ r.todo = EventsSteps /\ r.family = f /\ r.user = u
    BY <2>3, <2>4, NoRequestIs DEF Request
  <2>6. Begin(t, r)
    BY <2>1, <2>2, <2>3
  <2> QED BY <2>4, <2>5, <2>6, ShortKeeps DEF EventsSteps
<1>3. CASE UpdateProfile(t)
  <2>1. PICK u \in sessions : Begin(t, [NoRequest EXCEPT !.todo = ProfileSteps, !.user = u])
    BY <1>3 DEF UpdateProfile
  <2>3. PICK r : r = [NoRequest EXCEPT !.todo = ProfileSteps, !.user = u]
    OBVIOUS
  <2>4. u \in User /\ ProfileSteps \in Seq(Steps)
    BY DEF AccountsInv, TypeOK, ProfileSteps, Save, Steps
  <2>5. r \in Request /\ r.todo = ProfileSteps /\ r.user = u
    BY <2>3, <2>4, NoRequestIs DEF Request
  <2>6. Begin(t, r)
    BY <2>1, <2>3
  <2> QED BY <2>4, <2>5, <2>6, ShortKeeps DEF ProfileSteps
<1> QED BY <1>1, <1>2, <1>3, SignupKeeps, AcceptKeeps DEF Arrive

-----------------------------------------------------------------------------
(* Steps that leave the store alone.                                       *)

LEMMA ReadDone ==
  ASSUME AccountsInv, NEW t \in Thread, NEW h, At(t, h), h # "open",
         UNCHANGED <<store, disk, writers, clash, drawn, restarts>>,
         agents' \subseteq Family, sessions' \subseteq User,
         \A u \in sessions' : users[u] # None,
         NEW r \in Request, Done(t, r),
         r.todo = request[t].todo, r.email = request[t].email, r.invite = request[t].invite,
         h = "addUser" => Registered(r, users),
         h # "addUser" => r.user = request[t].user,
         h = "checkInvite" => r.family \in Family /\ r.role \in Role /\ InviteRead(r, invites),
         h # "checkInvite" => r.family = request[t].family /\ r.role = request[t].role,
         h = "readFamily" => FamilyRead(r, users),
         h = "readUser" => UserRead(r, users),
         h = "checkUser" => families[r.family] # None
  PROVE  AccountsInv'
<1>1. Asked(request, families, users, invites, drawn)
  BY DEF AccountsInv
<1>2. Becomes(request, request', t, r)
  BY DEF Done, Becomes
<1>3. request[t].todo # <<>> /\ h = Head(request[t].todo)
  BY DEF At
<1>4. Asked(request', families, users, invites, drawn)
  <2>1. Grows(families, users, invites, drawn, families, users, invites, drawn)
    BY SameGrows
  <2> QED BY <1>1, <1>2, <1>3, <2>1, DoneKeeps
<1>5. \A p \in Thread : p # t => request'[p] = request[p]
  BY <1>1, <1>2 DEF Asked, Becomes
<1>6. ~At(t, "open")
  BY DEF At
<1> QED BY <1>4, <1>5, <1>6, ReadingKeeps

LEMMA ReadRefuse ==
  ASSUME AccountsInv, NEW t \in Thread, NEW h, At(t, h), h # "open",
         UNCHANGED <<store, disk, writers, clash, drawn, restarts, agents, sessions>>,
         Refuse(t)
  PROVE  AccountsInv'
<1>1. Asked(request, families, users, invites, drawn)
  BY DEF AccountsInv
<1>2. request' = [request EXCEPT ![t] = NoRequest]
  BY DEF Refuse
<1>3. Asked(request', families, users, invites, drawn)
  BY <1>1, <1>2, RefuseKeeps
<1>4. \A p \in Thread : p # t => request'[p] = request[p]
  BY <1>1, <1>2 DEF Asked
<1>5. ~At(t, "open")
  BY DEF At
<1> QED BY <1>3, <1>4, <1>5, ReadingKeeps DEF AccountsInv, TypeOK

LEMMA AskedIs ==
  ASSUME AccountsInv, NEW t \in Thread
  PROVE  request[t] \in Request /\ Knows(request[t], families, users, invites, drawn)
BY DEF AccountsInv, Asked

LEMMA AtKnows ==
  ASSUME AccountsInv, NEW t \in Thread, NEW h, At(t, h)
  PROVE  /\ h \in FamilySteps => request[t].family \in Family
         /\ h \in {"readUser", "putUser"} => request[t].user \in User
         /\ h \in {"addUser", "saveInvite"} => request[t].email \in Email
<1>1. request[t].todo # <<>> /\ h = Head(request[t].todo)
  BY DEF At
<1>2. Knows(request[t], families, users, invites, drawn)
  BY AskedIs
<1> QED BY <1>1, <1>2, HeadKnows

LEMMA CheckFamilyKeeps ==
  ASSUME AccountsInv, NEW t \in Thread, CheckFamily(t)
  PROVE  AccountsInv'
<1>1. /\ At(t, "checkFamily")
      /\ Done(t, request[t]) \/ Refuse(t)
      /\ UNCHANGED <<store, disk, writers, clash, drawn, restarts, agents, sessions>>
  BY DEF CheckFamily, Check, outside
<1>2. agents \subseteq Family /\ sessions \subseteq User /\ \A u \in sessions : users[u] # None
  BY DEF AccountsInv, TypeOK
<1> QED BY <1>1, <1>2, AskedIs, ReadDone, ReadRefuse

LEMMA AddAgentKeeps ==
  ASSUME AccountsInv, NEW t \in Thread, AddAgent(t)
  PROVE  AccountsInv'
<1>1. /\ At(t, "addAgent") /\ Done(t, request[t])
      /\ UNCHANGED <<store, disk, writers, clash, drawn, restarts, sessions>>
      /\ agents' = agents \cup {request[t].family}
  BY DEF AddAgent, outside
<1>2. request[t].family \in Family
  BY <1>1, AtKnows DEF FamilySteps
<1>3. agents' \subseteq Family /\ sessions' \subseteq User /\ \A u \in sessions' : users[u] # None
  BY <1>1, <1>2 DEF AccountsInv, TypeOK
<1> QED BY <1>1, <1>3, AskedIs, ReadDone

LEMMA ReadFamilyKeeps ==
  ASSUME AccountsInv, NEW t \in Thread, ReadFamily(t)
  PROVE  AccountsInv'
<1>1. /\ At(t, "readFamily")
      /\ Done(t, [request[t] EXCEPT !.read = families[request[t].family]])
      /\ UNCHANGED <<store, disk, writers, clash, drawn, restarts, agents, sessions>>
  BY DEF ReadFamily, outside
<1>2. PICK f \in Family : f = request[t].family
  BY <1>1, AtKnows DEF FamilySteps, FamilyWrites
<1>3. PICK r : r = [request[t] EXCEPT !.read = families[f]]
  OBVIOUS
<1>4. families[f] \in FamilyEntry \cup {None}
  BY DEF AccountsInv, TypeOK
<1>5. /\ r \in Request /\ r.read = families[f] /\ r.todo = request[t].todo
      /\ r.email = request[t].email /\ r.invite = request[t].invite
      /\ r.user = request[t].user /\ r.family = f /\ r.role = request[t].role
  BY <1>2, <1>3, <1>4, AskedIs DEF Request
<1>6. FamilyRead(r, users)
  <2>1. Consistent(Contents) /\ Contents.families = families /\ Contents.users = users
    BY DEF AccountsInv, Sound, Contents
  <2> QED BY <1>4, <1>5, <2>1 DEF FamilyRead, Consistent, OwnerOf
<1>7. agents \subseteq Family /\ sessions \subseteq User /\ \A u \in sessions : users[u] # None
  BY DEF AccountsInv, TypeOK
<1>8. Done(t, r)
  BY <1>1, <1>2, <1>3
<1> QED BY <1>1, <1>2, <1>5, <1>6, <1>7, <1>8, ReadDone

LEMMA CheckUserKeeps ==
  ASSUME AccountsInv, NEW t \in Thread, CheckUser(t)
  PROVE  AccountsInv'
<1>1. /\ At(t, "checkUser")
      /\ (families[request[t].family] # None /\ Done(t, request[t])) \/ Refuse(t)
      /\ UNCHANGED <<store, disk, writers, clash, drawn, restarts, agents, sessions>>
  BY DEF CheckUser, Check, outside
<1>2. agents \subseteq Family /\ sessions \subseteq User /\ \A u \in sessions : users[u] # None
  BY DEF AccountsInv, TypeOK
<1> QED BY <1>1, <1>2, AskedIs, ReadDone, ReadRefuse

LEMMA ReadUserKeeps ==
  ASSUME AccountsInv, NEW t \in Thread, ReadUser(t)
  PROVE  AccountsInv'
<1>1. /\ At(t, "readUser")
      /\ \/ /\ users[request[t].user] # None
            /\ Done(t, [request[t] EXCEPT !.read = users[request[t].user]])
         \/ Refuse(t)
      /\ UNCHANGED <<store, disk, writers, clash, drawn, restarts, agents, sessions>>
  BY DEF ReadUser, Check, outside
<1>2. agents \subseteq Family /\ sessions \subseteq User /\ \A u \in sessions : users[u] # None
  BY DEF AccountsInv, TypeOK
<1>3. CASE Refuse(t)
  BY <1>1, <1>3, ReadRefuse
<1>4. ASSUME users[request[t].user] # None,
             Done(t, [request[t] EXCEPT !.read = users[request[t].user]])
      PROVE  AccountsInv'
  <2>1. PICK u \in User : u = request[t].user
    BY <1>1, AtKnows
  <2>2. PICK r : r = [request[t] EXCEPT !.read = users[u]]
    OBVIOUS
  <2>3. users[u] \in UserEntry
    BY <1>4, <2>1 DEF AccountsInv, TypeOK
  <2>4. /\ r \in Request /\ r.read = users[u] /\ r.todo = request[t].todo
        /\ r.email = request[t].email /\ r.invite = request[t].invite
        /\ r.user = u /\ r.family = request[t].family /\ r.role = request[t].role
    BY <2>1, <2>2, <2>3, AskedIs DEF Request
  <2>5. UserRead(r, users)
    BY <1>4, <2>1, <2>3, <2>4 DEF UserRead
  <2>6. Done(t, r)
    BY <1>4, <2>1, <2>2
  <2> QED BY <1>1, <1>2, <2>1, <2>4, <2>5, <2>6, ReadDone
<1> QED BY <1>1, <1>3, <1>4

LEMMA CheckOwnerKeeps ==
  ASSUME AccountsInv, NEW t \in Thread, CheckOwner(t)
  PROVE  AccountsInv'
<1>1. /\ At(t, "checkOwner")
      /\ Done(t, request[t]) \/ Refuse(t)
      /\ UNCHANGED <<store, disk, writers, clash, drawn, restarts, agents, sessions>>
  BY DEF CheckOwner, Check, outside
<1>2. agents \subseteq Family /\ sessions \subseteq User /\ \A u \in sessions : users[u] # None
  BY DEF AccountsInv, TypeOK
<1> QED BY <1>1, <1>2, AskedIs, ReadDone, ReadRefuse

LEMMA CheckInviteKeeps ==
  ASSUME AccountsInv, NEW t \in Thread, CheckInvite(t)
  PROVE  AccountsInv'
<1>1. PICK i : i = invites[request[t].invite]
  OBVIOUS
<1>2. /\ At(t, "checkInvite")
      /\ \/ /\ i # None /\ i.email = request[t].email
            /\ Done(t, [request[t] EXCEPT !.family = i.family, !.role = i.role])
         \/ Refuse(t)
      /\ UNCHANGED <<store, disk, writers, clash, drawn, restarts, agents, sessions>>
  BY <1>1 DEF CheckInvite, Check, outside
<1>3. agents \subseteq Family /\ sessions \subseteq User /\ \A u \in sessions : users[u] # None
  BY DEF AccountsInv, TypeOK
<1>4. CASE Refuse(t)
  BY <1>2, <1>4, ReadRefuse
<1>5. ASSUME i # None, i.email = request[t].email,
             Done(t, [request[t] EXCEPT !.family = i.family, !.role = i.role])
      PROVE  AccountsInv'
  <2>1. request[t].invite \in Invite
    <3>1. Knows(request[t], families, users, invites, drawn)
      BY AskedIs
    <3>2. request[t].todo \in Seq(Steps) /\ request[t].todo # <<>>
      BY <1>2, <3>1 DEF At, Knows, Shape
    <3>3. Has(request[t].todo, "checkInvite")
      BY <1>2, <3>2, TailHas DEF At
    <3> QED BY <3>1, <3>3 DEF Knows
  <2>2. i \in InviteEntry
    BY <1>1, <1>5, <2>1 DEF AccountsInv, TypeOK
  <2>3. PICK r : r = [request[t] EXCEPT !.family = i.family, !.role = i.role]
    OBVIOUS
  <2>4. /\ r \in Request /\ r.todo = request[t].todo /\ r.email = request[t].email
        /\ r.invite = request[t].invite /\ r.user = request[t].user
        /\ r.family = i.family /\ r.role = i.role
    BY <2>2, <2>3, AskedIs DEF Request, InviteEntry
  <2>5. r.family \in Family /\ r.role \in Role /\ InviteRead(r, invites)
    BY <1>1, <1>5, <2>2, <2>4 DEF InviteEntry, InviteRead
  <2>6. Done(t, r)
    BY <1>5, <2>3
  <2> QED BY <1>2, <1>3, <2>4, <2>5, <2>6, ReadDone
<1> QED BY <1>2, <1>4, <1>5

LEMMA LoginKeeps ==
  ASSUME AccountsInv, NEW t \in Thread, Login(t)
  PROVE  AccountsInv'
<1>1. PICK u \in UsersWith(request[t].email) :
        \/ sessions' = sessions \cup {u} /\ Done(t, request[t])
        \/ Refuse(t) /\ UNCHANGED sessions
  BY DEF Login
<1>2. /\ At(t, "login")
      /\ UNCHANGED <<store, disk, writers, clash, drawn, restarts, agents>>
  BY DEF Login
<1>3. u \in User /\ users[u] # None
  BY DEF UsersWith
<1>4. agents' \subseteq Family
  BY <1>2 DEF AccountsInv, TypeOK
<1>5. CASE Refuse(t) /\ UNCHANGED sessions
  BY <1>2, <1>5, ReadRefuse
<1>6. CASE sessions' = sessions \cup {u} /\ Done(t, request[t])
  <2>1. sessions' \subseteq User /\ \A v \in sessions' : users[v] # None
    BY <1>3, <1>6 DEF AccountsInv, TypeOK
  <2> QED BY <1>2, <1>4, <1>6, <2>1, AskedIs, ReadDone
<1> QED BY <1>1, <1>5, <1>6

-----------------------------------------------------------------------------
(* Steps that change the store.                                            *)

LEMMA ChangeDone ==
  ASSUME AccountsInv, NEW t \in Thread, NEW h \in Changing, At(t, h), Disturb,
         UNCHANGED <<disk, writers, agents, sessions, restarts>>,
         drawn' \subseteq User \cup Invite,
         Grows(families, users, invites, drawn, families', users', invites', drawn'),
         Sound(Contents', drawn'),
         NEW r \in Request, Done(t, r),
         r.todo = request[t].todo, r.email = request[t].email, r.invite = request[t].invite,
         r.family = request[t].family, r.role = request[t].role,
         h = "addUser" => Registered(r, users'),
         h # "addUser" => r.user = request[t].user
  PROVE  AccountsInv'
<1>1. Asked(request, families, users, invites, drawn)
  BY DEF AccountsInv
<1>2. Becomes(request, request', t, r)
  BY DEF Done, Becomes
<1>3. request[t].todo # <<>> /\ h = Head(request[t].todo)
  BY DEF At
<1>4. h # "checkInvite" /\ h # "readFamily" /\ h # "readUser" /\ h # "checkUser"
  BY DEF Changing, FamilyWrites
<1>5. Asked(request', families', users', invites', drawn')
  BY <1>1, <1>2, <1>3, <1>4, DoneKeeps
<1>6. request'[t].todo = Tail(request[t].todo)
  BY <1>1, <1>2 DEF Asked, Becomes, Request
<1> QED BY <1>5, <1>6, ChangingKeeps

(* The store after a change is sound when the change is.                   *)
Put(G, G2, k, e) == G2 = [G EXCEPT ![k] = e]

LEMMA FamiliesSound ==
  ASSUME NEW F, NEW U, NEW I, NEW D, NEW F2, NEW f \in Family, NEW e \in FamilyEntry,
         Sound([families |-> F, users |-> U, invites |-> I], D), Put(F, F2, f, e),
         e.owner # None => OwnerOf(f, e.owner, U)
  PROVE  /\ Sound([families |-> F2, users |-> U, invites |-> I], D)
         /\ Grows(F, U, I, D, F2, U, I, D)
<1>1. /\ F \in [Family -> FamilyEntry \cup {None}] /\ U \in [User -> UserEntry \cup {None}]
      /\ I \in [Invite -> InviteEntry \cup {None}]
  BY DEF Sound, Stores
<1>2. e # None
  BY EntryAssumption
<1>3. F2 \in [Family -> FamilyEntry \cup {None}] /\ F2[f] = e
      /\ \A g \in Family : g # f => F2[g] = F[g]
  BY <1>1 DEF Put
<1>4. \A g \in Family : F[g] # None => F2[g] # None
  BY <1>2, <1>3
<1>5. Grows(F, U, I, D, F2, U, I, D)
  BY <1>4 DEF Grows
<1>6. Consistent([families |-> F, users |-> U, invites |-> I])
  BY DEF Sound
<1>7. Consistent([families |-> F2, users |-> U, invites |-> I])
  <2>1. \A g \in Family : F2[g] # None /\ F2[g].owner # None => OwnerOf(g, F2[g].owner, U)
    BY <1>3, <1>6 DEF Consistent, OwnerOf
  <2>2. \A u \in User : U[u] # None => F2[U[u].family] # None
    BY <1>1, <1>4, <1>6 DEF Consistent, UserEntry
  <2>3. \A i \in Invite : I[i] # None /\ I[i].used =>
          \E u \in User : U[u] # None /\ U[u].family = I[i].family /\ U[u].email = I[i].email
    BY <1>6 DEF Consistent
  <2> QED BY <2>1, <2>2, <2>3 DEF Consistent, OwnerOf
<1>8. \A u \in User : U[u] # None => u \in D
  BY DEF Sound
<1> QED BY <1>1, <1>3, <1>5, <1>7, <1>8 DEF Sound, Stores

LEMMA UsersSound ==
  ASSUME NEW F, NEW U, NEW I, NEW D, NEW U2, NEW D2, NEW u \in User, NEW e \in UserEntry,
         Sound([families |-> F, users |-> U, invites |-> I], D), Put(U, U2, u, e),
         D2 = D \cup {u}, F[e.family] # None,
         U[u] # None =>
           e.family = U[u].family /\ e.email = U[u].email /\ e.role = U[u].role
  PROVE  /\ Sound([families |-> F, users |-> U2, invites |-> I], D2)
         /\ Grows(F, U, I, D, F, U2, I, D2)
         /\ U2[u] = e
<1>1. /\ F \in [Family -> FamilyEntry \cup {None}] /\ U \in [User -> UserEntry \cup {None}]
      /\ I \in [Invite -> InviteEntry \cup {None}]
  BY DEF Sound, Stores
<1>2. e # None
  BY EntryAssumption
<1>3. U2 \in [User -> UserEntry \cup {None}] /\ U2[u] = e
      /\ \A v \in User : v # u => U2[v] = U[v]
  BY <1>1 DEF Put
<1>4. \A v \in User : U[v] # None =>
        /\ U2[v] # None /\ U2[v].family = U[v].family
        /\ U2[v].email = U[v].email /\ U2[v].role = U[v].role
  BY <1>2, <1>3
<1>5. Grows(F, U, I, D, F, U2, I, D2)
  BY <1>4 DEF Grows
<1>6. Consistent([families |-> F, users |-> U, invites |-> I])
  BY DEF Sound
<1>7. Consistent([families |-> F, users |-> U2, invites |-> I])
  <2>1. \A f \in Family : F[f] # None /\ F[f].owner # None => OwnerOf(f, F[f].owner, U2)
    <3>1. \A f \in Family : F[f] # None /\ F[f].owner # None =>
            F[f].owner \in User /\ OwnerOf(f, F[f].owner, U)
      BY <1>1, <1>6 DEF Consistent, OwnerOf, FamilyEntry
    <3> QED BY <1>4, <3>1 DEF OwnerOf
  <2>2. \A v \in User : U2[v] # None => F[U2[v].family] # None
    BY <1>3, <1>6 DEF Consistent
  <2>3. \A i \in Invite : I[i] # None /\ I[i].used =>
          \E v \in User : U2[v] # None /\ U2[v].family = I[i].family /\ U2[v].email = I[i].email
    <3> SUFFICES ASSUME NEW i \in Invite, I[i] # None, I[i].used
                 PROVE  \E v \in User : /\ U2[v] # None /\ U2[v].family = I[i].family
                                        /\ U2[v].email = I[i].email
      OBVIOUS
    <3>1. PICK v \in User : U[v] # None /\ U[v].family = I[i].family /\ U[v].email = I[i].email
      BY <1>6 DEF Consistent
    <3> QED BY <1>4, <3>1
  <2> QED BY <2>1, <2>2, <2>3 DEF Consistent, OwnerOf
<1>8. \A v \in User : U2[v] # None => v \in D2
  BY <1>3 DEF Sound
<1> QED BY <1>1, <1>3, <1>5, <1>7, <1>8 DEF Sound, Stores

LEMMA InvitesSound ==
  ASSUME NEW F, NEW U, NEW I, NEW D, NEW I2, NEW D2, NEW i \in Invite, NEW e \in InviteEntry,
         Sound([families |-> F, users |-> U, invites |-> I], D), Put(I, I2, i, e),
         D2 = D \cup {i},
         i \in D /\ I[i] # None => e.family = I[i].family /\ e.email = I[i].email,
         e.used => \E u \in User : U[u] # None /\ U[u].family = e.family /\ U[u].email = e.email
  PROVE  /\ Sound([families |-> F, users |-> U, invites |-> I2], D2)
         /\ Grows(F, U, I, D, F, U, I2, D2)
<1>1. /\ F \in [Family -> FamilyEntry \cup {None}] /\ U \in [User -> UserEntry \cup {None}]
      /\ I \in [Invite -> InviteEntry \cup {None}]
  BY DEF Sound, Stores
<1>2. e # None
  BY EntryAssumption
<1>3. I2 \in [Invite -> InviteEntry \cup {None}] /\ I2[i] = e
      /\ \A j \in Invite : j # i => I2[j] = I[j]
  BY <1>1 DEF Put
<1>4. Grows(F, U, I, D, F, U, I2, D2)
  BY <1>2, <1>3 DEF Grows
<1>5. Consistent([families |-> F, users |-> U, invites |-> I])
  BY DEF Sound
<1>6. Consistent([families |-> F, users |-> U, invites |-> I2])
  <2>1. \A f \in Family : F[f] # None /\ F[f].owner # None => OwnerOf(f, F[f].owner, U)
    BY <1>5 DEF Consistent, OwnerOf
  <2>2. \A v \in User : U[v] # None => F[U[v].family] # None
    BY <1>5 DEF Consistent
  <2>3. \A j \in Invite : I2[j] # None /\ I2[j].used =>
          \E v \in User : U[v] # None /\ U[v].family = I2[j].family /\ U[v].email = I2[j].email
    BY <1>3, <1>5 DEF Consistent
  <2> QED BY <2>1, <2>2, <2>3 DEF Consistent, OwnerOf
<1>7. \A v \in User : U[v] # None => v \in D2
  BY DEF Sound
<1> QED BY <1>1, <1>3, <1>4, <1>6, <1>7 DEF Sound, Stores

LEMMA ContentsAre ==
  /\ Contents = [families |-> families, users |-> users, invites |-> invites]
  /\ Contents' = [families |-> families', users |-> users', invites |-> invites']
BY DEF Contents

LEMMA WriteFamilyKeeps ==
  ASSUME AccountsInv, NEW t \in Thread, NEW h \in FamilyWrites, NEW e \in FamilyEntry,
         e.owner # None => OwnerOf(request[t].family, e.owner, users),
         WriteFamily(t, h, e)
  PROVE  AccountsInv'
<1>1. /\ At(t, h) /\ Disturb /\ Done(t, request[t])
      /\ families' = [families EXCEPT ![request[t].family] = e]
      /\ UNCHANGED <<users, invites, disk, writers, agents, sessions, drawn, restarts>>
  BY DEF WriteFamily, outside
<1>2. PICK f \in Family : f = request[t].family
  BY <1>1, AtKnows DEF FamilySteps
<1>3. Sound(Contents, drawn)
  BY DEF AccountsInv
<1>4. Put(families, families', f, e)
  BY <1>1, <1>2 DEF Put
<1>5. /\ Sound([families |-> families', users |-> users, invites |-> invites], drawn)
      /\ Grows(families, users, invites, drawn, families', users, invites, drawn)
  BY <1>2, <1>3, <1>4, ContentsAre, FamiliesSound
<1>6. /\ Sound(Contents', drawn')
      /\ Grows(families, users, invites, drawn, families', users', invites', drawn')
  BY <1>1, <1>5, ContentsAre
<1>7. drawn' \subseteq User \cup Invite
  BY <1>1 DEF AccountsInv, TypeOK
<1>8. h \in Changing /\ h # "addUser"
  BY DEF Changing, FamilyWrites
<1> QED BY <1>1, <1>6, <1>7, <1>8, AskedIs, ChangeDone

LEMMA FamilyWritesKeep ==
  ASSUME AccountsInv, NEW t \in Thread,
         PutFamily(t) \/ AddMember(t) \/ PutOwner(t) \/ PutEvents(t)
  PROVE  AccountsInv'
<1>1. PICK q : q = request[t]
  OBVIOUS
<1>2. \E h \in FamilyWrites : At(t, h)
  BY DEF PutFamily, AddMember, PutOwner, PutEvents, WriteFamily, FamilyWrites
<1>3. Knows(q, families, users, invites, drawn) /\ q.todo # <<>>
      /\ Head(q.todo) \in FamilyWrites
  BY <1>1, <1>2, AskedIs DEF At
<1>4. PICK e : e = Entry(q.read)
  OBVIOUS
<1>5. e \in FamilyEntry /\ (e.owner # None => OwnerOf(q.family, e.owner, users))
  <2>1. FamilyRead(q, users)
    BY <1>3 DEF Knows
  <2>2. CASE q.read = None
    BY <1>4, <2>2 DEF Entry, FamilyEntry
  <2>3. CASE q.read # None
    BY <1>4, <2>1, <2>3 DEF Entry, FamilyRead
  <2> QED BY <2>2, <2>3
<1>6. CASE PutFamily(t)
  BY <1>1, <1>4, <1>5, <1>6, WriteFamilyKeeps DEF PutFamily, FamilyWrites
<1>7. CASE AddMember(t)
  BY <1>1, <1>4, <1>5, <1>7, WriteFamilyKeeps DEF AddMember, FamilyWrites
<1>8. CASE PutOwner(t)
  <2>1. At(t, "putOwner")
    BY <1>8 DEF PutOwner, WriteFamily
  <2>2. q.todo \in Seq(Steps) /\ Head(q.todo) = "putOwner"
    BY <1>1, <1>3, <2>1 DEF Knows, Shape, At
  <2>3. Registered(q, users) /\ q.role = "owner"
    <3>1. Has(q.todo, "putOwner") /\ ~Before(q.todo, "addUser", "putOwner")
      BY <1>3, <2>2, TailHas, TailBefore
    <3> QED BY <1>3, <3>1 DEF Knows
  <2>4. PICK e2 : e2 = [e EXCEPT !.owner = q.user]
    OBVIOUS
  <2>5. e2 \in FamilyEntry /\ e2.owner = q.user
    BY <1>5, <2>3, <2>4 DEF FamilyEntry, Registered
  <2>6. OwnerOf(q.family, e2.owner, users)
    BY <2>3, <2>5 DEF Registered, OwnerOf
  <2>7. WriteFamily(t, "putOwner", e2)
    BY <1>1, <1>4, <1>8, <2>4 DEF PutOwner
  <2> QED BY <1>1, <2>5, <2>6, <2>7, WriteFamilyKeeps DEF FamilyWrites
<1>9. CASE PutEvents(t)
  <2>1. PICK e2 : e2 = [e EXCEPT !.events = 1]
    OBVIOUS
  <2>2. e2 \in FamilyEntry /\ e2.owner = e.owner
    BY <1>5, <2>1 DEF FamilyEntry
  <2>3. WriteFamily(t, "putEvents", e2)
    BY <1>1, <1>4, <1>9, <2>1 DEF PutEvents
  <2> QED BY <1>1, <1>5, <2>2, <2>3, WriteFamilyKeeps DEF FamilyWrites
<1> QED BY <1>6, <1>7, <1>8, <1>9

LEMMA AddUserKeeps ==
  ASSUME AccountsInv, NEW t \in Thread, AddUser(t)
  PROVE  AccountsInv'
<1>1. PICK q : q = request[t]
  OBVIOUS
<1>2. PICK u \in User \ drawn :
        /\ users' = [users EXCEPT ![u] =
             [family |-> q.family, email |-> q.email, role |-> q.role, name |-> 0]]
        /\ drawn' = drawn \cup {u}
        /\ Done(t, [q EXCEPT !.user = u])
  BY <1>1 DEF AddUser
<1>3. /\ At(t, "addUser") /\ Disturb
      /\ UNCHANGED <<families, invites, disk, writers, agents, sessions, restarts>>
  BY DEF AddUser, outside
<1>4. /\ q \in Request /\ Knows(q, families, users, invites, drawn)
      /\ q.family \in Family /\ q.email \in Email /\ q.role \in Role
      /\ families[q.family] # None
  <2>1. q \in Request /\ Knows(q, families, users, invites, drawn)
    BY <1>1, AskedIs
  <2>2. q.family \in Family /\ q.email \in Email
    BY <1>1, <1>3, AtKnows DEF FamilySteps
  <2>3. families[q.family] # None
    BY <1>1, <1>3, <2>1 DEF Knows, At
  <2> QED BY <2>1, <2>2, <2>3 DEF Knows
<1>5. PICK e : e = [family |-> q.family, email |-> q.email, role |-> q.role, name |-> 0]
  OBVIOUS
<1>6. e \in UserEntry /\ e.family = q.family /\ e.email = q.email /\ e.role = q.role
  BY <1>4, <1>5 DEF UserEntry
<1>7. Sound(Contents, drawn)
  BY DEF AccountsInv
<1>8. users[u] = None
  BY <1>2, <1>7 DEF Sound, Contents
<1>9. Put(users, users', u, e) /\ drawn' = drawn \cup {u} /\ u \in User
  BY <1>2, <1>5 DEF Put
<1>10. /\ Sound([families |-> families, users |-> users', invites |-> invites], drawn')
       /\ Grows(families, users, invites, drawn, families, users', invites, drawn')
       /\ users'[u] = e
  BY <1>4, <1>6, <1>7, <1>8, <1>9, ContentsAre, UsersSound
<1>11. /\ Sound(Contents', drawn')
       /\ Grows(families, users, invites, drawn, families', users', invites', drawn')
  BY <1>3, <1>10, ContentsAre
<1>12. PICK r : r = [q EXCEPT !.user = u]
  OBVIOUS
<1>13. /\ r \in Request /\ r.user = u /\ r.todo = q.todo /\ r.email = q.email
       /\ r.invite = q.invite /\ r.family = q.family /\ r.role = q.role
  BY <1>2, <1>4, <1>12 DEF Request
<1>14. Registered(r, users')
  <2>1. e # None
    BY <1>6, EntryAssumption
  <2> QED BY <1>2, <1>6, <1>10, <1>13, <2>1 DEF Registered
<1>15. Done(t, r) /\ drawn' \subseteq User \cup Invite
  BY <1>2, <1>12 DEF AccountsInv, TypeOK
<1>16. "addUser" \in Changing
  BY DEF Changing
<1> QED BY <1>1, <1>3, <1>11, <1>13, <1>14, <1>15, <1>16, ChangeDone

LEMMA PutUserKeeps ==
  ASSUME AccountsInv, NEW t \in Thread, PutUser(t)
  PROVE  AccountsInv'
<1>1. PICK q : q = request[t]
  OBVIOUS
<1>2. /\ At(t, "putUser") /\ Disturb /\ Done(t, q)
      /\ users' = [users EXCEPT ![q.user] = [q.read EXCEPT !.name = 1]]
      /\ UNCHANGED <<families, invites, disk, writers, agents, sessions, drawn, restarts>>
  BY <1>1 DEF PutUser, outside
<1>3. q \in Request /\ q.user \in User /\ UserRead(q, users)
  BY <1>1, <1>2, AskedIs, AtKnows DEF Knows, At
<1>4. PICK u \in User : u = q.user
  BY <1>3
<1>5. PICK e : e = [q.read EXCEPT !.name = 1]
  OBVIOUS
<1>6. /\ e \in UserEntry /\ e.family = users[u].family /\ e.email = users[u].email
      /\ e.role = users[u].role /\ users[u] # None
  BY <1>3, <1>4, <1>5 DEF UserRead, UserEntry
<1>7. Sound(Contents, drawn)
  BY DEF AccountsInv
<1>8. u \in drawn /\ families[e.family] # None
  BY <1>6, <1>7 DEF Sound, Consistent, Contents
<1>9. Put(users, users', u, e) /\ drawn' = drawn \cup {u}
  BY <1>2, <1>4, <1>5, <1>8 DEF Put
<1>10. /\ Sound([families |-> families, users |-> users', invites |-> invites], drawn')
       /\ Grows(families, users, invites, drawn, families, users', invites, drawn')
  BY <1>6, <1>7, <1>8, <1>9, ContentsAre, UsersSound
<1>11. /\ Sound(Contents', drawn')
       /\ Grows(families, users, invites, drawn, families', users', invites', drawn')
  BY <1>2, <1>10, ContentsAre
<1>12. drawn' \subseteq User \cup Invite
  BY <1>2 DEF AccountsInv, TypeOK
<1>13. "putUser" \in Changing
  BY DEF Changing
<1> QED BY <1>1, <1>2, <1>3, <1>11, <1>12, <1>13, ChangeDone

LEMMA SaveInviteKeeps ==
  ASSUME AccountsInv, NEW t \in Thread, SaveInvite(t)
  PROVE  AccountsInv'
<1>1. PICK q : q = request[t]
  OBVIOUS
<1>2. PICK i \in Invite \ drawn :
        /\ invites' = [invites EXCEPT ![i] =
             [family |-> q.family, email |-> q.email, role |-> q.role, used |-> FALSE]]
        /\ drawn' = drawn \cup {i}
  BY <1>1 DEF SaveInvite
<1>3. /\ At(t, "saveInvite") /\ Disturb /\ Done(t, q)
      /\ UNCHANGED <<families, users, disk, writers, agents, sessions, restarts>>
  BY <1>1 DEF SaveInvite, outside
<1>4. /\ q \in Request /\ q.family \in Family /\ q.email \in Email /\ q.role \in Role
  BY <1>1, <1>3, AskedIs, AtKnows DEF FamilySteps, Request
<1>5. PICK e : e = [family |-> q.family, email |-> q.email, role |-> q.role, used |-> FALSE]
  OBVIOUS
<1>6. e \in InviteEntry /\ ~e.used
  BY <1>4, <1>5 DEF InviteEntry
<1>7. Sound(Contents, drawn)
  BY DEF AccountsInv
<1>8. Put(invites, invites', i, e) /\ drawn' = drawn \cup {i} /\ i \in Invite \ drawn
  BY <1>2, <1>5 DEF Put
<1>9. /\ Sound([families |-> families, users |-> users, invites |-> invites'], drawn')
      /\ Grows(families, users, invites, drawn, families, users, invites', drawn')
  BY <1>6, <1>7, <1>8, ContentsAre, InvitesSound
<1>10. /\ Sound(Contents', drawn')
       /\ Grows(families, users, invites, drawn, families', users', invites', drawn')
  BY <1>3, <1>9, ContentsAre
<1>11. drawn' \subseteq User \cup Invite
  BY <1>2 DEF AccountsInv, TypeOK
<1>12. "saveInvite" \in Changing /\ "saveInvite" # "addUser"
  BY DEF Changing
<1> QED BY <1>1, <1>3, <1>4, <1>10, <1>11, <1>12, ChangeDone

LEMMA UseInviteKeeps ==
  ASSUME AccountsInv, NEW t \in Thread, UseInvite(t)
  PROVE  AccountsInv'
<1>1. PICK q : q = request[t]
  OBVIOUS
<1>2. /\ At(t, "useInvite") /\ Disturb /\ Done(t, q)
      /\ invites' = [invites EXCEPT ![q.invite].used = TRUE]
      /\ UNCHANGED <<families, users, disk, writers, agents, sessions, drawn, restarts>>
  BY <1>1 DEF UseInvite, outside
<1>3. /\ q \in Request /\ q.invite \in Invite \cap drawn
      /\ InviteRead(q, invites) /\ Registered(q, users)
  <2>1. q \in Request /\ Knows(q, families, users, invites, drawn)
    BY <1>1, AskedIs
  <2>2. q.todo \in Seq(Steps) /\ q.todo # <<>> /\ Head(q.todo) = "useInvite"
    BY <1>1, <1>2, <2>1 DEF Knows, Shape, At
  <2>3. /\ Has(q.todo, "useInvite") /\ ~Before(q.todo, "addUser", "useInvite")
        /\ ~Has(q.todo, "checkInvite")
    <3>1. Has(q.todo, "checkInvite") => Head(q.todo) = "checkInvite"
      BY <2>1, <2>2, HeadKnows
    <3> QED BY <2>2, <3>1, TailHas, TailBefore
  <2> QED BY <2>1, <2>3 DEF Knows
<1>4. PICK i \in Invite : i = q.invite /\ i \in drawn
  BY <1>3
<1>5. invites \in [Invite -> InviteEntry \cup {None}] /\ invites[i] # None
  BY <1>3, <1>4 DEF AccountsInv, TypeOK, InviteRead
<1>6. PICK e : e = [invites[i] EXCEPT !.used = TRUE]
  OBVIOUS
<1>7. e \in InviteEntry /\ e.family = invites[i].family /\ e.email = invites[i].email
  BY <1>5, <1>6 DEF InviteEntry
<1>8. Put(invites, invites', i, e)
  BY <1>2, <1>4, <1>5, <1>6 DEF Put
<1>9. \E u \in User : users[u] # None /\ users[u].family = e.family /\ users[u].email = e.email
  BY <1>3, <1>4, <1>7 DEF Registered, InviteRead
<1>10. Sound(Contents, drawn) /\ drawn' = drawn \cup {i}
  BY <1>2, <1>4 DEF AccountsInv
<1>11. /\ Sound([families |-> families, users |-> users, invites |-> invites'], drawn')
       /\ Grows(families, users, invites, drawn, families, users, invites', drawn')
  BY <1>7, <1>8, <1>9, <1>10, ContentsAre, InvitesSound
<1>12. /\ Sound(Contents', drawn')
       /\ Grows(families, users, invites, drawn, families', users', invites', drawn')
  BY <1>2, <1>11, ContentsAre
<1>13. drawn' \subseteq User \cup Invite
  BY <1>2 DEF AccountsInv, TypeOK
<1>14. "useInvite" \in Changing /\ "useInvite" # "addUser"
  BY DEF Changing
<1> QED BY <1>1, <1>2, <1>3, <1>12, <1>13, <1>14, ChangeDone

-----------------------------------------------------------------------------
(* The file, and restarts.                                                 *)

LEMMA PlainAsked ==
  ASSUME AccountsInv, NEW t \in Thread, NEW h \in {"open", "dump"}, At(t, h),
         Done(t, request[t]) \/ Refuse(t), UNCHANGED <<store, drawn>>
  PROVE  Asked(request, families, users, invites, drawn)'
<1>1. Asked(request, families, users, invites, drawn)
  BY DEF AccountsInv
<1>2. Grows(families, users, invites, drawn, families, users, invites, drawn)
  BY SameGrows
<1>3. Asked(request', families, users, invites, drawn)
  <2>1. CASE Done(t, request[t])
    <3>1. Becomes(request, request', t, request[t])
      BY <2>1 DEF Done, Becomes
    <3>2. request[t].todo # <<>> /\ h = Head(request[t].todo)
      BY DEF At
    <3> QED BY <1>1, <1>2, <3>1, <3>2, AskedIs, DoneKeeps
  <2>2. CASE Refuse(t)
    BY <1>1, <2>2, RefuseKeeps DEF Refuse
  <2> QED BY <2>1, <2>2
<1> QED BY <1>3 DEF store

LEMMA OpenKeeps ==
  ASSUME AccountsInv, NEW t \in Thread, Open(t)
  PROVE  AccountsInv'
<1>1. /\ disk' = Torn /\ writers' = writers \cup {t}
      /\ clash' \subseteq clash \cup writers \cup {t}
      /\ UNCHANGED <<store, agents, sessions, drawn, restarts>>
  BY DEF Open
<1>2. Asked(request, families, users, invites, drawn)'
  BY <1>1, PlainAsked DEF Open
<1>3. TypeOK'
  BY <1>1 DEF AccountsInv, TypeOK, store
<1>4. Sound(Contents, drawn)' /\ (\A u \in sessions : users[u] # None)'
  BY <1>1 DEF AccountsInv, Contents, store
<1> QED BY <1>1, <1>2, <1>3, <1>4 DEF AccountsInv

LEMMA DumpKeeps ==
  ASSUME AccountsInv, NEW t \in Thread, Dump(t)
  PROVE  AccountsInv'
<1>1. /\ disk' = Contents \/ disk' = Torn
      /\ writers' = writers \ {t} /\ clash' = clash \ {t}
      /\ UNCHANGED <<store, agents, sessions, drawn, restarts>>
  BY DEF Dump
<1>2. Asked(request, families, users, invites, drawn)'
  BY <1>1, PlainAsked DEF Dump
<1>3. TypeOK'
  BY <1>1 DEF AccountsInv, TypeOK, store
<1>4. Contents' = Contents
  BY <1>1 DEF Contents, store
<1>5. Sound(Contents, drawn)' /\ (\A u \in sessions : users[u] # None)'
  BY <1>1, <1>4 DEF AccountsInv, store, Sound
<1>6. disk' # Torn => Sound(disk, drawn)'
  BY <1>1, <1>4, <1>5
<1> QED BY <1>1, <1>2, <1>3, <1>4, <1>5, <1>6 DEF AccountsInv

LEMMA EmptySound == \A D : Sound(Empty, D)
  BY DEF Sound, Stores, Empty, Consistent

LEMMA RestartKeeps ==
  ASSUME AccountsInv, Restart
  PROVE  AccountsInv'
<1>1. PICK c : c = IF disk = Torn THEN Empty ELSE disk
  OBVIOUS
<1>2. /\ families' = c.families /\ users' = c.users /\ invites' = c.invites
      /\ agents' \subseteq Family /\ sessions' = {} /\ writers' = {} /\ clash' = {}
      /\ disk' = disk /\ drawn' = drawn /\ restarts' = restarts + 1
  BY <1>1 DEF Restart
<1>3. Sound(c, drawn)
  BY <1>1, EmptySound DEF AccountsInv
<1>4. Contents' = c
  BY <1>2, <1>3, ContentsAre DEF Sound, Stores
<1>5. Asked(request, families, users, invites, drawn)'
  <2>1. request' = [t \in Thread |-> NoRequest]
    BY DEF Restart
  <2> QED BY <2>1, NothingKnown DEF Asked
<1>6. TypeOK'
  BY <1>2, <1>3 DEF AccountsInv, TypeOK, Sound, Stores
<1>7. Sound(Contents, drawn)' /\ (disk' # Torn => Sound(disk, drawn)')
  BY <1>2, <1>3, <1>4 DEF AccountsInv
<1>8. disk' \in {Torn, Contents'}
  BY <1>1, <1>2, <1>4
<1>9. restarts' \in Nat
  BY <1>2 DEF AccountsInv
<1> QED BY <1>2, <1>5, <1>6, <1>7, <1>8, <1>9 DEF AccountsInv

-----------------------------------------------------------------------------
(* The theorems.                                                           *)

LEMMA InitKeeps == Init => AccountsInv
<1> SUFFICES ASSUME Init
             PROVE  AccountsInv
  OBVIOUS
<1>1. /\ families = Empty.families /\ users = Empty.users /\ invites = Empty.invites
      /\ agents = {} /\ sessions = {} /\ writers = {} /\ clash = {} /\ drawn = {}
      /\ restarts = 0 /\ disk = Contents
  BY DEF Init
<1>2. Contents = Empty
  BY <1>1 DEF Contents, Empty
<1>3. Sound(Contents, drawn)
  BY <1>2, EmptySound
<1>4. TypeOK
  BY <1>1, <1>3 DEF TypeOK, Sound, Stores, Contents
<1>5. Asked(request, families, users, invites, drawn)
  BY NothingKnown DEF Init, Asked
<1> QED BY <1>1, <1>3, <1>4, <1>5 DEF AccountsInv

LEMMA NextKeeps == AccountsInv /\ [Next]_vars => AccountsInv'
<1> SUFFICES ASSUME AccountsInv, [Next]_vars
             PROVE  AccountsInv'
  OBVIOUS
<1>1. ASSUME NEW t \in Thread, Arrive(t)
      PROVE  AccountsInv'
  BY <1>1, ArriveKeeps
<1>2. ASSUME NEW t \in Thread, Step(t)
      PROVE  AccountsInv'
  BY <1>2, CheckFamilyKeeps, AddAgentKeeps, ReadFamilyKeeps, FamilyWritesKeep,
     CheckUserKeeps, AddUserKeeps, ReadUserKeeps, PutUserKeeps, CheckOwnerKeeps,
     SaveInviteKeeps, CheckInviteKeeps, UseInviteKeeps, LoginKeeps, OpenKeeps,
     DumpKeeps DEF Step
<1>3. CASE Restart
  BY <1>3, RestartKeeps
<1>4. CASE UNCHANGED vars
  <2>1. /\ UNCHANGED <<store, agents, sessions, disk, writers, clash, drawn, restarts, request>>
    BY <1>4 DEF vars, store
  <2>2. Contents' = Contents
    BY <2>1 DEF Contents, store
  <2>3. TypeOK'
    BY <2>1 DEF AccountsInv, TypeOK, store
  <2>4. Asked(request, families, users, invites, drawn)'
    BY <2>1 DEF AccountsInv, store
  <2>5. Sound(Contents, drawn)' /\ (disk' # Torn => Sound(disk, drawn)')
    BY <2>1, <2>2 DEF AccountsInv
  <2>6. disk' \in {Torn, Contents'} \/ \E p \in Thread : At(p, "open")'
    BY <2>1, <2>2 DEF AccountsInv, At
  <2>7. (\A u \in sessions : users[u] # None)' /\ restarts' \in Nat
    BY <2>1 DEF AccountsInv, store
  <2> QED BY <2>3, <2>4, <2>5, <2>6, <2>7 DEF AccountsInv
<1> QED BY <1>1, <1>2, <1>3, <1>4 DEF Next

(* The inductive invariant of the accounts.                                *)
THEOREM AccountsInvHolds == Spec => []AccountsInv
  BY InitKeeps, NextKeeps, PTL DEF Spec

(* What refers to an entry finds it, in the store and in the file          *)
(* (auth.py:114-145, 194-213, server.py:160-191).                          *)
THEOREM ReferencesFound == Spec => []ReferencesResolve
<1>1. AccountsInv => ReferencesResolve
  BY DEF AccountsInv, ReferencesResolve, Sound
<1> QED BY <1>1, AccountsInvHolds, PTL

(* The file is never older than a store at rest; all of it is typed        *)
(* (state.py:40-62).                                                       *)
THEOREM FileIsCurrent == Spec => []DiskCurrent
<1>1. AccountsInv => DiskCurrent
  <2> SUFFICES ASSUME AccountsInv, disk # Torn, \A t \in Thread : request[t].todo = <<>>
               PROVE  disk = Contents
    BY DEF AccountsInv, DiskCurrent
  <2>1. \A t \in Thread : ~At(t, "open")
    BY DEF At
  <2> QED BY <2>1 DEF AccountsInv
<1> QED BY <1>1, AccountsInvHolds, PTL

(* No request moves a user to another family, address or role              *)
(* (state.py:75-97).                                                       *)
THEOREM IdentitiesStay == Spec => IdentityStays
<1> DEFINE Stays ==
      \A u \in User : users[u] # None /\ restarts' = restarts =>
       /\ users'[u] # None
       /\ users'[u].family = users[u].family
       /\ users'[u].email = users[u].email
       /\ users'[u].role = users[u].role
<1>1. AccountsInv /\ [Next]_vars => Stays
  <2> SUFFICES ASSUME AccountsInv, [Next]_vars
               PROVE  Stays
    OBVIOUS
  <2>1. UNCHANGED users => Stays
    OBVIOUS
  <2>2. Restart => Stays
    <3>1. Restart => restarts' # restarts
      BY DEF Restart, AccountsInv
    <3> QED BY <3>1
  <2>3. ASSUME NEW t \in Thread, AddUser(t)
        PROVE  Stays
    <3>1. PICK v \in User \ drawn : \A u \in User : u # v => users'[u] = users[u]
      BY <2>3 DEF AddUser, AccountsInv, TypeOK
    <3>2. users[v] = None
      BY <3>1 DEF AccountsInv, Sound, Contents
    <3> QED BY <3>1, <3>2
  <2>4. ASSUME NEW t \in Thread, PutUser(t)
        PROVE  Stays
    <3>1. PICK q : q = request[t]
      OBVIOUS
    <3>2. At(t, "putUser") /\ users' = [users EXCEPT ![q.user] = [q.read EXCEPT !.name = 1]]
      BY <2>4, <3>1 DEF PutUser
    <3>3. UserRead(q, users)
      BY <3>1, <3>2, AskedIs DEF Knows, At
    <3>4. PICK e : e = [q.read EXCEPT !.name = 1]
      OBVIOUS
    <3>5. /\ e \in UserEntry /\ e.family = users[q.user].family
          /\ e.email = users[q.user].email /\ e.role = users[q.user].role
      BY <3>3, <3>4 DEF UserRead, UserEntry
    <3>6. e # None
      BY <3>5, EntryAssumption
    <3>7. \A u \in User : users'[u] = IF u = q.user THEN e ELSE users[u]
      BY <3>2, <3>4 DEF AccountsInv, TypeOK
    <3> QED BY <3>5, <3>6, <3>7
  <2>5. ASSUME NEW t \in Thread, Arrive(t)
        PROVE  UNCHANGED users
    BY <2>5 DEF Arrive, Signup, Accept, InviteMember, SaveEvents, UpdateProfile, Begin, store
  <2>6. ASSUME NEW t \in Thread, Step(t), ~AddUser(t), ~PutUser(t)
        PROVE  UNCHANGED users
    BY <2>6 DEF Step, CheckFamily, AddAgent, ReadFamily, PutFamily, AddMember, PutOwner,
       PutEvents, WriteFamily, CheckUser, ReadUser, CheckOwner, SaveInvite, CheckInvite,
       UseInvite, Login, Open, Dump, store
  <2>7. UNCHANGED vars => UNCHANGED users
    BY DEF vars, store
  <2> QED BY <2>1, <2>2, <2>3, <2>4, <2>5, <2>6, <2>7 DEF Next
<1> QED BY <1>1, AccountsInvHolds, PTL DEF Spec, IdentityStays
=============================================================================
