------------------------- MODULE CredentialsProofs -------------------------
(***************************************************************************)
(* Proofs about Credentials, for any requests, calls and number of OTPs:   *)
(* type correctness and the four safety invariants the runs check.         *)
(***************************************************************************)
EXTENDS Credentials, TLAPS

Working == {"hashing", "consuming", "activating", "committing"}

\* A request knows only requests that were over when it looked its OTP up.
BeforeIsOver == \A r \in Requests : \A q \in before[r] : pc[q] = "over"

\* What a request does follows from what it asks for; it has an outcome when
\* it is over.
Phases ==
  \A r \in Requests :
    /\ pc[r] \in Working => Uses(r)
    /\ pc[r] = "mailing" => call[r].op = "forgot"
    /\ pc[r] \in {"activating", "committing"} => Accepts(r)
    /\ outcome[r] # "none" => pc[r] = "over"

\* Whoever got past the look-up did so before the OTP was consumed.
LookedUpInTime ==
  \A r \in Requests : pc[r] \in Working \/ Used(r) =>
    \A q \in before[r] : ~ (Used(q) /\ call[q].otp = call[r].otp)

\* What an open acceptance has written, it has written under the row's lock.
Writes ==
  \A r \in Requests :
    /\ wrote[r] # {} => Accepts(r) /\ pc[r] \in Working
    /\ Accepts(r) /\ pc[r] \in {"consuming", "activating", "committing"} =>
         "password" \in wrote[r]
    /\ "member" \in wrote[r] <=> pc[r] = "committing"
    /\ "otp" \in wrote[r] <=> pc[r] \in {"activating", "committing"}

\* The locks on the member's row and on the account's are exclusive.
Exclusive ==
  \A q, r \in Requests :
    \A part \in {"password", "member"} :
      part \in wrote[q] /\ part \in wrote[r] => q = r

\* Each change of a table has a request that stands for it.
Causes ==
  /\ \A i \in consumed : \E q \in Requests : Used(q) /\ call[q].otp = i
  /\ \A r \in Requests : Used(r) => call[r].otp \in consumed
  /\ \A r \in Requests : password = r => call[r].op = "reset" \/ Used(r)
  /\ \A r \in Requests : late[r] => call[r].op = "reset"

\* The status an acceptance found is still that of the row when it commits,
\* and none finds "inactive" again after one that succeeded.
Invitation ==
  /\ \A r \in Requests : pc[r] = "committing" => member = "inactive"
  /\ \A r \in Requests :
       Accepts(r) /\ Used(r) => member # "inactive" \/ Patched({"inactive"})

CredInv ==
  /\ TypeOK /\ BeforeIsOver /\ Phases /\ LookedUpInTime /\ Writes /\ Exclusive
  /\ Causes /\ Invitation /\ OneAcceptance /\ InvitedChoosesPassword

-----------------------------------------------------------------------------
LEMMA InitEstablishes == Init => CredInv
<1> SUFFICES ASSUME Init PROVE CredInv
  OBVIOUS
<1> USE DEF Init
<1>1. TypeOK
  BY MaxIdAssumption DEF TypeOK, MemberStatus, Part, Ids
<1>2. BeforeIsOver /\ Phases /\ LookedUpInTime /\ Writes /\ Exclusive
  BY DEF BeforeIsOver, Phases, LookedUpInTime, Writes, Exclusive, Used, Working
<1>3. Causes /\ Invitation /\ OneAcceptance /\ InvitedChoosesPassword
  BY NoRequestAssumption
     DEF Causes, Invitation, OneAcceptance, InvitedChoosesPassword, Used
<1>. QED  BY <1>1, <1>2, <1>3 DEF CredInv

LEMMA OtpType ==
  ASSUME TypeOK, NEW r \in Requests, Uses(r)
  PROVE  call[r].otp \in Ids
<1>1. call[r] \in Call
  BY CallsAssumption DEF TypeOK
<1>. QED  BY <1>1 DEF Call, Uses

LEMMA IssueKeeps ==
  ASSUME CredInv, NEW r \in Requests, Issue(r)
  PROVE  CredInv'
<1> USE DEF CredInv, Issue, Go, End, tables
<1>1. TypeOK'
  BY DEF TypeOK, MemberStatus, Part, Ids, Over, Call
<1>2. BeforeIsOver'
  BY DEF TypeOK, BeforeIsOver, Over
<1>3. Phases'
  BY DEF TypeOK, Phases, Uses, Accepts, Working
<1>4. LookedUpInTime'
  BY DEF TypeOK, LookedUpInTime, Phases, BeforeIsOver, Used, Uses, Working
<1>5. Writes'
  BY DEF TypeOK, Writes, Phases, Uses, Accepts, Working
<1>6. Exclusive'
  BY DEF TypeOK, Exclusive, Writes, Locked
<1>7. Causes'
  BY NoRequestAssumption DEF TypeOK, Causes, Phases, Writes, Used, Uses,
       Accepts, Working
<1>8. Invitation'
  BY DEF TypeOK, Invitation, Phases, Writes, Locked, Used, Uses, Accepts,
       Patched, Working
<1>9. OneAcceptance'
  BY DEF TypeOK, OneAcceptance, Invitation, Phases, Used, Uses, Accepts,
       Patched, Working
<1>10. InvitedChoosesPassword'
  BY NoRequestAssumption DEF TypeOK, InvitedChoosesPassword, Phases, Writes,
       Uses, Accepts, Patched, Working
<1>. QED  BY <1>1, <1>2, <1>3, <1>4, <1>5, <1>6, <1>7, <1>8, <1>9, <1>10

LEMMA MailKeeps ==
  ASSUME CredInv, NEW r \in Requests, Mail(r)
  PROVE  CredInv'
<1> USE DEF CredInv, Mail, Go, End, tables
<1>1. TypeOK'
  BY DEF TypeOK, MemberStatus, Part, Ids, Over, Call
<1>2. BeforeIsOver'
  BY DEF TypeOK, BeforeIsOver, Over
<1>3. Phases'
  BY DEF TypeOK, Phases, Uses, Accepts, Working
<1>4. LookedUpInTime'
  BY DEF TypeOK, LookedUpInTime, Phases, BeforeIsOver, Used, Uses, Working
<1>5. Writes'
  BY DEF TypeOK, Writes, Phases, Uses, Accepts, Working
<1>6. Exclusive'
  BY DEF TypeOK, Exclusive, Writes, Locked
<1>7. Causes'
  BY NoRequestAssumption DEF TypeOK, Causes, Phases, Writes, Used, Uses,
       Accepts, Working
<1>8. Invitation'
  BY DEF TypeOK, Invitation, Phases, Writes, Locked, Used, Uses, Accepts,
       Patched, Working
<1>9. OneAcceptance'
  BY DEF TypeOK, OneAcceptance, Invitation, Phases, Used, Uses, Accepts,
       Patched, Working
<1>10. InvitedChoosesPassword'
  BY NoRequestAssumption DEF TypeOK, InvitedChoosesPassword, Phases, Writes,
       Uses, Accepts, Patched, Working
<1>. QED  BY <1>1, <1>2, <1>3, <1>4, <1>5, <1>6, <1>7, <1>8, <1>9, <1>10

LEMMA LookKeeps ==
  ASSUME CredInv, NEW r \in Requests, Look(r)
  PROVE  CredInv'
<1> USE DEF CredInv, Look, Go, End, tables
<1>1. TypeOK'
  BY DEF TypeOK, MemberStatus, Part, Ids, Over, Call
<1>2. BeforeIsOver'
  BY DEF TypeOK, BeforeIsOver, Over
<1>3. Phases'
  BY DEF TypeOK, Phases, Uses, Accepts, Working
<1>4. LookedUpInTime'
  <2>1. \A q \in Requests : Used(q)' <=> Used(q)
    BY DEF Used, Uses, TypeOK, Phases
  <2>2. \A q \in Requests \ {r} :
          /\ before'[q] = before[q] /\ pc'[q] = pc[q]
    BY DEF TypeOK
  <2>3. ASSUME pc'[r] \in Working \/ Used(r)', NEW q \in Requests
        PROVE  ~ (Used(q) /\ call[q].otp = call[r].otp)
    <3>1. call[r].otp \notin consumed
      BY <2>1, <2>3 DEF Working, Used, Phases, Latest, Valid, TypeOK
    <3>. QED  BY <3>1 DEF Causes
  <2>4. before' \in [Requests -> SUBSET Requests]
    BY DEF TypeOK, Over
  <2>. QED  BY <2>1, <2>2, <2>3, <2>4 DEF LookedUpInTime
<1>5. Writes'
  BY DEF TypeOK, Writes, Phases, Uses, Accepts, Working
<1>6. Exclusive'
  BY DEF TypeOK, Exclusive, Writes, Locked
<1>7. Causes'
  BY NoRequestAssumption DEF TypeOK, Causes, Phases, Writes, Used, Uses,
       Accepts, Working
<1>8. Invitation'
  BY DEF TypeOK, Invitation, Phases, Writes, Locked, Used, Uses, Accepts,
       Patched, Working
<1>9. OneAcceptance'
  BY DEF TypeOK, OneAcceptance, Invitation, Phases, Used, Uses, Accepts,
       Patched, Working
<1>10. InvitedChoosesPassword'
  BY NoRequestAssumption DEF TypeOK, InvitedChoosesPassword, Phases, Writes,
       Uses, Accepts, Patched, Working
<1>. QED  BY <1>1, <1>2, <1>3, <1>4, <1>5, <1>6, <1>7, <1>8, <1>9, <1>10

LEMMA SendPasswordKeeps ==
  ASSUME CredInv, NEW r \in Requests, SendPassword(r)
  PROVE  CredInv'
<1> USE DEF CredInv, SendPassword, Go, End, tables
<1>1. TypeOK'
  <2>1. wrote' \in [Requests -> SUBSET Part]
    BY DEF TypeOK, Part
  <2>2. late' \in [Requests -> BOOLEAN]
    BY DEF TypeOK
  <2>. QED  BY <2>1, <2>2 DEF TypeOK
<1>2. BeforeIsOver'
  BY DEF TypeOK, BeforeIsOver, Over
<1>3. Phases'
  BY DEF TypeOK, Phases, Uses, Accepts, Working
<1>4. LookedUpInTime'
  BY DEF TypeOK, LookedUpInTime, Phases, BeforeIsOver, Used, Uses, Working
<1>5. Writes'
  BY DEF TypeOK, Writes, Phases, Uses, Accepts, Working
<1>6. Exclusive'
  BY DEF TypeOK, Exclusive, Writes, Locked
<1>7. Causes'
  BY NoRequestAssumption DEF TypeOK, Causes, Phases, Writes, Used, Uses,
       Accepts, Working
<1>8. Invitation'
  BY DEF TypeOK, Invitation, Phases, Writes, Locked, Used, Uses, Accepts,
       Patched, Working
<1>9. OneAcceptance'
  BY DEF TypeOK, OneAcceptance, Invitation, Phases, Used, Uses, Accepts,
       Patched, Working
<1>10. InvitedChoosesPassword'
  BY NoRequestAssumption DEF TypeOK, InvitedChoosesPassword, Phases, Writes,
       Uses, Accepts, Patched, Working
<1>. QED  BY <1>1, <1>2, <1>3, <1>4, <1>5, <1>6, <1>7, <1>8, <1>9, <1>10

LEMMA ConsumeInTrxKeeps ==
  ASSUME CredInv, NEW r \in Requests, ConsumeInTrx(r)
  PROVE  CredInv'
<1> USE DEF CredInv, ConsumeInTrx, Go, End, tables
<1>1. TypeOK'
  BY DEF TypeOK, MemberStatus, Part, Ids, Over, Call
<1>2. BeforeIsOver'
  BY DEF TypeOK, BeforeIsOver, Over
<1>3. Phases'
  BY DEF TypeOK, Phases, Uses, Accepts, Working
<1>4. LookedUpInTime'
  BY DEF TypeOK, LookedUpInTime, Phases, BeforeIsOver, Used, Uses, Working
<1>5. Writes'
  BY DEF TypeOK, Writes, Phases, Uses, Accepts, Working
<1>6. Exclusive'
  BY DEF TypeOK, Exclusive, Writes, Locked
<1>7. Causes'
  BY NoRequestAssumption DEF TypeOK, Causes, Phases, Writes, Used, Uses,
       Accepts, Working
<1>8. Invitation'
  BY DEF TypeOK, Invitation, Phases, Writes, Locked, Used, Uses, Accepts,
       Patched, Working
<1>9. OneAcceptance'
  BY DEF TypeOK, OneAcceptance, Invitation, Phases, Used, Uses, Accepts,
       Patched, Working
<1>10. InvitedChoosesPassword'
  BY NoRequestAssumption DEF TypeOK, InvitedChoosesPassword, Phases, Writes,
       Uses, Accepts, Patched, Working
<1>. QED  BY <1>1, <1>2, <1>3, <1>4, <1>5, <1>6, <1>7, <1>8, <1>9, <1>10

LEMMA ConsumeAndAnswerKeeps ==
  ASSUME CredInv, NEW r \in Requests, ConsumeAndAnswer(r)
  PROVE  CredInv'
<1> USE DEF CredInv, ConsumeAndAnswer, Go, End, tables
<1>1. TypeOK'
  <2>1. call[r].otp \in Ids
    BY OtpType DEF Uses
  <2>2. wrote' \in [Requests -> SUBSET Part]
    BY DEF TypeOK
  <2>. QED  BY <2>1, <2>2 DEF TypeOK
<1>2. BeforeIsOver'
  BY DEF TypeOK, BeforeIsOver, Over
<1>3. Phases'
  BY DEF TypeOK, Phases, Uses, Accepts, Working
<1>4. LookedUpInTime'
  BY DEF TypeOK, LookedUpInTime, Phases, BeforeIsOver, Used, Uses, Working
<1>5. Writes'
  BY DEF TypeOK, Writes, Phases, Uses, Accepts, Working
<1>6. Exclusive'
  BY DEF TypeOK, Exclusive, Writes, Locked
<1>7. Causes'
  BY NoRequestAssumption DEF TypeOK, Causes, Phases, Writes, Used, Uses,
       Accepts, Working
<1>8. Invitation'
  BY DEF TypeOK, Invitation, Phases, Writes, Locked, Used, Uses, Accepts,
       Patched, Working
<1>9. OneAcceptance'
  BY DEF TypeOK, OneAcceptance, Invitation, Phases, Used, Uses, Accepts,
       Patched, Working
<1>10. InvitedChoosesPassword'
  BY NoRequestAssumption DEF TypeOK, InvitedChoosesPassword, Phases, Writes,
       Uses, Accepts, Patched, Working
<1>. QED  BY <1>1, <1>2, <1>3, <1>4, <1>5, <1>6, <1>7, <1>8, <1>9, <1>10

LEMMA LandKeeps ==
  ASSUME CredInv, NEW r \in Requests, Land(r)
  PROVE  CredInv'
<1> USE DEF CredInv, Land, Go, End, tables
<1>1. TypeOK'
  BY DEF TypeOK, MemberStatus, Part, Ids, Over, Call
<1>2. BeforeIsOver'
  BY DEF TypeOK, BeforeIsOver, Over
<1>3. Phases'
  BY DEF TypeOK, Phases, Uses, Accepts, Working
<1>4. LookedUpInTime'
  BY DEF TypeOK, LookedUpInTime, Phases, BeforeIsOver, Used, Uses, Working
<1>5. Writes'
  BY DEF TypeOK, Writes, Phases, Uses, Accepts, Working
<1>6. Exclusive'
  BY DEF TypeOK, Exclusive, Writes, Locked
<1>7. Causes'
  BY NoRequestAssumption DEF TypeOK, Causes, Phases, Writes, Used, Uses,
       Accepts, Working
<1>8. Invitation'
  BY DEF TypeOK, Invitation, Phases, Writes, Locked, Used, Uses, Accepts,
       Patched, Working
<1>9. OneAcceptance'
  BY DEF TypeOK, OneAcceptance, Invitation, Phases, Used, Uses, Accepts,
       Patched, Working
<1>10. InvitedChoosesPassword'
  BY NoRequestAssumption DEF TypeOK, InvitedChoosesPassword, Phases, Writes,
       Uses, Accepts, Patched, Working
<1>. QED  BY <1>1, <1>2, <1>3, <1>4, <1>5, <1>6, <1>7, <1>8, <1>9, <1>10

LEMMA LoseKeeps ==
  ASSUME CredInv, NEW r \in Requests, Lose(r)
  PROVE  CredInv'
<1> USE DEF CredInv, Lose, Go, End, tables
<1>1. TypeOK'
  BY DEF TypeOK, MemberStatus, Part, Ids, Over, Call
<1>2. BeforeIsOver'
  BY DEF TypeOK, BeforeIsOver, Over
<1>3. Phases'
  BY DEF TypeOK, Phases, Uses, Accepts, Working
<1>4. LookedUpInTime'
  BY DEF TypeOK, LookedUpInTime, Phases, BeforeIsOver, Used, Uses, Working
<1>5. Writes'
  BY DEF TypeOK, Writes, Phases, Uses, Accepts, Working
<1>6. Exclusive'
  BY DEF TypeOK, Exclusive, Writes, Locked
<1>7. Causes'
  BY NoRequestAssumption DEF TypeOK, Causes, Phases, Writes, Used, Uses,
       Accepts, Working
<1>8. Invitation'
  BY DEF TypeOK, Invitation, Phases, Writes, Locked, Used, Uses, Accepts,
       Patched, Working
<1>9. OneAcceptance'
  BY DEF TypeOK, OneAcceptance, Invitation, Phases, Used, Uses, Accepts,
       Patched, Working
<1>10. InvitedChoosesPassword'
  BY NoRequestAssumption DEF TypeOK, InvitedChoosesPassword, Phases, Writes,
       Uses, Accepts, Patched, Working
<1>. QED  BY <1>1, <1>2, <1>3, <1>4, <1>5, <1>6, <1>7, <1>8, <1>9, <1>10

LEMMA ActivateKeeps ==
  ASSUME CredInv, NEW r \in Requests, Activate(r)
  PROVE  CredInv'
<1> USE DEF CredInv, Activate, Go, End, tables
<1>1. TypeOK'
  BY DEF TypeOK, MemberStatus, Part, Ids, Over, Call
<1>2. BeforeIsOver'
  BY DEF TypeOK, BeforeIsOver, Over
<1>3. Phases'
  BY DEF TypeOK, Phases, Uses, Accepts, Working
<1>4. LookedUpInTime'
  BY DEF TypeOK, LookedUpInTime, Phases, BeforeIsOver, Used, Uses, Working
<1>5. Writes'
  BY DEF TypeOK, Writes, Phases, Uses, Accepts, Working
<1>6. Exclusive'
  BY DEF TypeOK, Exclusive, Writes, Locked
<1>7. Causes'
  BY NoRequestAssumption DEF TypeOK, Causes, Phases, Writes, Used, Uses,
       Accepts, Working
<1>8. Invitation'
  BY DEF TypeOK, Invitation, Phases, Writes, Locked, Used, Uses, Accepts,
       Patched, Working
<1>9. OneAcceptance'
  BY DEF TypeOK, OneAcceptance, Invitation, Phases, Used, Uses, Accepts,
       Patched, Working
<1>10. InvitedChoosesPassword'
  BY NoRequestAssumption DEF TypeOK, InvitedChoosesPassword, Phases, Writes,
       Uses, Accepts, Patched, Working
<1>. QED  BY <1>1, <1>2, <1>3, <1>4, <1>5, <1>6, <1>7, <1>8, <1>9, <1>10

LEMMA NoInvitationKeeps ==
  ASSUME CredInv, NEW r \in Requests, NoInvitation(r)
  PROVE  CredInv'
<1> USE DEF CredInv, NoInvitation, Go, End, tables
<1>1. TypeOK'
  BY DEF TypeOK, MemberStatus, Part, Ids, Over, Call
<1>2. BeforeIsOver'
  BY DEF TypeOK, BeforeIsOver, Over
<1>3. Phases'
  BY DEF TypeOK, Phases, Uses, Accepts, Working
<1>4. LookedUpInTime'
  BY DEF TypeOK, LookedUpInTime, Phases, BeforeIsOver, Used, Uses, Working
<1>5. Writes'
  BY DEF TypeOK, Writes, Phases, Uses, Accepts, Working
<1>6. Exclusive'
  BY DEF TypeOK, Exclusive, Writes, Locked
<1>7. Causes'
  BY NoRequestAssumption DEF TypeOK, Causes, Phases, Writes, Used, Uses,
       Accepts, Working
<1>8. Invitation'
  BY DEF TypeOK, Invitation, Phases, Writes, Locked, Used, Uses, Accepts,
       Patched, Working
<1>9. OneAcceptance'
  BY DEF TypeOK, OneAcceptance, Invitation, Phases, Used, Uses, Accepts,
       Patched, Working
<1>10. InvitedChoosesPassword'
  BY NoRequestAssumption DEF TypeOK, InvitedChoosesPassword, Phases, Writes,
       Uses, Accepts, Patched, Working
<1>. QED  BY <1>1, <1>2, <1>3, <1>4, <1>5, <1>6, <1>7, <1>8, <1>9, <1>10

LEMMA CommitKeeps ==
  ASSUME CredInv, NEW r \in Requests, Commit(r)
  PROVE  CredInv'
<1> USE DEF CredInv, Commit, Go, End, tables
<1>1. TypeOK'
  <2>1. call[r].otp \in Ids
    BY OtpType DEF Phases, Working
  <2>2. wrote' \in [Requests -> SUBSET Part]
    BY DEF TypeOK
  <2>. QED  BY <2>1, <2>2 DEF TypeOK, MemberStatus
<1>2. BeforeIsOver'
  BY DEF TypeOK, BeforeIsOver, Over
<1>3. Phases'
  BY DEF TypeOK, Phases, Uses, Accepts, Working
<1>4. LookedUpInTime'
  BY DEF TypeOK, LookedUpInTime, Phases, BeforeIsOver, Used, Uses, Working
<1>5. Writes'
  BY DEF TypeOK, Writes, Phases, Uses, Accepts, Working
<1>6. Exclusive'
  BY DEF TypeOK, Exclusive, Writes, Locked
<1>7. Causes'
  BY NoRequestAssumption DEF TypeOK, Causes, Phases, Writes, Used, Uses,
       Accepts, Working
<1>8. Invitation'
  BY DEF TypeOK, Invitation, Phases, Writes, Locked, Used, Uses, Accepts,
       Patched, Working, Exclusive
<1>9. OneAcceptance'
  BY DEF TypeOK, OneAcceptance, Invitation, Phases, Used, Uses, Accepts,
       Patched, Working
<1>10. InvitedChoosesPassword'
  BY NoRequestAssumption DEF TypeOK, InvitedChoosesPassword, Phases, Writes,
       Uses, Accepts, Patched, Working
<1>. QED  BY <1>1, <1>2, <1>3, <1>4, <1>5, <1>6, <1>7, <1>8, <1>9, <1>10

LEMMA FailKeeps ==
  ASSUME CredInv, NEW r \in Requests, Fail(r)
  PROVE  CredInv'
<1> USE DEF CredInv, Fail, Go, End, tables
<1>1. TypeOK'
  BY DEF TypeOK, MemberStatus, Part, Ids, Over, Call
<1>2. BeforeIsOver'
  BY DEF TypeOK, BeforeIsOver, Over
<1>3. Phases'
  BY DEF TypeOK, Phases, Uses, Accepts, Working
<1>4. LookedUpInTime'
  BY DEF TypeOK, LookedUpInTime, Phases, BeforeIsOver, Used, Uses, Working
<1>5. Writes'
  BY DEF TypeOK, Writes, Phases, Uses, Accepts, Working
<1>6. Exclusive'
  BY DEF TypeOK, Exclusive, Writes, Locked
<1>7. Causes'
  BY NoRequestAssumption DEF TypeOK, Causes, Phases, Writes, Used, Uses,
       Accepts, Working
<1>8. Invitation'
  BY DEF TypeOK, Invitation, Phases, Writes, Locked, Used, Uses, Accepts,
       Patched, Working
<1>9. OneAcceptance'
  BY DEF TypeOK, OneAcceptance, Invitation, Phases, Used, Uses, Accepts,
       Patched, Working
<1>10. InvitedChoosesPassword'
  BY NoRequestAssumption DEF TypeOK, InvitedChoosesPassword, Phases, Writes,
       Uses, Accepts, Patched, Working
<1>. QED  BY <1>1, <1>2, <1>3, <1>4, <1>5, <1>6, <1>7, <1>8, <1>9, <1>10

LEMMA PatchKeeps ==
  ASSUME CredInv, NEW r \in Requests, Patch(r)
  PROVE  CredInv'
<1> USE DEF CredInv, Patch, Go, End, tables
<1>1. TypeOK'
  BY CallsAssumption DEF TypeOK, MemberStatus, Part, Ids, Over, Call
<1>2. BeforeIsOver'
  BY DEF TypeOK, BeforeIsOver, Over
<1>3. Phases'
  BY DEF TypeOK, Phases, Uses, Accepts, Working
<1>4. LookedUpInTime'
  BY DEF TypeOK, LookedUpInTime, Phases, BeforeIsOver, Used, Uses, Working
<1>5. Writes'
  BY DEF TypeOK, Writes, Phases, Uses, Accepts, Working
<1>6. Exclusive'
  BY DEF TypeOK, Exclusive, Writes, Locked
<1>7. Causes'
  BY NoRequestAssumption DEF TypeOK, Causes, Phases, Writes, Used, Uses,
       Accepts, Working
<1>8. Invitation'
  BY DEF TypeOK, Invitation, Phases, Writes, Locked, Used, Uses, Accepts,
       Patched, Working
<1>9. OneAcceptance'
  BY DEF TypeOK, OneAcceptance, Invitation, Phases, Used, Uses, Accepts,
       Patched, Working
<1>10. InvitedChoosesPassword'
  <2>1. CASE call[r].status = "active"
    <3>1. Patched({"active"})'
      BY <2>1 DEF Patched, TypeOK
    <3>. QED  BY <3>1 DEF InvitedChoosesPassword
  <2>2. CASE call[r].status # "active"
    BY <2>2 DEF InvitedChoosesPassword, TypeOK
  <2>. QED  BY <2>1, <2>2
<1>. QED  BY <1>1, <1>2, <1>3, <1>4, <1>5, <1>6, <1>7, <1>8, <1>9, <1>10

LEMMA ExpireKeeps ==
  ASSUME CredInv, NEW i \in Ids, Expire(i)
  PROVE  CredInv'
BY DEF CredInv, Expire, TypeOK, BeforeIsOver, Phases, LookedUpInTime, Writes,
       Exclusive, Causes, Invitation, OneAcceptance, InvitedChoosesPassword,
       Used, Uses, Accepts, Patched

LEMMA NextPreserves == CredInv /\ [Next]_vars => CredInv'
<1> SUFFICES ASSUME CredInv, [Next]_vars PROVE CredInv'
  OBVIOUS
<1>1. CASE UNCHANGED vars
  BY <1>1 DEF vars, tables, CredInv, TypeOK, BeforeIsOver, Phases,
       LookedUpInTime, Writes, Exclusive, Causes, Invitation, OneAcceptance,
       InvitedChoosesPassword, Used, Uses, Accepts, Patched
<1>2. ASSUME NEW r \in Requests,
             \/ Issue(r) \/ Mail(r) \/ Look(r) \/ SendPassword(r)
             \/ ConsumeInTrx(r) \/ ConsumeAndAnswer(r) \/ Land(r) \/ Lose(r)
             \/ Activate(r) \/ NoInvitation(r) \/ Commit(r) \/ Fail(r)
             \/ Patch(r)
      PROVE  CredInv'
  BY <1>2, IssueKeeps, MailKeeps, LookKeeps, SendPasswordKeeps,
     ConsumeInTrxKeeps, ConsumeAndAnswerKeeps, LandKeeps, LoseKeeps,
     ActivateKeeps, NoInvitationKeeps, CommitKeeps, FailKeeps, PatchKeeps
<1>. QED  BY <1>1, <1>2, ExpireKeeps DEF Next

LEMMA Invariance == Spec => []CredInv
BY InitEstablishes, NextPreserves, PTL DEF Spec

-----------------------------------------------------------------------------
\* Every variable keeps its type (auth.service.ts and what it calls).
THEOREM CredentialsTypeCorrect == Spec => []TypeOK
<1>1. CredInv => TypeOK
  BY DEF CredInv
<1>. QED  BY <1>1, Invariance, PTL

\* Two successful uses of one OTP were at work at the same time.
THEOREM OneUseInSequence == Spec => []ReuseNeedsOverlap
<1>1. CredInv => ReuseNeedsOverlap
  BY DEF CredInv, LookedUpInTime, ReuseNeedsOverlap, SameOtp, TypeOK
<1>. QED  BY <1>1, Invariance, PTL

\* acceptInvite is all or nothing.
THEOREM AcceptIsAtomic == Spec => []FailedAcceptLeavesNoTrace
<1>1. CredInv => FailedAcceptLeavesNoTrace
  BY DEF CredInv, Causes, FailedAcceptLeavesNoTrace, Used, Accepts, TypeOK
<1>. QED  BY <1>1, Invariance, PTL

\* An invitation is accepted once, unless a manager renews it.
THEOREM AcceptedOnce == Spec => []OneAcceptance
<1>1. CredInv => OneAcceptance
  BY DEF CredInv
<1>. QED  BY <1>1, Invariance, PTL

\* An active member has chosen a password, unless a manager activated it.
THEOREM PasswordIsChosen == Spec => []InvitedChoosesPassword
<1>1. CredInv => InvitedChoosesPassword
  BY DEF CredInv
<1>. QED  BY <1>1, Invariance, PTL
=============================================================================
