--------------------------- MODULE AdminFormsProofs ---------------------------
(***************************************************************************)
(* The safety properties of AdminForms, for any number of forms, presses,  *)
(* names and picks.                                                        *)
(***************************************************************************)
EXTENDS AdminForms, TLAPS

\* The picks so far are those with an upload, each of a form; what R2 has answered for
\* is in the bucket, and so is what a form shows.
UploadsExist ==
    /\ \A k \in Picks : upload[k].pc # "none" => k <= picked /\ upload[k].form \in Forms
    /\ \A k \in Picks : k <= picked => upload[k].pc # "none"
    /\ \A k \in Picks : upload[k].pc = "none" => upload[k].form = Nothing
    /\ \A k \in Picks : upload[k].pc \in {"put", "done"} => k \in bucket
    /\ \A f \in Forms : image[f] \in bucket \cup {NoImage}

\* Without an overlap an upload that runs is the last pick of its form, which waits for
\* it, and the form shows the last that was done.
LatestOf(f) ==
    /\ \A k \in RunningOn(f) : /\ uploading[f]
                               /\ \A j \in Picks : upload[j].form = f => j <= k
    /\ image[f] \in UploadedOn(f, picked) \cup {NoImage}
    /\ \A k \in UploadedOn(f, picked) : k <= image[f]

FormsInv == UploadsExist /\ \A f \in Forms : f \notin overlapped => LatestOf(f)

\* What a press was sent with is settled.
Settled(s) ==
    press[s].clean => /\ press[s].last <= picked
                      /\ \A k \in RunningOn(press[s].form) : press[s].last < k

PressesInv ==
    /\ \A s \in Presses : Settled(s)
    /\ ImagesExist
    /\ LatestUploadIsSent

\* A press is of a form that was shown, and has an SKU if that is a product's.
Typed(s) ==
    /\ press[s].form \in Forms
    /\ kind[press[s].form] \in Kinds
    /\ press[s].sku = Nothing <=> kind[press[s].form] = "category"

KindsInv ==
    /\ at # Nothing => kind[at] \in Kinds
    /\ \A s \in Presses : press[s].pc # "idle" => Typed(s)

FormsAndPresses == TypeOK /\ FormsInv /\ PressesInv /\ KindsInv
-----------------------------------------------------------------------------
\* What the steps of an upload and of a press leave is one.
LEMMA UploadTypes ==
    /\ NoUpload \in UploadStates
    /\ \A f \in Forms : [pc |-> "presigning", form |-> f] \in UploadStates
    /\ \A u \in UploadStates, l \in {"done", "failed"} \cup Running :
          [u EXCEPT !.pc = l] \in UploadStates
  BY DEF NoUpload, UploadStates, Running

LEMMA PressTypes ==
    /\ NoPress \in PressStates
    /\ \A p \in PressStates, l \in {"made", "over"} : [p EXCEPT !.pc = l] \in PressStates
    /\ \A f \in Forms, slug \in Names, sku \in Names \cup {Nothing},
          i, j \in {NoImage} \cup Picks, b \in BOOLEAN :
          [pc |-> "posted", form |-> f, slug |-> slug, sku |-> sku,
           image |-> i, last |-> j, clean |-> b] \in PressStates
  BY DEF NoPress, PressStates

LEMMA TypeInit == Init => TypeOK
  BY UploadTypes, PressTypes DEF Init, TypeOK

LEMMA TypeStep == TypeOK /\ KindsInv /\ [Next]_vars => TypeOK'
  <1> SUFFICES ASSUME TypeOK, KindsInv, [Next]_vars PROVE TypeOK'
    OBVIOUS
  <1>1. ASSUME NEW f \in Forms, NEW k \in Kinds, Open(f, k) PROVE TypeOK'
    BY <1>1 DEF TypeOK, Open, Show, uploads, submits, Kinds
  <1>2. ASSUME Leave PROVE TypeOK'
    BY <1>2 DEF TypeOK, Leave, uploads, submits
  <1>3. ASSUME Arrive PROVE TypeOK'
    BY <1>3 DEF TypeOK, Arrive, Show, uploads, submits, Kinds
  <1>4. ASSUME NEW f \in Forms, SelectImage(f) PROVE TypeOK'
    BY <1>4, UploadTypes, AdminFormsAssumption DEF TypeOK, SelectImage, tab, submits, Picks, NoImage
  <1>5. ASSUME NEW k \in Picks, Presigned(k) PROVE TypeOK'
    BY <1>5, UploadTypes DEF TypeOK, Presigned, Stage, Running, tab, submits
  <1>6. ASSUME NEW k \in Picks, Put(k) PROVE TypeOK'
    BY <1>6, UploadTypes DEF TypeOK, Put, Stage, Running, tab, submits
  <1>7. ASSUME NEW k \in Picks, Uploaded(k) PROVE TypeOK'
    BY <1>7, UploadTypes DEF TypeOK, Uploaded, Stage, UploadOver, Running, tab, submits
  <1>8. ASSUME NEW k \in Picks, UploadFails(k) PROVE TypeOK'
    BY <1>8, UploadTypes DEF TypeOK, UploadFails, Stage, UploadOver, tab, submits
  <1>9. ASSUME NEW s \in Presses, NEW f \in Forms, NEW slug \in Names,
                NEW sku \in Names \cup {Nothing}, Submit(s, f, slug, sku) PROVE TypeOK'
    BY <1>9, PressTypes DEF TypeOK, Submit, tab, uploads
  <1>10. ASSUME NEW s \in Presses, Create(s) PROVE TypeOK'
    BY <1>10, PressTypes DEF TypeOK, Create, tab, uploads
  <1>11. ASSUME NEW s \in Presses, Created(s) PROVE TypeOK'
    BY <1>11, PressTypes DEF TypeOK, Created, PressOver, uploads, PressStates, KindsInv, Typed
  <1>12. ASSUME NEW s \in Presses, SubmitFails(s) PROVE TypeOK'
    BY <1>12, PressTypes DEF TypeOK, SubmitFails, PressOver, tab, uploads
  <1>13. CASE UNCHANGED vars
    BY <1>13 DEF TypeOK, vars, tab, uploads, submits
  <1>14. QED
    BY <1>1, <1>2, <1>3, <1>4, <1>5, <1>6, <1>7, <1>8, <1>9, <1>10, <1>11, <1>12, <1>13 DEF Next, Uploading, Answering
-----------------------------------------------------------------------------
(* The uploads *)

LEMMA FormsQuiet ==
    ASSUME FormsInv, UNCHANGED <<image, uploading, upload, bucket, picked, overlapped>>
    PROVE  FormsInv'
  BY DEF FormsInv, UploadsExist, LatestOf, RunningOn, UploadedOn

\* A stage that ends nothing.
LEMMA FormsStage ==
    ASSUME TypeOK, FormsInv, NEW k \in Picks, NEW l \in {"putting", "put", "failed"},
           upload[k].pc \in Running, Stage(k, l), bucket \subseteq bucket',
           l = "put" => k \in bucket',
           UNCHANGED <<image, picked, overlapped>>,
           IF l = "failed" THEN UploadOver(k) ELSE UNCHANGED uploading
    PROVE  FormsInv'
  <1> DEFINE u == upload'[k]
  <1>1. /\ \A j \in Picks : j # k => upload'[j] = upload[j]
        /\ upload'[k].pc = l /\ upload'[k].form = upload[k].form
    BY DEF TypeOK, UploadStates, Stage
  <1>2. UploadsExist'
    BY <1>1 DEF FormsInv, UploadsExist, Running
  <1>3. ASSUME NEW f \in Forms, f \notin overlapped' PROVE LatestOf(f)'
    <2>1. UploadedOn(f, picked)' = UploadedOn(f, picked)
      BY <1>1 DEF UploadedOn, Running
    <2>2. RunningOn(f)' \subseteq RunningOn(f) /\ (l = "failed" => k \notin RunningOn(f)')
      BY <1>1 DEF RunningOn, Running
    <2>3. LatestOf(f)
      BY <1>3 DEF FormsInv
    <2>4. ASSUME NEW r \in RunningOn(f)' PROVE uploading'[f]
      <3>1. r \in RunningOn(f) /\ uploading[f]
        BY <2>2, <2>3 DEF LatestOf
      <3>2. CASE l # "failed"
        BY <3>1, <3>2
      <3>3. CASE l = "failed"
        <4>1. r # k
          BY <2>2, <2>4, <3>3
        <4>2. upload[k].form = f => k \in RunningOn(f)
          BY DEF RunningOn
        <4>3. upload[k].form # f
          <5> SUFFICES ASSUME upload[k].form = f PROVE FALSE
            OBVIOUS
          <5>1. r \in Picks /\ upload[r].form = f
            BY <3>1 DEF RunningOn
          <5>2. k <= r /\ r <= k
            BY <2>3, <3>1, <4>2, <5>1 DEF LatestOf
          <5>3. QED
            BY <4>1, <5>1, <5>2 DEF Picks
        <4>4. QED
          BY <3>1, <3>3, <4>3 DEF UploadOver, TypeOK
      <3>4. QED
        BY <3>2, <3>3
    <2>5. ASSUME NEW r \in RunningOn(f)', NEW j \in Picks, upload'[j].form = f PROVE j <= r
      BY <1>1, <2>2, <2>3, <2>5 DEF LatestOf
    <2>6. QED
      BY <2>1, <2>3, <2>4, <2>5 DEF LatestOf
  <1>4. QED
    BY <1>2, <1>3 DEF FormsInv

LEMMA FormsPresigned ==
    ASSUME TypeOK, FormsInv, NEW k \in Picks, Presigned(k) PROVE FormsInv'
  BY FormsStage DEF Presigned, Running

LEMMA FormsPut ==
    ASSUME TypeOK, FormsInv, NEW k \in Picks, Put(k) PROVE FormsInv'
  BY FormsStage DEF Put, Running

LEMMA FormsUploadFails ==
    ASSUME TypeOK, FormsInv, NEW k \in Picks, UploadFails(k) PROVE FormsInv'
  BY FormsStage DEF UploadFails

LEMMA FormsUploaded ==
    ASSUME TypeOK, FormsInv, NEW k \in Picks, Uploaded(k) PROVE FormsInv'
  <1>1. /\ \A j \in Picks : j # k => upload'[j] = upload[j]
        /\ upload[k].pc = "put"
        /\ upload'[k].pc = "done" /\ upload'[k].form = upload[k].form
        /\ upload[k].form \in Forms /\ k <= picked
    BY DEF Uploaded, Stage, TypeOK, UploadStates, FormsInv, UploadsExist
  <1>2. UploadsExist'
    BY <1>1 DEF Uploaded, TypeOK, FormsInv, UploadsExist
  <1>3. ASSUME NEW f \in Forms, f \notin overlapped' PROVE LatestOf(f)'
    <2>1. LatestOf(f)
      BY <1>3 DEF FormsInv, Uploaded
    <2>2. CASE upload[k].form # f
      <3>1. UploadedOn(f, picked)' = UploadedOn(f, picked) /\ RunningOn(f)' = RunningOn(f)
        BY <1>1, <2>2 DEF UploadedOn, RunningOn, Uploaded
      <3>2. image'[f] = image[f] /\ uploading'[f] = uploading[f]
        BY <2>2 DEF Uploaded, UploadOver, TypeOK
      <3>3. \A j \in Picks : upload'[j].form = upload[j].form
        BY <1>1
      <3>4. QED
        BY <2>1, <3>1, <3>2, <3>3 DEF LatestOf
    <2>3. CASE upload[k].form = f
      <3>1. k \in RunningOn(f)
        BY <1>1, <2>3 DEF RunningOn, Running
      <3>2. \A j \in Picks : upload[j].form = f => j <= k
        BY <2>1, <3>1 DEF LatestOf
      <3>3. RunningOn(f)' = {}
        <4> SUFFICES ASSUME NEW r \in RunningOn(f)' PROVE FALSE
          OBVIOUS
        <4>1. r \in RunningOn(f) /\ r # k
          BY <1>1 DEF RunningOn, Running
        <4>2. r <= k /\ k <= r
          BY <2>1, <2>3, <3>2, <4>1 DEF LatestOf, RunningOn
        <4>3. QED
          BY <4>1, <4>2 DEF RunningOn, Picks
      <3>4. k \in UploadedOn(f, picked)' /\ image'[f] = k
        BY <1>1, <2>3 DEF UploadedOn, Uploaded, TypeOK
      <3>5. \A j \in UploadedOn(f, picked)' : j <= k
        BY <1>1, <3>2 DEF UploadedOn
      <3>6. QED
        BY <3>3, <3>4, <3>5 DEF LatestOf
    <2>4. QED
      BY <2>2, <2>3
  <1>4. QED
    BY <1>2, <1>3 DEF FormsInv

LEMMA FormsSelectImage ==
    ASSUME TypeOK, FormsInv, NEW f \in Forms, SelectImage(f) PROVE FormsInv'
  <1> DEFINE n == picked + 1
  <1>0. n \in Picks /\ picked \in Nat /\ picked' = n
    BY AdminFormsAssumption DEF SelectImage, TypeOK, Picks, NoImage
  <1>1. /\ \A j \in Picks : j # n => upload'[j] = upload[j]
        /\ upload'[n].pc = "presigning" /\ upload'[n].form = f
        /\ upload[n].pc = "none" /\ upload[n].form = Nothing
    BY <1>0 DEF SelectImage, TypeOK, FormsInv, UploadsExist, Picks
  <1>2. UploadsExist'
    BY <1>0, <1>1 DEF SelectImage, FormsInv, UploadsExist, Picks
  <1>3. ASSUME NEW g \in Forms, g \notin overlapped' PROVE LatestOf(g)'
    <2>1. LatestOf(g)
      BY <1>3 DEF FormsInv, SelectImage
    <2>2. UploadedOn(g, picked)' = UploadedOn(g, picked)
      BY <1>0, <1>1 DEF UploadedOn, FormsInv, UploadsExist, Picks
    <2>3. CASE g # f
      <3>1. RunningOn(g)' = RunningOn(g) /\ \A j \in Picks : upload'[j].form = g => upload[j].form = g
        BY <1>1, <2>3, AdminFormsAssumption DEF RunningOn, Running
      <3>2. image'[g] = image[g] /\ uploading'[g] = uploading[g]
        BY <2>3 DEF SelectImage, TypeOK
      <3>3. QED
        BY <2>1, <2>2, <3>1, <3>2 DEF LatestOf
    <2>4. CASE g = f
      <3>1. RunningOn(f) = {}
        BY <1>3, <2>4 DEF SelectImage
      <3>2. RunningOn(f)' \subseteq {n}
        BY <1>1, <3>1 DEF RunningOn
      <3>3. \A j \in Picks : upload'[j].form = f => j <= n
        BY <1>0, <1>1, AdminFormsAssumption DEF FormsInv, UploadsExist, Picks
      <3>4. uploading'[f] /\ image'[f] = image[f]
        BY DEF SelectImage, TypeOK
      <3>5. QED
        BY <2>1, <2>2, <2>4, <3>2, <3>3, <3>4 DEF LatestOf
    <2>5. QED
      BY <2>3, <2>4
  <1>4. QED
    BY <1>2, <1>3 DEF FormsInv

LEMMA FormsStep == TypeOK /\ FormsInv /\ [Next]_vars => FormsInv'
  <1> SUFFICES ASSUME TypeOK, FormsInv, [Next]_vars PROVE FormsInv'
    OBVIOUS
  <1>1. ASSUME NEW f \in Forms, NEW k \in Kinds, Open(f, k) PROVE FormsInv'
    BY <1>1, FormsQuiet DEF Open, uploads
  <1>2. ASSUME Leave PROVE FormsInv'
    BY <1>2, FormsQuiet DEF Leave, uploads
  <1>3. ASSUME Arrive PROVE FormsInv'
    BY <1>3, FormsQuiet DEF Arrive, uploads
  <1>4. ASSUME NEW f \in Forms, SelectImage(f) PROVE FormsInv'
    BY <1>4, FormsSelectImage
  <1>5. ASSUME NEW k \in Picks, Presigned(k) PROVE FormsInv'
    BY <1>5, FormsPresigned
  <1>6. ASSUME NEW k \in Picks, Put(k) PROVE FormsInv'
    BY <1>6, FormsPut
  <1>7. ASSUME NEW k \in Picks, Uploaded(k) PROVE FormsInv'
    BY <1>7, FormsUploaded
  <1>8. ASSUME NEW k \in Picks, UploadFails(k) PROVE FormsInv'
    BY <1>8, FormsUploadFails
  <1>9. ASSUME NEW s \in Presses, NEW f \in Forms, NEW slug \in Names,
                NEW sku \in Names \cup {Nothing}, Submit(s, f, slug, sku) PROVE FormsInv'
    BY <1>9, FormsQuiet DEF Submit, uploads
  <1>10. ASSUME NEW s \in Presses, Create(s) PROVE FormsInv'
    BY <1>10, FormsQuiet DEF Create, uploads
  <1>11. ASSUME NEW s \in Presses, Created(s) PROVE FormsInv'
    BY <1>11, FormsQuiet DEF Created, PressOver, uploads
  <1>12. ASSUME NEW s \in Presses, SubmitFails(s) PROVE FormsInv'
    BY <1>12, FormsQuiet DEF SubmitFails, PressOver, uploads
  <1>13. CASE UNCHANGED vars
    BY <1>13, FormsQuiet DEF vars, uploads
  <1>14. QED
    BY <1>1, <1>2, <1>3, <1>4, <1>5, <1>6, <1>7, <1>8, <1>9, <1>10, <1>11, <1>12, <1>13 DEF Next, Uploading, Answering
-----------------------------------------------------------------------------
(* The presses *)

LEMMA PressesQuiet ==
    ASSUME PressesInv, UNCHANGED <<upload, bucket, picked>>,
           \A s \in Presses : /\ press'[s].clean = press[s].clean
                              /\ press'[s].form = press[s].form
                              /\ press'[s].image = press[s].image
                              /\ press'[s].last = press[s].last
    PROVE  PressesInv'
  <1>1. \A f, n : UploadedOn(f, n)' = UploadedOn(f, n) /\ RunningOn(f)' = RunningOn(f)
    BY DEF UploadedOn, RunningOn
  <1>2. QED
    BY <1>1 DEF PressesInv, Settled, ImagesExist, LatestUploadIsSent

LEMMA PickedType == TypeOK => picked \in Nat /\ picked <= picked
  BY AdminFormsAssumption DEF TypeOK, Picks, NoImage

\* An upload goes on, or begins: nothing that a press waited for.
LEMMA PressesUploads ==
    ASSUME TypeOK, PressesInv, NEW k \in Picks, UNCHANGED press,
           bucket \subseteq bucket', picked <= picked', picked \in Nat, picked' \in Nat,
           \A j \in Picks : j # k => upload'[j] = upload[j],
           \/ /\ upload[k].pc \in Running /\ upload'[k].form = upload[k].form
           \/ /\ k = picked' /\ picked < k
              /\ upload'[k].pc # "done" /\ upload[k].pc = "none"
    PROVE  PressesInv'
  <1>1. ImagesExist'
    BY DEF PressesInv, ImagesExist
  <1>2. ASSUME NEW s \in Presses, press[s].clean
        PROVE  /\ press[s].last <= picked'
               /\ \A j \in RunningOn(press[s].form)' : press[s].last < j
               /\ UploadedOn(press[s].form, press[s].last)'
                    = UploadedOn(press[s].form, press[s].last)
    <2>0. press[s].last \in Nat /\ k \in Nat
      BY DEF TypeOK, PressStates, Picks, NoImage
    <2>1. /\ press[s].last <= picked
          /\ \A j \in RunningOn(press[s].form) : press[s].last < j
      BY <1>2 DEF PressesInv, Settled
    <2>2. press[s].last <= picked'
      BY <2>0, <2>1
    <2>3. upload[k].form = press[s].form \/ upload'[k].form = press[s].form => press[s].last < k
      BY <2>0, <2>1 DEF RunningOn
    <2>4. \A j \in RunningOn(press[s].form)' : press[s].last < j
      BY <2>1, <2>3 DEF RunningOn
    <2>5. UploadedOn(press[s].form, press[s].last)' = UploadedOn(press[s].form, press[s].last)
      <3>1. ~(k <= press[s].last) \/ (upload[k].form # press[s].form /\ upload'[k].form # press[s].form)
        BY <2>0, <2>3
      <3>2. QED
        BY <3>1 DEF UploadedOn
    <2>6. QED
      BY <2>2, <2>4, <2>5
  <1>3. LatestUploadIsSent'
    BY <1>2 DEF PressesInv, LatestUploadIsSent
  <1>4. QED
    BY <1>1, <1>2, <1>3 DEF PressesInv, Settled

LEMMA PressesPresigned ==
    ASSUME TypeOK, FormsInv, PressesInv, NEW k \in Picks, Presigned(k) PROVE PressesInv'
  <1>1. /\ upload[k].pc \in Running /\ upload'[k].form = upload[k].form
        /\ \A j \in Picks : j # k => upload'[j] = upload[j]
        /\ bucket \subseteq bucket' /\ UNCHANGED <<press, picked>>
    BY DEF Presigned, Stage, submits, TypeOK, UploadStates, Running
  <1>2. picked \in Nat /\ picked' \in Nat /\ picked <= picked'
    BY <1>1, PickedType
  <1>3. QED
    BY <1>1, <1>2, PressesUploads

LEMMA PressesPut ==
    ASSUME TypeOK, FormsInv, PressesInv, NEW k \in Picks, Put(k) PROVE PressesInv'
  <1>1. /\ upload[k].pc \in Running /\ upload'[k].form = upload[k].form
        /\ \A j \in Picks : j # k => upload'[j] = upload[j]
        /\ bucket \subseteq bucket' /\ UNCHANGED <<press, picked>>
    BY DEF Put, Stage, submits, TypeOK, UploadStates, Running
  <1>2. picked \in Nat /\ picked' \in Nat /\ picked <= picked'
    BY <1>1, PickedType
  <1>3. QED
    BY <1>1, <1>2, PressesUploads

LEMMA PressesUploaded ==
    ASSUME TypeOK, FormsInv, PressesInv, NEW k \in Picks, Uploaded(k) PROVE PressesInv'
  <1>1. /\ upload[k].pc \in Running /\ upload'[k].form = upload[k].form
        /\ \A j \in Picks : j # k => upload'[j] = upload[j]
        /\ bucket \subseteq bucket' /\ UNCHANGED <<press, picked>>
    BY DEF Uploaded, Stage, submits, TypeOK, UploadStates, Running
  <1>2. picked \in Nat /\ picked' \in Nat /\ picked <= picked'
    BY <1>1, PickedType
  <1>3. QED
    BY <1>1, <1>2, PressesUploads

LEMMA PressesUploadFails ==
    ASSUME TypeOK, FormsInv, PressesInv, NEW k \in Picks, UploadFails(k) PROVE PressesInv'
  <1>1. /\ upload[k].pc \in Running /\ upload'[k].form = upload[k].form
        /\ \A j \in Picks : j # k => upload'[j] = upload[j]
        /\ bucket \subseteq bucket' /\ UNCHANGED <<press, picked>>
    BY DEF UploadFails, Stage, submits, TypeOK, UploadStates, Running
  <1>2. picked \in Nat /\ picked' \in Nat /\ picked <= picked'
    BY <1>1, PickedType
  <1>3. QED
    BY <1>1, <1>2, PressesUploads

LEMMA PressesSelectImage ==
    ASSUME TypeOK, FormsInv, PressesInv, NEW f \in Forms, SelectImage(f) PROVE PressesInv'
  <1>1. picked + 1 \in Picks /\ picked \in Nat /\ picked' = picked + 1
    BY AdminFormsAssumption DEF SelectImage, TypeOK, Picks, NoImage
  <1>2. upload[picked + 1].pc = "none" /\ upload'[picked + 1].pc = "presigning"
    BY <1>1 DEF SelectImage, TypeOK, FormsInv, UploadsExist, Picks
  <1>3. \A j \in Picks : j # picked + 1 => upload'[j] = upload[j]
    BY <1>1 DEF SelectImage, TypeOK
  <1>4. picked < picked + 1 /\ picked <= picked' /\ picked' \in Nat
    BY <1>1
  <1>5. QED
    BY <1>1, <1>2, <1>3, <1>4, PressesUploads DEF SelectImage, submits

LEMMA PressesSubmit ==
    ASSUME TypeOK, FormsInv, PressesInv, NEW s \in Presses, NEW f \in Forms, NEW slug \in Names,
           NEW sku \in Names \cup {Nothing}, Submit(s, f, slug, sku)
    PROVE  PressesInv'
  <1>1. /\ press'[s].image = image[f] /\ press'[s].last = picked
        /\ press'[s].clean = (f \notin overlapped) /\ press'[s].form = f
        /\ \A r \in Presses : r # s => press'[r] = press[r]
    BY DEF Submit, TypeOK
  <1>2. \A g, n : UploadedOn(g, n)' = UploadedOn(g, n) /\ RunningOn(g)' = RunningOn(g)
    BY DEF UploadedOn, RunningOn, Submit, uploads
  <1>3. bucket' = bucket /\ picked' = picked /\ picked <= picked
    BY AdminFormsAssumption DEF Submit, uploads, TypeOK, Picks, NoImage
  <1>4. image[f] \in bucket \cup {NoImage}
    BY DEF FormsInv, UploadsExist
  <1>5. f \notin overlapped => LatestOf(f) /\ RunningOn(f) = {}
    BY DEF FormsInv, LatestOf, Submit, CanSubmit
  <1>6. ImagesExist'
    BY <1>1, <1>3, <1>4 DEF PressesInv, ImagesExist
  <1>7. LatestUploadIsSent'
    BY <1>1, <1>2, <1>5 DEF PressesInv, LatestUploadIsSent, LatestOf
  <1>8. ASSUME NEW r \in Presses PROVE Settled(r)'
    <2>1. CASE r = s
      BY <1>1, <1>2, <1>3, <1>5, <2>1 DEF Settled
    <2>2. CASE r # s
      BY <1>1, <1>2, <1>3, <2>2 DEF PressesInv, Settled
    <2>3. QED
      BY <2>1, <2>2
  <1>9. QED
    BY <1>6, <1>7, <1>8 DEF PressesInv

LEMMA PressesStep == TypeOK /\ FormsInv /\ PressesInv /\ [Next]_vars => PressesInv'
  <1> SUFFICES ASSUME TypeOK, FormsInv, PressesInv, [Next]_vars PROVE PressesInv'
    OBVIOUS
  <1>1. ASSUME NEW f \in Forms, NEW k \in Kinds, Open(f, k) PROVE PressesInv'
    BY <1>1, PressesQuiet DEF Open, uploads, submits
  <1>2. ASSUME Leave PROVE PressesInv'
    BY <1>2, PressesQuiet DEF Leave, uploads, submits
  <1>3. ASSUME Arrive PROVE PressesInv'
    BY <1>3, PressesQuiet DEF Arrive, uploads, submits
  <1>4. ASSUME NEW f \in Forms, SelectImage(f) PROVE PressesInv'
    BY <1>4, PressesSelectImage
  <1>5. ASSUME NEW k \in Picks, Presigned(k) PROVE PressesInv'
    BY <1>5, PressesPresigned
  <1>6. ASSUME NEW k \in Picks, Put(k) PROVE PressesInv'
    BY <1>6, PressesPut
  <1>7. ASSUME NEW k \in Picks, Uploaded(k) PROVE PressesInv'
    BY <1>7, PressesUploaded
  <1>8. ASSUME NEW k \in Picks, UploadFails(k) PROVE PressesInv'
    BY <1>8, PressesUploadFails
  <1>9. ASSUME NEW s \in Presses, NEW f \in Forms, NEW slug \in Names,
                NEW sku \in Names \cup {Nothing}, Submit(s, f, slug, sku) PROVE PressesInv'
    BY <1>9, PressesSubmit
  <1>10. ASSUME NEW s \in Presses, Create(s) PROVE PressesInv'
    BY <1>10, PressesQuiet DEF Create, uploads, TypeOK, PressStates
  <1>11. ASSUME NEW s \in Presses, Created(s) PROVE PressesInv'
    BY <1>11, PressesQuiet DEF Created, PressOver, uploads, TypeOK, PressStates
  <1>12. ASSUME NEW s \in Presses, SubmitFails(s) PROVE PressesInv'
    BY <1>12, PressesQuiet DEF SubmitFails, PressOver, uploads, TypeOK, PressStates
  <1>13. CASE UNCHANGED vars
    BY <1>13, PressesQuiet DEF vars, uploads, submits
  <1>14. QED
    BY <1>1, <1>2, <1>3, <1>4, <1>5, <1>6, <1>7, <1>8, <1>9, <1>10, <1>11, <1>12, <1>13 DEF Next, Uploading, Answering
-----------------------------------------------------------------------------
(* What the forms are for *)

LEMMA KindsQuiet ==
    ASSUME KindsInv, UNCHANGED kind, at' \in {at, Nothing},
           \A s \in Presses :
              /\ press'[s].form = press[s].form
              /\ press'[s].sku = press[s].sku
              /\ press[s].pc = "idle" => press'[s].pc = "idle"
    PROVE  KindsInv'
  BY DEF KindsInv, Typed

\* A form that is shown has been none before: no press is of it.
LEMMA KindsShow ==
    ASSUME TypeOK, KindsInv, NEW f \in Forms, NEW k \in Kinds, Show(f, k), UNCHANGED <<press, rows>>
    PROVE  KindsInv'
  <1>1. kind[f] = Nothing /\ kind'[f] = k /\ \A g \in Forms : g # f => kind'[g] = kind[g]
    BY DEF Show, Fresh, TypeOK
  <1>2. Nothing \notin Kinds
    BY AdminFormsAssumption
  <1>3. QED
    BY <1>1, <1>2 DEF KindsInv, Typed, Show, TypeOK

LEMMA KindsOpen ==
    ASSUME TypeOK, KindsInv, NEW f \in Forms, NEW k \in Kinds, Open(f, k) PROVE KindsInv'
  BY KindsShow DEF Open, submits

LEMMA KindsArrive == ASSUME TypeOK, KindsInv, Arrive PROVE KindsInv'
  <1>1. ASSUME NEW f \in Forms, Show(f, "product") PROVE KindsInv'
    BY <1>1, KindsShow DEF Arrive, submits, Kinds
  <1>2. CASE at' \in {at, Nothing} /\ kind' = kind
    BY <1>2, KindsQuiet DEF Arrive, submits, TypeOK
  <1>3. QED
    BY <1>1, <1>2 DEF Arrive

LEMMA KindsSubmit ==
    ASSUME TypeOK, KindsInv, NEW s \in Presses, NEW f \in Forms, NEW slug \in Names,
           NEW sku \in Names \cup {Nothing}, Submit(s, f, slug, sku)
    PROVE  KindsInv'
  <1>1. /\ press[s].pc = "idle" /\ press'[s].form = f /\ press'[s].sku = sku
        /\ \A r \in Presses : r # s => press'[r] = press[r]
        /\ UNCHANGED <<at, kind, rows>>
    BY DEF Submit, TypeOK, tab
  <1>2. f # Nothing /\ kind[f] \in Kinds /\ (sku = Nothing <=> kind[f] = "category")
    BY AdminFormsAssumption DEF Submit, KindsInv
  <1>3. QED
    BY <1>1, <1>2 DEF KindsInv, Typed, TypeOK

LEMMA KindsStep == TypeOK /\ KindsInv /\ [Next]_vars => KindsInv'
  <1> SUFFICES ASSUME TypeOK, KindsInv, [Next]_vars PROVE KindsInv'
    OBVIOUS
  <1>1. ASSUME NEW f \in Forms, NEW k \in Kinds, Open(f, k) PROVE KindsInv'
    BY <1>1, KindsOpen
  <1>2. ASSUME Leave PROVE KindsInv'
    BY <1>2, KindsQuiet DEF Leave, submits, TypeOK
  <1>3. ASSUME Arrive PROVE KindsInv'
    BY <1>3, KindsArrive
  <1>4. ASSUME NEW f \in Forms, SelectImage(f) PROVE KindsInv'
    BY <1>4, KindsQuiet DEF SelectImage, tab, submits, TypeOK
  <1>5. ASSUME NEW k \in Picks, Presigned(k) PROVE KindsInv'
    BY <1>5, KindsQuiet DEF Presigned, tab, submits, TypeOK
  <1>6. ASSUME NEW k \in Picks, Put(k) PROVE KindsInv'
    BY <1>6, KindsQuiet DEF Put, tab, submits, TypeOK
  <1>7. ASSUME NEW k \in Picks, Uploaded(k) PROVE KindsInv'
    BY <1>7, KindsQuiet DEF Uploaded, tab, submits, TypeOK
  <1>8. ASSUME NEW k \in Picks, UploadFails(k) PROVE KindsInv'
    BY <1>8, KindsQuiet DEF UploadFails, tab, submits, TypeOK
  <1>9. ASSUME NEW s \in Presses, NEW f \in Forms, NEW slug \in Names,
                NEW sku \in Names \cup {Nothing}, Submit(s, f, slug, sku) PROVE KindsInv'
    BY <1>9, KindsSubmit
  <1>10. ASSUME NEW s \in Presses, Create(s) PROVE KindsInv'
    BY <1>10, KindsQuiet DEF Create, tab, TypeOK, PressStates
  <1>11. ASSUME NEW s \in Presses, Created(s) PROVE KindsInv'
    BY <1>11, KindsQuiet DEF Created, PressOver, TypeOK, PressStates
  <1>12. ASSUME NEW s \in Presses, SubmitFails(s) PROVE KindsInv'
    BY <1>12, KindsQuiet DEF SubmitFails, PressOver, tab, TypeOK, PressStates
  <1>13. CASE UNCHANGED vars
    BY <1>13, KindsQuiet DEF vars, tab, submits, TypeOK
  <1>14. QED
    BY <1>1, <1>2, <1>3, <1>4, <1>5, <1>6, <1>7, <1>8, <1>9, <1>10, <1>11, <1>12, <1>13 DEF Next, Uploading, Answering
-----------------------------------------------------------------------------
LEMMA FormsAndPressesIsInvariant == Spec => []FormsAndPresses
  <1>1. Init => FormsAndPresses
    <2> SUFFICES ASSUME Init PROVE FormsAndPresses
      OBVIOUS
    <2>1. \A k \in Picks : upload[k].pc = "none" /\ upload[k].form = Nothing /\ ~(k <= picked)
      BY AdminFormsAssumption DEF Init, NoUpload, Picks, NoImage
    <2>2. FormsInv
      BY <2>1, AdminFormsAssumption
         DEF Init, FormsInv, UploadsExist, LatestOf, RunningOn, UploadedOn, Running
    <2>3. PressesInv
      BY DEF Init, PressesInv, Settled, ImagesExist, LatestUploadIsSent, NoPress
    <2>4. KindsInv
      BY DEF Init, KindsInv, NoPress
    <2>5. QED
      BY <2>2, <2>3, <2>4, TypeInit DEF FormsAndPresses
  <1>2. FormsAndPresses /\ [Next]_vars => FormsAndPresses'
    BY TypeStep, FormsStep, PressesStep, KindsStep DEF FormsAndPresses
  <1>3. QED
    BY <1>1, <1>2, PTL DEF Spec

\* Every form, upload and press is one of those it may be.
THEOREM TypeCorrect == Spec => []TypeOK
  BY FormsAndPressesIsInvariant, PTL DEF FormsAndPresses

\* No product is sent with an image that is not in the bucket.
THEOREM ImagesAreThere == Spec => []ImagesExist
  BY FormsAndPressesIsInvariant, PTL DEF FormsAndPresses, PressesInv

\* Without an overlap a product is sent with the last photo that was uploaded.
THEOREM LatestIsSent == Spec => []LatestUploadIsSent
  BY FormsAndPressesIsInvariant, PTL DEF FormsAndPresses, PressesInv
=============================================================================
