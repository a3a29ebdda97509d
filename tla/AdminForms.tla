------------------------------ MODULE AdminForms ------------------------------
(***************************************************************************)
(* The admin's forms (apps/web/src/app/admin): a new product, with a photo *)
(* that the browser puts into R2 itself (media.service.ts signs the URL),  *)
(* and a new category.                                                     *)
(*                                                                         *)
(* A form is one visit to its page: nothing of it is left to a later one.  *)
(* A pick is one file chosen, a press one run of onSubmit; both go on when *)
(* the page is left.  Of what is typed there are the two unique columns.   *)
(***************************************************************************)
EXTENDS Naturals

CONSTANTS
    Forms, Presses,
    Names,     \* slugs and SKUs
    MaxPicks,  \* bound: files ever chosen
    Nothing

Picks == 1..MaxPicks
NoImage == 0
Kinds == {"product", "category"}

ASSUME AdminFormsAssumption ==
    /\ MaxPicks \in Nat
    /\ Nothing \notin Forms \cup Names \cup Kinds

VARIABLES
    at, kind, to,              \* the tab: the form it shows, what each is for, where it is going
    image, uploading, pending, \* React state of the forms
    upload, bucket,            \* the runs of onSelectImage; the objects in R2
    press, rows,               \* the runs of onSubmit; those that made a row
    picked, overlapped         \* history: picks so far, forms where two ran at once

tab == <<at, kind, to>>
uploads == <<upload, bucket, picked, overlapped>>
submits == <<press, rows>>
vars == <<tab, image, uploading, pending, uploads, submits>>

Running == {"presigning", "putting", "put"}
UploadStates == [pc : {"none", "done", "failed"} \cup Running, form : Forms \cup {Nothing}]
NoUpload == [pc |-> "none", form |-> Nothing]
PressStates == [pc : {"idle", "posted", "made", "over"}, form : Forms \cup {Nothing},
                slug : Names \cup {Nothing}, sku : Names \cup {Nothing},
                image : {NoImage} \cup Picks, last : {NoImage} \cup Picks, clean : BOOLEAN]
NoPress == [pc |-> "idle", form |-> Nothing, slug |-> Nothing, sku |-> Nothing,
            image |-> NoImage, last |-> NoImage, clean |-> FALSE]

TypeOK ==
    /\ at \in Forms \cup {Nothing}
    /\ kind \in [Forms -> Kinds \cup {Nothing}]
    /\ to \in Kinds \cup {Nothing}
    /\ image \in [Forms -> {NoImage} \cup Picks]
    /\ uploading \in [Forms -> BOOLEAN]
    /\ pending \in [Forms -> BOOLEAN]
    /\ upload \in [Picks -> UploadStates]
    /\ bucket \subseteq Picks
    /\ press \in [Presses -> PressStates]
    /\ rows \subseteq Presses
    /\ picked \in {NoImage} \cup Picks
    /\ overlapped \subseteq Forms

Init ==
    /\ at = Nothing
    /\ kind = [f \in Forms |-> Nothing]
    /\ to = Nothing
    /\ image = [f \in Forms |-> NoImage]
    /\ uploading = [f \in Forms |-> FALSE]
    /\ pending = [f \in Forms |-> FALSE]
    /\ upload = [k \in Picks |-> NoUpload]
    /\ bucket = {}
    /\ press = [s \in Presses |-> NoPress]
    /\ rows = {}
    /\ picked = NoImage
    /\ overlapped = {}
-----------------------------------------------------------------------------
(* The tab *)

Showing(k) == at # Nothing /\ kind[at] = k

Fresh == {f \in Forms : kind[f] = Nothing}

Show(f, k) ==
    /\ f \in Fresh
    /\ f = CHOOSE g \in Forms : kind[g] = Nothing    \* any will do
    /\ at' = f
    /\ kind' = [kind EXCEPT ![f] = k]

\* By a link of the layout; whatever push was under way is superseded.  A link to the
\* page that is open is none.
Open(f, k) ==
    /\ ~Showing(k)
    /\ Show(f, k)
    /\ to' = Nothing
    /\ UNCHANGED <<image, uploading, pending, uploads, submits>>

\* By a link to a page that is no form.
Leave ==
    /\ at' = Nothing
    /\ to' = Nothing
    /\ UNCHANGED <<kind, image, uploading, pending, uploads, submits>>

\* router.push gets there later: a product's to "/", a category's to the product form,
\* which is not a new one when it is open already.
Arrive ==
    /\ to # Nothing
    /\ \/ to = "product" /\ at' = Nothing /\ kind' = kind
       \/ to = "category" /\ Showing("product") /\ UNCHANGED <<at, kind>>
       \/ /\ to = "category" /\ ~Showing("product")
          /\ \/ \E f \in Forms : Show(f, "product")
             \/ Fresh = {} /\ at' = Nothing /\ kind' = kind
    /\ to' = Nothing
    /\ UNCHANGED <<image, uploading, pending, uploads, submits>>
-----------------------------------------------------------------------------
(* onSelectImage *)

RunningOn(f) == {k \in Picks : upload[k].form = f /\ upload[k].pc \in Running}

Stage(k, label) == upload' = [upload EXCEPT ![k].pc = label]

\* The file input is never disabled.
SelectImage(f) ==
    /\ at = f /\ Showing("product")
    /\ picked < MaxPicks
    /\ picked' = picked + 1
    /\ upload' = [upload EXCEPT ![picked + 1] = [pc |-> "presigning", form |-> f]]
    /\ uploading' = [uploading EXCEPT ![f] = TRUE]
    /\ overlapped' = IF RunningOn(f) # {} THEN overlapped \cup {f} ELSE overlapped
    /\ UNCHANGED <<tab, image, pending, bucket, submits>>

\* Mutant: the image is set as soon as its URL is known.
PresignedIsShown(k) ==
    /\ upload[k].pc = "presigning"
    /\ Stage(k, "putting")
    /\ image' = [image EXCEPT ![upload[k].form] = k]
    /\ UNCHANGED <<tab, uploading, pending, bucket, picked, overlapped, submits>>

\* presignUpload: a key of its own, so that no upload overwrites another.
Presigned(k) ==
    /\ upload[k].pc = "presigning"
    /\ Stage(k, "putting")
    /\ UNCHANGED <<tab, image, uploading, pending, bucket, picked, overlapped, submits>>

Put(k) ==
    /\ upload[k].pc = "putting"
    /\ Stage(k, "put")
    /\ bucket' = bucket \cup {k}
    /\ UNCHANGED <<tab, image, uploading, pending, picked, overlapped, submits>>

\* Mutant: no finally, setUploading at the end of the try.
UploadOverInTry(k) ==
    IF upload[k].pc = "put" THEN uploading' = [uploading EXCEPT ![upload[k].form] = FALSE]
                            ELSE UNCHANGED uploading

\* finally: whatever else the form is uploading.
UploadOver(k) == uploading' = [uploading EXCEPT ![upload[k].form] = FALSE]

\* The last to end, not the last picked, is the image of the form.
Uploaded(k) ==
    /\ upload[k].pc = "put"
    /\ Stage(k, "done")
    /\ image' = [image EXCEPT ![upload[k].form] = k]
    /\ UploadOver(k)
    /\ UNCHANGED <<tab, pending, bucket, picked, overlapped, submits>>

\* Storage that is not configured, a file name that the DTO refuses, a PUT after the
\* URL's five minutes, a lost answer: the image of before stays.
UploadFails(k) ==
    /\ upload[k].pc \in Running
    /\ Stage(k, "failed")
    /\ UploadOver(k)
    /\ UNCHANGED <<tab, image, pending, bucket, picked, overlapped, submits>>
-----------------------------------------------------------------------------
(* onSubmit *)

\* Mutant: disabled while pending only.
CanSubmitUploading(f) == ~pending[f]
CanSubmit(f) == ~pending[f] /\ ~uploading[f]

\* A category has no SKU and no image.
Submit(s, f, slug, sku) ==
    /\ press[s].pc = "idle"
    /\ s = CHOOSE r \in Presses : press[r].pc = "idle"    \* any will do
    /\ at = f
    /\ CanSubmit(f)
    /\ sku = Nothing <=> kind[f] = "category"
    /\ pending' = [pending EXCEPT ![f] = TRUE]
    /\ press' = [press EXCEPT ![s] =
                   [pc |-> "posted", form |-> f, slug |-> slug, sku |-> sku,
                    image |-> image[f], last |-> picked, clean |-> f \notin overlapped]]
    /\ UNCHANGED <<tab, image, uploading, uploads, rows>>

\* The unique columns of Category, Product and ProductVariant.
Free(s) ==
    \A r \in rows :
        kind[press[s].form] = kind[press[r].form]
          => /\ press[s].slug # press[r].slug
             /\ press[s].sku = Nothing \/ press[s].sku # press[r].sku

\* createProduct, createCategory: see Catalog.  The variant is made with its product
\* or not at all.
Create(s) ==
    /\ press[s].pc = "posted"
    /\ Free(s)
    /\ rows' = rows \cup {s}
    /\ press' = [press EXCEPT ![s].pc = "made"]
    /\ UNCHANGED <<tab, image, uploading, pending, uploads>>

\* finally
PressOver(s) ==
    /\ press' = [press EXCEPT ![s].pc = "over"]
    /\ pending' = [pending EXCEPT ![press[s].form] = FALSE]

Created(s) ==
    /\ press[s].pc = "made"
    /\ PressOver(s)
    /\ to' = kind[press[s].form]
    /\ UNCHANGED <<at, kind, image, uploading, uploads, rows>>

\* Refused, or made with its answer lost: the form stays as it is.
SubmitFails(s) ==
    /\ press[s].pc \in {"posted", "made"}
    /\ PressOver(s)
    /\ UNCHANGED <<tab, image, uploading, uploads, rows>>
-----------------------------------------------------------------------------
Uploading(k) == Presigned(k) \/ Put(k) \/ Uploaded(k) \/ UploadFails(k)
Answering(s) == Create(s) \/ Created(s) \/ SubmitFails(s)

Next ==
    \/ \E f \in Forms :
          \/ SelectImage(f)
          \/ \E k \in Kinds : Open(f, k)
          \/ \E s \in Presses, slug \in Names, sku \in Names \cup {Nothing} :
                Submit(s, f, slug, sku)
    \/ \E k \in Picks : Uploading(k)
    \/ \E s \in Presses : Answering(s)
    \/ Leave \/ Arrive

Spec == Init /\ [][Next]_vars

\* The requests of both are answered or fail.
Fairness ==
    /\ \A k \in Picks : WF_vars(Uploading(k))
    /\ \A s \in Presses : WF_vars(Answering(s))

FairSpec == Spec /\ Fairness
-----------------------------------------------------------------------------
(* Properties *)

\* An image that a product is sent with is in the bucket: no upload that was refused,
\* expired or is still under way becomes the image of a product.
ImagesExist ==
    \A s \in Presses : press[s].image \in bucket \cup {NoImage}

UploadedOn(f, last) == {k \in Picks : upload[k].form = f /\ upload[k].pc = "done" /\ k <= last}

\* A product is sent with the last photo that was picked and could be uploaded, unless
\* two uploads of its form overlapped: then it is whichever ended last by then.
LatestUploadIsSent ==
    \A s \in Presses :
        press[s].clean =>
          LET done == UploadedOn(press[s].form, press[s].last)
          IN  /\ press[s].image \in done \cup {NoImage}
              /\ \A k \in done : k <= press[s].image

\* The form can be sent again, whatever became of its upload and of its last press.
FormReturns ==
    \A f \in Forms : uploading[f] \/ pending[f] ~> CanSubmit(f)
=============================================================================
