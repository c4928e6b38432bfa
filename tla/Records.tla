------------------------------- MODULE Records -------------------------------
(***************************************************************************)
(* The resources that the App Store provider reads, creates, edits and     *)
(* deletes with one request each (providers/appstore/client.rs), and the   *)
(* error a request that did not go well becomes (send_and_read,            *)
(* pending_agreements_error).  Several hosts work on the same resource,    *)
(* each from what it last read; others use the website.                    *)
(*                                                                         *)
(* A request is one step: the body comes from the host's view, which is as *)
(* old as one likes.  What an operation is about is its row of the table   *)
(* below: the attributes it may send and those it always sends.            *)
(*                                                                         *)
(* A definition named D_Mistake, before D, is D with a plausible mistake.  *)
(***************************************************************************)
EXTENDS Naturals, FiniteSets, FiniteSetsExt

CONSTANTS
  Hosts,
  Resources,  \* the resources looked at, of those defined below
  MaxCopies   \* bound: how many copies of one thing an actor makes

Website == "website"  \* whoever works by other means

-----------------------------------------------------------------------------
(* The operations.                                                         *)

\* a GET; none says that an absent record is Ok(None), not an error
OrNone == [none |-> TRUE]
OrError == [none |-> FALSE]
Listed == OrNone   \* in a listing of PagedReading that is read to its end
OnePage == OrError \* or of which one page is read: not on it is not absent

\* a POST; answers says that the answer has to decode, replaces that what is
\* there takes the place of a second one
Post == [answers |-> TRUE, replaces |-> FALSE]
PostOnly == [answers |-> FALSE, replaces |-> FALSE]

\* a PATCH of some attributes, of them always those of always
Patch(some, always, answers) ==
  [some |-> some \cup always, always |-> always, answers |-> answers, replaces |-> FALSE]

fetch_phased_release == OrNone
fetch_current_build == OrNone
fetch_app_review_detail == OrNone
fetch_beta_app_review_detail == OrError
fetch_build_detail == OrError
fetch_app_info == OrError
fetch_certificate_content == OrError
fetch_profile_content == OrError

\* a POST that edits what is there
reply_to_review == [Patch({}, {"responseBody"}, TRUE) EXCEPT !.replaces = TRUE]
create_version == Post
create_phased_release == Post
create_beta_group == Post
add_beta_tester == Post
create_beta_build_localization == Post
create_beta_app_localization == Post
create_accessibility_declaration == Post
create_app_info_localization == Post
create_screenshot_set == Post
create_device == Post
create_bundle_id == Post
enable_capability == Post
create_certificate == Post
create_profile == Post
create_analytics_report_request == Post
release_version == PostOnly
submit_build_for_beta_review == PostOnly
add_build_to_groups == PostOnly
resend_invite == PostOnly

update_version ==
  Patch({"versionString", "copyright", "releaseType", "earliestReleaseDate"}, {}, FALSE)
update_phased_release_state == Patch({}, {"phasedReleaseState"}, TRUE)
expire_build == Patch({}, {"expired"}, FALSE)
attach_build == Patch({}, {"build"}, FALSE)
update_beta_group ==
  Patch({"name", "isPublicLinkEnabled", "publicLinkLimit", "isFeedbackEnabled"}, {}, TRUE)
update_beta_build_localization == Patch({}, {"whatsNew"}, TRUE)
update_beta_app_localization == Patch({"feedbackEmail", "description"}, {}, TRUE)
update_accessibility_declaration ==
  Patch({"publish"},
        {"supportsAudioDescriptions", "supportsCaptions", "supportsDarkInterface",
         "supportsDifferentiateWithoutColorAlone", "supportsLargerText",
         "supportsReducedMotion", "supportsSufficientContrast",
         "supportsVoiceControl", "supportsVoiceover"}, TRUE)
update_app_info_localization == Patch({"subtitle"}, {"name"}, TRUE)
update_app_info_localization_privacy ==
  Patch({"privacyPolicyUrl", "privacyChoicesUrl", "privacyPolicyText"}, {}, TRUE)
update_localization_NoneSent ==
  Patch({"keywords", "promotionalText", "supportUrl", "marketingUrl", "whatsNew"},
        {"description"}, FALSE)

update_localization ==
  Patch({"description", "keywords", "promotionalText", "supportUrl", "marketingUrl",
         "whatsNew"}, {}, FALSE)
update_app_info_category ==
  Patch({"primaryCategory", "primarySubcategoryOne", "secondaryCategory",
         "secondarySubcategoryOne"}, {}, FALSE)
update_app == Patch({"contentRightsDeclaration", "primaryLocale"}, {}, FALSE)
update_age_rating ==
  Patch({},
        {"alcoholTobaccoOrDrugUseOrReferences", "contests", "gamblingSimulated",
         "gunsOrOtherWeapons", "medicalOrTreatmentInformation", "profanityOrCrudeHumor",
         "sexualContentGraphicAndNudity", "sexualContentOrNudity", "horrorOrFearThemes",
         "matureOrSuggestiveThemes", "violenceCartoonOrFantasy", "violenceRealistic",
         "violenceRealisticProlongedGraphicOrSadistic", "isAdvertising", "isGambling",
         "isUnrestrictedWebAccess", "isUserGeneratedContent", "ageRatingOverrideV2"},
        FALSE)
Contact ==
  {"contactFirstName", "contactLastName", "contactEmail", "contactPhone",
   "demoAccountName", "demoAccountPassword", "demoAccountRequired", "notes"}
update_beta_app_review_detail == Patch(Contact, {}, TRUE)
update_app_review_detail == Patch(Contact, {}, TRUE)
update_user == Patch({}, {"roles", "allAppsVisible", "provisioningAllowed"}, FALSE)
update_user_visible_apps == Patch({}, {"visibleApps"}, FALSE)
update_device == Patch({"name", "status"}, {}, FALSE)
update_bundle_id == Patch({}, {"name"}, FALSE)

-----------------------------------------------------------------------------
(* The resources: how each is read, made and edited, and whether it can be *)
(* deleted.                                                                *)

Resource(reads, creates, edits, deletes) ==
  [reads |-> reads, creates |-> creates, edits |-> edits, deletes |-> deletes]

\* one call: a GET of the submission of an approved version, and its DELETE
reject_version == [gets |-> OrNone, deletes |-> TRUE]

delete_review_response == TRUE
delete_version == TRUE
delete_phased_release == TRUE
delete_beta_group == TRUE
remove_beta_tester == TRUE
remove_build_from_group == TRUE
delete_accessibility_declaration == TRUE
delete_app_info_localization == TRUE
delete_screenshot_set == TRUE
delete_bundle_id == TRUE
disable_capability == TRUE
revoke_certificate == TRUE
delete_profile == TRUE

Version == Resource({OnePage}, {create_version}, {update_version}, delete_version)
ReleaseRequest == Resource({Listed}, {release_version}, {}, FALSE)
VersionSubmission == Resource({reject_version.gets}, {}, {}, reject_version.deletes)
PhasedRelease ==
  Resource({fetch_phased_release}, {create_phased_release},
           {update_phased_release_state}, delete_phased_release)
Build == Resource({Listed, fetch_build_detail}, {}, {expire_build}, FALSE)
BuildOfVersion == Resource({fetch_current_build}, {}, {attach_build}, FALSE)
BetaReviewSubmission == Resource({Listed}, {submit_build_for_beta_review}, {}, FALSE)
BuildInGroup == Resource({Listed}, {add_build_to_groups}, {}, remove_build_from_group)
BetaGroup == Resource({Listed}, {create_beta_group}, {update_beta_group}, delete_beta_group)
TesterInGroup == Resource({Listed}, {add_beta_tester}, {}, remove_beta_tester)
TesterInvitation == Resource({}, {resend_invite}, {}, FALSE)
BetaBuildLocalization ==
  Resource({Listed}, {create_beta_build_localization}, {update_beta_build_localization}, FALSE)
BetaAppLocalization ==
  Resource({Listed}, {create_beta_app_localization}, {update_beta_app_localization}, FALSE)
AccessibilityDeclaration ==
  Resource({Listed}, {create_accessibility_declaration},
           {update_accessibility_declaration}, delete_accessibility_declaration)
AppInfoLocalization ==
  Resource({Listed}, {create_app_info_localization},
           {update_app_info_localization, update_app_info_localization_privacy},
           delete_app_info_localization)
VersionLocalization == Resource({Listed}, {}, {update_localization}, FALSE)
ScreenshotSet == Resource({Listed}, {create_screenshot_set}, {}, delete_screenshot_set)
AppInfo == Resource({fetch_app_info}, {}, {update_app_info_category}, FALSE)
App == Resource({fetch_app_info}, {}, {update_app}, FALSE)
AgeRating == Resource({fetch_app_info}, {}, {update_age_rating}, FALSE)
BetaAppReviewDetail ==
  Resource({fetch_beta_app_review_detail}, {}, {update_beta_app_review_detail}, FALSE)
AppReviewDetail ==
  Resource({fetch_app_review_detail}, {}, {update_app_review_detail}, FALSE)
User == Resource({Listed}, {}, {update_user, update_user_visible_apps}, FALSE)
Device == Resource({Listed}, {create_device}, {update_device}, FALSE)
BundleId == Resource({Listed}, {create_bundle_id}, {update_bundle_id}, delete_bundle_id)
Capability == Resource({Listed}, {enable_capability}, {}, disable_capability)
Certificate ==
  Resource({Listed, fetch_certificate_content}, {create_certificate}, {}, revoke_certificate)
Profile == Resource({Listed, fetch_profile_content}, {create_profile}, {}, delete_profile)
ReviewReply == Resource({Listed}, {reply_to_review}, {reply_to_review}, delete_review_response)
AnalyticsRequest == Resource({Listed}, {create_analytics_report_request}, {}, FALSE)

AllResources ==
  {Version, ReleaseRequest, VersionSubmission, PhasedRelease, Build, BuildOfVersion,
   BetaReviewSubmission, BuildInGroup, BetaGroup, TesterInGroup, TesterInvitation,
   BetaBuildLocalization, BetaAppLocalization, AccessibilityDeclaration,
   AppInfoLocalization, VersionLocalization, ScreenshotSet,
   AppInfo, App, AgeRating, BetaAppReviewDetail, AppReviewDetail, User, Device,
   BundleId, Capability, Certificate, Profile, ReviewReply, AnalyticsRequest}

ASSUME RecordsAssumption ==
  MaxCopies \in Nat \ {0} /\ Website \notin Hosts /\ Resources \subseteq AllResources

-----------------------------------------------------------------------------
VARIABLES
  resource,  \* the resource of this behaviour
  record,    \* record[f]: attribute f, while it is there; copies are not told apart
  own,       \* own[h]: the copies that h made and that are there
  view,      \* view[h]: what host h last read
  meant      \* meant[f]: what attribute f was last changed to, by whoever meant to
recordVars == <<resource, record, own, view, meant>>

Actors == Hosts \cup {Website}

\* attributes with the same part in the edits of r cannot be told apart: two
\* of each kind, or one of each of two kinds, are enough
Attributes(r) == UNION {e.some : e \in r.edits}
Part(r, f) == <<{e \in r.edits : f \in e.some}, {e \in r.edits : f \in e.always}>>
WatchedPairs(r) == kSubset(IF Cardinality(Attributes(r)) < 2 THEN Cardinality(Attributes(r)) ELSE 2,
                    Attributes(r))
Parts(r, W) == {Part(r, f) : f \in W}
Watched(r) ==
  {CHOOSE W \in WatchedPairs(r) : Parts(r, W) = p : p \in {Parts(r, W) : W \in WatchedPairs(r)}}

Values(W) == [W -> BOOLEAN]
New(W) == [known |-> "new", value |-> [f \in W |-> FALSE]]  \* nothing was tried
Unknown(W) == [known |-> "unknown", value |-> [f \in W |-> FALSE]]
Absent(W) == [known |-> "none", value |-> [f \in W |-> FALSE]]
There(v) == [known |-> "some", value |-> v]

SomeThere == \E h \in Actors : own[h] > 0

RecordsTypeOK ==
  /\ resource \in Resources
  /\ \E W \in Watched(resource) :
       /\ record \in Values(W) /\ meant \in Values(W)
       /\ view \in [Hosts -> [known : {"new", "unknown", "none", "some"}, value : Values(W)]]
  /\ own \in [Actors -> 0..MaxCopies]

RecordsInit ==
  /\ resource \in Resources
  /\ \E W \in Watched(resource) :
       /\ record = [f \in W |-> FALSE] /\ meant = record
       /\ view = [h \in Hosts |-> New(W)]
  /\ \E n \in {0, 1} : own = [h \in Actors |-> IF h = Website THEN n ELSE 0]

-----------------------------------------------------------------------------
(* What a request comes to.                                                *)

\* unreadable: a 2xx whose body does not decode; lost: no answer, or not all.
\* Of a service, or a gateway before it, is assumed that it does not refuse with
\* a 4xx what it has done.
Answers == {"2xx", "unreadable", "4xx", "agreements", "5xx", "lost"}
Effective == {"2xx", "unreadable", "5xx", "lost"} \* the request may have been done
Ineffective == Answers \ {"2xx", "unreadable"}    \* it may not

Verdict_NoStatus(answer, answers) ==
  CASE answer = "2xx" -> "Ok"
    [] answer = "unreadable" -> IF answers THEN "Decode" ELSE "Ok"
    [] answer = "lost" -> "Network"
    [] answer = "agreements" -> "PendingAgreements"
    [] OTHER -> "Http4xx"

\* StackError::Http carries the status
Verdict(answer, answers) ==
  CASE answer = "2xx" -> "Ok"
    [] answer = "unreadable" -> IF answers THEN "Decode" ELSE "Ok"
    [] answer = "lost" -> "Network"
    [] answer = "agreements" -> "PendingAgreements"
    [] answer = "4xx" -> "Http4xx"
    [] OTHER -> "Http5xx"

Refusals == {"Http4xx", "PendingAgreements"}

\* what host h goes by after a request that may change things: a refusal leaves
\* its view, an Ok gives it after, of anything else it has to read again
Concludes(h, verdict, after) ==
  view' = [view EXCEPT ![h] =
    CASE verdict = "Ok" -> after
      [] verdict \in Refusals -> @
      [] OTHER -> Unknown(DOMAIN record)]

\* a GET; an error leaves the host with what it knew
Read(h) ==
  /\ \/ SomeThere /\ view' = [view EXCEPT ![h] = There(record)]
     \/ ~SomeThere /\ (\E r \in resource.reads : r.none) /\ view' = [view EXCEPT ![h] = Absent(DOMAIN record)]
  /\ UNCHANGED <<resource, record, own, meant>>

\* a POST, by a host that has tried nothing yet or knows of none there
Create(h) ==
  /\ view[h].known \in {"new", "none"}
  /\ \E op \in resource.creates, answer \in Answers, v \in Values(DOMAIN record) :
       /\ \/ /\ answer \in Effective
             /\ \/ /\ SomeThere /\ op.replaces
                   /\ own' = own /\ record' = v /\ meant' = v
                \/ /\ ~(SomeThere /\ op.replaces) /\ own[h] < MaxCopies
                   /\ own' = [own EXCEPT ![h] = @ + 1]
                   /\ IF SomeThere THEN UNCHANGED <<record, meant>>
                      ELSE record' = v /\ meant' = v
          \/ answer \in Ineffective /\ UNCHANGED <<own, record, meant>>
       /\ Concludes(h, Verdict(answer, op.answers),
                    IF op.answers THEN There(record') ELSE Unknown(DOMAIN record))
  /\ resource' = resource

\* the attributes in the body when the host means to change aims
Sent(op, aims) == op.always \cup aims

\* a PATCH of the record the host read, or the POST that replaces it, changing
\* the attributes aims
Update(h) ==
  /\ view[h].known = "some"
  /\ \E op \in resource.edits, answer \in Answers :
     \E aims \in (SUBSET (op.some \cap DOMAIN record)) \ {{}} :
       LET body == [f \in Sent(op, aims) \cap DOMAIN record |->
                      IF f \in aims THEN ~view[h].value[f] ELSE view[h].value[f]] IN
       /\ \/ /\ answer \in Effective /\ (SomeThere \/ op.replaces)
             /\ record' = [f \in DOMAIN record |->
                             IF f \in DOMAIN body THEN body[f] ELSE record[f]]
             /\ meant' = [f \in DOMAIN record |->
                            IF f \in aims THEN ~view[h].value[f] ELSE meant[f]]
             /\ own' = IF SomeThere THEN own ELSE [own EXCEPT ![h] = @ + 1]
          \/ answer \in Ineffective /\ UNCHANGED <<own, record, meant>>
       /\ Concludes(h, Verdict(answer, op.answers),
                    IF op.answers THEN There(record') ELSE Unknown(DOMAIN record))
  /\ resource' = resource

\* a DELETE of one of the copies; a 404 is a refusal like any other
Delete(h) ==
  /\ view[h].known = "some" /\ resource.deletes
  /\ \E answer \in Answers \ {"unreadable"} :
       /\ \/ /\ answer \in Effective
             /\ \E a \in Actors : own[a] > 0 /\ own' = [own EXCEPT ![a] = @ - 1]
          \/ answer \in Ineffective /\ own' = own
       /\ Concludes(h, Verdict(answer, FALSE), Unknown(DOMAIN record))
  /\ UNCHANGED <<resource, record, meant>>

\* somebody else, by other means
Elsewhere ==
  /\ \/ /\ SomeThere /\ own' = own
        /\ \E f \in DOMAIN record :
             /\ record' = [record EXCEPT ![f] = ~@]
             /\ meant' = [meant EXCEPT ![f] = ~record[f]]
     \/ /\ own[Website] < MaxCopies /\ own' = [own EXCEPT ![Website] = @ + 1]
        /\ IF SomeThere THEN UNCHANGED <<record, meant>>
           ELSE record' \in Values(DOMAIN record) /\ meant' = record'
     \/ /\ \E a \in Actors : own[a] > 0 /\ own' = [own EXCEPT ![a] = @ - 1]
        /\ UNCHANGED <<record, meant>>
  /\ UNCHANGED <<resource, view>>

RecordsNext ==
  \/ Elsewhere
  \/ \E h \in Hosts : Read(h) \/ Create(h) \/ Update(h) \/ Delete(h)

RecordsSpec == RecordsInit /\ [][RecordsNext]_recordVars

-----------------------------------------------------------------------------
(* Properties.                                                             *)

\* A host that creates only as its first request or after reading that there is
\* none, repeats a create that was refused with a 4xx, and reads again after any
\* other error, never makes a second copy of its own: the errors say enough about
\* what may have been done, and no error is taken for the absence of the record.
NeverTwice == \A h \in Hosts : own[h] <= 1

\* The attributes that some edit sends although its host changes others: it takes
\* them from the host's view, however old.
Restated(r) ==
  {f \in Attributes(r) :
     \/ r = AppInfoLocalization /\ f = "name"
     \/ r = User /\ f # "visibleApps"
     \/ r = AccessibilityDeclaration /\ f # "publish"
     \/ r = AgeRating}

\* Edits merge: whatever the hosts had read when, an attribute has the value that
\* somebody last meant to give it, unless it is one of the restated ones; no edit
\* puts another one back to what its host last read.
EditsHold ==
  \A f \in DOMAIN record \ Restated(resource) : record[f] = meant[f]
=============================================================================
