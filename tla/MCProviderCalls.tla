--------------------------- MODULE MCProviderCalls ---------------------------
(***************************************************************************)
(* Small instances, for TLC, of the parts that share nothing but the HTTP  *)
(* client: the users of an account with every paged reader, the single     *)
(* requests, the screenshot upload, the segment download and the account   *)
(* export.  A behaviour is one of one part; the others stay as they start. *)
(***************************************************************************)
EXTENDS Team, Records, ScreenshotUpload, SegmentDownload, AccountExport, TLC

VARIABLE part
providerVars == <<teamVars, recordVars, uploadVars, segmentVars, exportVars, part>>

AllReaders ==
  {fetch_apps, fetch_customer_reviews, fetch_customer_reviews_page,
   fetch_review_submissions, fetch_versions, fetch_builds, fetch_builds_page,
   fetch_builds_for_group, fetch_beta_groups, fetch_beta_testers,
   fetch_beta_build_localizations, fetch_beta_app_localizations,
   fetch_accessibility_declarations, fetch_app_info_localizations,
   fetch_localizations, fetch_screenshot_sets, fetch_app_categories,
   fetch_team_members, fetch_users, fetch_user_visible_apps, fetch_devices,
   fetch_bundle_ids, fetch_bundle_id_capabilities, fetch_certificates,
   fetch_profiles, fetch_analytics_report_requests_page,
   fetch_analytics_reports_page, fetch_analytics_report_instances_page,
   fetch_analytics_report_segments_page}

TeamIdle == \A l \in Listings : held[l] = {}
RecordsIdle == resource = ReviewReply /\ own[Website] = 0

Init ==
  /\ part \in {"team", "records", "upload", "segment", "export"}
  /\ TeamInit /\ (part = "team" \/ (TeamIdle /\ \A t \in Tasks : read[t].kind = fetch_apps))
  /\ RecordsInit /\ (part = "records" \/ RecordsIdle)
  /\ UploadInit /\ SegmentInit /\ ExportInit /\ (part = "export" \/ ~oldIos)

Rest(p) ==
  /\ part' = part
  /\ p # "team" => UNCHANGED teamVars
  /\ p # "records" => UNCHANGED recordVars
  /\ p # "upload" => UNCHANGED uploadVars
  /\ p # "segment" => UNCHANGED segmentVars
  /\ p # "export" => UNCHANGED exportVars

Next ==
  \/ part = "team" /\ TeamNext /\ Rest("team")
  \/ part = "records" /\ RecordsNext /\ Rest("records")
  \/ part = "upload" /\ Uploading /\ Rest("upload")
  \/ part = "segment" /\ Downloading /\ Rest("segment")
  \/ part = "export" /\ ExportNext /\ Rest("export")

\* the service answers the requests of the readers
Spec ==
  /\ Init /\ [][Next]_providerVars
  /\ \A t \in Tasks :
       WF_providerVars(part = "team" /\ NextPage(t) /\ UNCHANGED <<shown, removed>> /\ Rest("team"))

\* Every variable of the five parts has its type.
TypeOK ==
  /\ TeamTypeOK
  /\ RecordsTypeOK
  /\ UploadTypeOK
  /\ SegmentTypeOK
  /\ ExportTypeOK
=============================================================================
