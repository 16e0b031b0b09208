---------------------------- MODULE MasakariPolicy ----------------------------
(***************************************************************************)
(* The rules of masakari (high availability of instances), from            *)
(* policy/manager/masakari.py: the checks that others refer to by name,    *)
(* the named checks that guard no operation of their own, and the          *)
(* operations' rules in the order of the file, those of one resource that  *)
(* ask the same written together. The prefix os_masakari_api: of names is  *)
(* left out. x is the user and the target.                                 *)
(***************************************************************************)
EXTENDS PolicyChecks

AdminApi(x) == ContextAdmin(x)

NamedChecks(x) ==
       Checks({"context_is_admin"}, AdminRole(x))
  \cup Checks({"admin_or_owner"}, ContextAdmin(x) \/ OwnProject(x))
  \cup Checks({"admin_api", "extensions:discoverable", "os-hosts:discoverable",
         "notifications:discoverable", "segments:discoverable", "vmoves:discoverable"},
         AdminApi(x))
  \cup Checks({"versions:discoverable"}, Anyone(x))

Segments(x) ==
       Reads({"extensions", "os-hosts", "notifications", "segments", "vmoves"}, {"index",
         "detail"}, AdminApi(x))
  \cup Writes({"os-hosts", "segments"}, {"create", "update", "delete"}, AdminApi(x))
  \cup Writes({"notifications"}, {"create"}, AdminApi(x))
  \cup Reads({"versions"}, {"index"}, Anyone(x))

\* Every registered rule, with its answer for x.
Rules(x) == NamedChecks(x) \cup Segments(x)
================================================================================
