---------------------------- MODULE GlancePolicy ----------------------------
(***************************************************************************)
(* The rules of glance (images), from policy/manager/glance.py: the        *)
(* checks that others refer to by name, the named checks that guard no     *)
(* operation of their own, and the operations' rules in the order of the   *)
(* file, those of one resource that ask the same written together. x is    *)
(* the user and the target.                                                *)
(***************************************************************************)
EXTENDS PolicyChecks

Default(x) == TRUE
MetadefAdmin(x) == AdminRole(x)
AdminOrMember(x) == AdminRole(x) \/ ProjectMember(x)
AdminOrReader(x) == AdminRole(x) \/ ProjectReader(x)
Visible(x) ==
  \/ AdminRole(x)
  \/ ReaderRole(x) /\ (OwnProject(x) \/ Literal(x, "public", "visibility"))

NamedChecks(x) ==
       Checks({"default", "metadef_default"}, Default(x))
  \cup Checks({"context_is_admin", "manage_image_cache"}, AdminRole(x))
  \cup Checks({"metadef_admin"}, MetadefAdmin(x))

Images(x) ==
       Writes({"image"}, {"add"}, AdminRole(x) \/ (ProjectMember(x) /\
         Same(x, "project_id", "owner")))
  \cup Writes({"image"}, {"delete", "modify", "communitize", "upload"}, AdminOrMember(x))
  \cup Reads({"image"}, {"get"}, AdminRole(x) \/ (ReaderRole(x) /\ (OwnProject(x) \/
         Same(x, "project_id", "member_id") \/ Literal(x, "community", "visibility") \/
         Literal(x, "public", "visibility") \/ Literal(x, "shared", "visibility"))))
  \cup Reads({"image"}, {"get_all"}, AdminOrReader(x))
  \cup Writes({"image"}, {"publicize", "copy"}, AdminRole(x))
  \cup Reads({"image"}, {"download"}, AdminRole(x) \/ (MemberRole(x) /\ (OwnProject(x) \/
         Same(x, "project_id", "member_id") \/ Literal(x, "community", "visibility") \/
         Literal(x, "public", "visibility") \/ Literal(x, "shared", "visibility"))))
  \cup Writes({"image_location"}, {"delete"}, AdminRole(x))
  \cup Reads({"image_location"}, {"get"}, AdminOrReader(x))
  \cup Writes({"image_location"}, {"set"}, AdminOrMember(x))
  \cup Writes({"member"}, {"add", "delete"}, AdminOrMember(x))
  \cup Reads({"member"}, {"get", "get_all"}, AdminRole(x) \/ (ReaderRole(x) /\
         (OwnProject(x) \/ Same(x, "project_id", "member_id"))))
  \cup Writes({"member"}, {"modify"}, AdminRole(x) \/ (MemberRole(x) /\
         Same(x, "project_id", "member_id")))
  \cup Writes({"deactivate", "reactivate"}, {"use"}, AdminOrMember(x))

Metadefs(x) ==
       Reads({"task"}, {"get", "get_all"}, Default(x))
  \cup Writes({"task"}, {"add", "modify"}, Default(x))
  \cup Writes({"tasks_api_access"}, {"use"}, AdminRole(x))
  \cup Reads({"metadef_namespace"}, {"get"}, Visible(x))
  \cup Reads({"metadef_namespace"}, {"get_all"}, AdminOrReader(x))
  \cup Writes({"metadef_namespace", "metadef_object"}, {"modify", "add", "delete"},
         MetadefAdmin(x))
  \cup Reads({"metadef_object"}, {"get", "get_all"}, Visible(x))
  \cup Reads({"metadef_resource_type"}, {"list", "get"}, Visible(x))
  \cup Writes({"metadef_resource_type_association"}, {"add", "remove"}, MetadefAdmin(x))

PropertiesTagsCache(x) ==
       Reads({"metadef_property", "metadef_tag"}, {"get", "get_all"}, Visible(x))
  \cup Reads({"metadef_property"}, {"modify"}, MetadefAdmin(x))
  \cup Writes({"metadef_property"}, {"add", "remove"}, MetadefAdmin(x))
  \cup Writes({"metadef_tag"}, {"modify", "add", "add_all", "delete", "delete_all"},
         MetadefAdmin(x))
  \cup Writes({"image", "delete"}, {"cache"}, AdminRole(x))
  \cup Reads({"list"}, {"cache"}, AdminRole(x))
  \cup Reads({"stores_info_detail"}, {"use"}, AdminRole(x))

\* Every registered rule, with its answer for x.
Rules(x) == NamedChecks(x) \cup Images(x) \cup Metadefs(x) \cup PropertiesTagsCache(x)
================================================================================
