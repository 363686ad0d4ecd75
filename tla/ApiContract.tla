---------------------------- MODULE ApiContract ----------------------------
(***************************************************************************)
(* The contract between the frontends and the backend, as data.  Contract  *)
(* lists the operations of the generated client in the order in which the  *)
(* backend registers them: a request belongs to the first operation whose  *)
(* method and path template match.  The tables of types say what each of   *)
(* them takes and answers with.  The tables of calls are what the console  *)
(* writes by hand, the types it sends and reads included, which nothing    *)
(* compares with the generated ones: a call has the name of the operation  *)
(* it means.                                                               *)
(***************************************************************************)
EXTENDS Naturals, Sequences, FiniteSets

Op(name, verb, path) == [name |-> name, verb |-> verb, path |-> path]

Types(takes, gives) == [takes |-> takes, gives |-> gives]

Call(name, verb, path, takes, gives) ==
    [name |-> name, verb |-> verb, path |-> path, types |-> Types(takes, gives)]

\* Operations on the sign-in of readers.
ReaderAuthOperations == <<
    Op("register", "POST", <<"auth", "register">>),
    Op("userLogin", "POST", <<"auth", "login">>),
    Op("userRefresh", "POST", <<"auth", "refresh">>),
    Op("userLogout", "POST", <<"auth", "logout">>) >>

\* Operations on file assets.
AssetOperations == <<
    Op("uploadAsset", "POST", <<"assets", "upload">>),
    Op("assets", "GET", <<"assets">>),
    Op("deleteAssetsBulk", "DELETE", <<"assets", "batch">>),
    Op("deleteAsset", "DELETE", <<"assets", "*">>) >>

\* Operations on the account of a reader.
OwnAccountOperations == <<
    Op("deleteAccount", "DELETE", <<"users", "me">>),
    Op("userMe", "GET", <<"users", "me">>),
    Op("updateMe", "PATCH", <<"users", "me">>),
    Op("updateAvatar", "PUT", <<"users", "me", "avatar">>),
    Op("changeMyPassword", "POST", <<"users", "me", "password">>),
    Op("mySessions", "GET", <<"users", "me", "sessions">>),
    Op("revokeSession", "DELETE", <<"users", "me", "sessions", "*">>),
    Op("revokeOthers", "POST", <<"users", "me", "sessions", "revoke-others">>) >>

\* Operations on the sign-in and profile of administrators.
AdminAuthOperations == <<
    Op("login", "POST", <<"admin", "auth", "login">>),
    Op("refresh", "POST", <<"admin", "auth", "refresh">>),
    Op("logout", "POST", <<"admin", "auth", "logout">>),
    Op("me", "GET", <<"admin", "auth", "me">>),
    Op("updateProfile", "PATCH", <<"admin", "auth", "profile">>),
    Op("changePassword", "POST", <<"admin", "auth", "password">>),
    Op("confirm", "POST", <<"admin", "auth", "confirm">>) >>

\* Operations on management of readers.
UserOperations == <<
    Op("users", "GET", <<"admin", "users">>),
    Op("createUser", "POST", <<"admin", "users">>),
    Op("setUserStatusBulk", "PATCH", <<"admin", "users", "status", "batch">>),
    Op("deleteUsersBulk", "DELETE", <<"admin", "users", "batch">>),
    Op("restoreUsersBulk", "POST", <<"admin", "users", "restore", "batch">>),
    Op("restoreUser", "POST", <<"admin", "users", "*", "restore">>),
    Op("getUser", "GET", <<"admin", "users", "*">>),
    Op("updateUser", "PATCH", <<"admin", "users", "*">>),
    Op("setUserStatus", "PATCH", <<"admin", "users", "*", "status">>),
    Op("resetUserPassword", "PUT", <<"admin", "users", "*", "credentials", "password">>),
    Op("userSessions", "GET", <<"admin", "users", "*", "sessions">>),
    Op("revokeUserSession", "DELETE", <<"admin", "users", "*", "sessions", "*">>),
    Op("revokeUserSessions", "POST", <<"admin", "users", "*", "sessions", "revoke-all">>) >>

\* Operations on management of administrators.
AdminOperations == <<
    Op("admins", "GET", <<"admin", "admins">>),
    Op("createAdmin", "POST", <<"admin", "admins">>),
    Op("setAdminStatusBulk", "PATCH", <<"admin", "admins", "status", "batch">>),
    Op("getAdmin", "GET", <<"admin", "admins", "*">>),
    Op("updateAdmin", "PATCH", <<"admin", "admins", "*">>),
    Op("setAdminSuperuser", "PATCH", <<"admin", "admins", "*", "superuser">>),
    Op("setAdminStatus", "PATCH", <<"admin", "admins", "*", "status">>),
    Op("resetAdminPassword", "PUT", <<"admin", "admins", "*", "credentials", "password">>),
    Op("assignAdminRoles", "PUT", <<"admin", "admins", "*", "roles">>),
    Op("adminSessions", "GET", <<"admin", "admins", "*", "sessions">>),
    Op("revokeAdminSessions", "POST", <<"admin", "admins", "*", "sessions", "revoke-all">>) >>

\* Operations on roles and the catalogue of permissions.
RoleOperations == <<
    Op("roles", "GET", <<"admin", "roles">>),
    Op("createRole", "POST", <<"admin", "roles">>),
    Op("setRoleStatusBulk", "PATCH", <<"admin", "roles", "status", "batch">>),
    Op("deleteRolesBulk", "DELETE", <<"admin", "roles", "batch">>),
    Op("deleteRole", "DELETE", <<"admin", "roles", "*">>),
    Op("getRole", "GET", <<"admin", "roles", "*">>),
    Op("updateRole", "PATCH", <<"admin", "roles", "*">>),
    Op("assignPermissions", "PUT", <<"admin", "roles", "*", "permissions">>),
    Op("permissions", "GET", <<"admin", "permissions">>) >>

\* Operations on logs and the overview of the system.
LogOperations == <<
    Op("loginEvents", "GET", <<"admin", "security", "login-events">>),
    Op("auditEvents", "GET", <<"admin", "security", "audit-events">>),
    Op("requestLogs", "GET", <<"admin", "system", "request-logs">>),
    Op("systemOverview", "GET", <<"admin", "system", "overview">>) >>

\* Operations on system settings.
SettingOperations == <<
    Op("siteSetting", "GET", <<"admin", "settings", "site">>),
    Op("updateSiteSetting", "PATCH", <<"admin", "settings", "site">>),
    Op("deleteSiteLogo", "DELETE", <<"admin", "settings", "site", "logo">>),
    Op("uploadSiteLogo", "PUT", <<"admin", "settings", "site", "logo">>),
    Op("registrationSetting", "GET", <<"admin", "settings", "registration">>),
    Op("updateRegistrationSetting", "PATCH", <<"admin", "settings", "registration">>) >>

\* Operations on articles.
PostOperations == <<
    Op("posts", "GET", <<"admin", "blog", "posts">>),
    Op("createPost", "POST", <<"admin", "blog", "posts">>),
    Op("preview", "POST", <<"admin", "blog", "preview">>),
    Op("deletePosts", "POST", <<"admin", "blog", "posts", "delete-batch">>),
    Op("restorePosts", "POST", <<"admin", "blog", "posts", "restore-batch">>),
    Op("deletePost", "DELETE", <<"admin", "blog", "posts", "*">>),
    Op("post", "GET", <<"admin", "blog", "posts", "*">>),
    Op("updatePost", "PUT", <<"admin", "blog", "posts", "*">>),
    Op("updatePostStatus", "PATCH", <<"admin", "blog", "posts", "*", "status">>),
    Op("restorePost", "POST", <<"admin", "blog", "posts", "*", "restore">>) >>

\* Operations on categories and tags.
TaxonomyOperations == <<
    Op("categories", "GET", <<"admin", "blog", "categories">>),
    Op("createCategory", "POST", <<"admin", "blog", "categories">>),
    Op("updateCategory", "PUT", <<"admin", "blog", "categories", "*">>),
    Op("categoryImpact", "POST", <<"admin", "blog", "categories", "delete-impact">>),
    Op("deleteCategories", "POST", <<"admin", "blog", "categories", "delete-batch">>),
    Op("tags", "GET", <<"admin", "blog", "tags">>),
    Op("createTag", "POST", <<"admin", "blog", "tags">>),
    Op("updateTag", "PUT", <<"admin", "blog", "tags", "*">>),
    Op("tagImpact", "POST", <<"admin", "blog", "tags", "delete-impact">>),
    Op("deleteTags", "POST", <<"admin", "blog", "tags", "delete-batch">>) >>

\* Operations on public reading and probes.
PublicOperations == <<
    Op("publicPosts", "GET", <<"blog", "posts">>),
    Op("publicPost", "GET", <<"blog", "posts", "*">>),
    Op("publicTaxonomies", "GET", <<"blog", "taxonomy", "*">>),
    Op("publicTaxonomy", "GET", <<"blog", "taxonomy", "*", "*">>),
    Op("siteProfile", "GET", <<"system", "site-profile">>),
    Op("capabilities", "GET", <<"system", "capabilities">>),
    Op("systemStatus", "GET", <<"system", "status">>),
    Op("live", "GET", <<"health", "live">>),
    Op("ready", "GET", <<"health", "ready">>) >>

\* What the operations of readers' sign-in take and answer with.
ReaderAuthTypes ==
    [register |-> Types("UserRegisterIn", "UserAuthSessionOut"),
     userLogin |-> Types("UserLoginIn", "UserAuthSessionOut"),
     userRefresh |-> Types("none", "RefreshSessionOut"),
     userLogout |-> Types("none", "boolean")]

\* ... of file assets.
AssetTypes ==
    [uploadAsset |-> Types("BodyUploadAsset", "AssetRead"),
     assets |-> Types("none", "PageResultAssetRead"),
     deleteAssetsBulk |-> Types("AssetBulkDeleteIn", "AssetBulkDeleteResult"),
     deleteAsset |-> Types("none", "boolean")]

\* ... of the account of a reader, and its sessions.
OwnAccountTypes ==
    [deleteAccount |-> Types("AccountDeleteIn", "ActionResult"),
     userMe |-> Types("none", "UserPrincipalOut"),
     updateMe |-> Types("UserUpdateIn", "UserPrincipalOut"),
     updateAvatar |-> Types("UserAvatarUpdateIn", "UserPrincipalOut"),
     changeMyPassword |-> Types("PasswordChangeIn", "RefreshSessionOut")]

OwnSessionTypes ==
    [mySessions |-> Types("none", "PageResultSessionRead"),
     revokeSession |-> Types("none", "ActionResult"),
     revokeOthers |-> Types("none", "ActionResult")]

\* ... of the sign-in of administrators, and their profile.
AdminAuthTypes ==
    [login |-> Types("AdminLoginIn", "AdminAuthSessionOut"),
     refresh |-> Types("none", "RefreshSessionOut"),
     logout |-> Types("none", "boolean"),
     me |-> Types("none", "AdminRead")]

AdminProfileTypes ==
    [updateProfile |-> Types("AdminProfileUpdateIn", "AdminRead"),
     changePassword |-> Types("PasswordChangeIn", "RefreshSessionOut"),
     confirm |-> Types("AdminConfirmIn", "AdminConfirmOut")]

\* ... of readers: the list, one of them, the sessions of one.
UserListTypes ==
    [users |-> Types("none", "PageResultAdminUserRead"),
     createUser |-> Types("AdminUserCreateIn", "AdminUserRead"),
     setUserStatusBulk |-> Types("UserBulkStatusUpdateIn", "BatchActionResult"),
     deleteUsersBulk |-> Types("UserBulkDeleteIn", "BatchActionResult"),
     restoreUsersBulk |-> Types("UserRestoreBatchIn", "BatchActionResult")]

UserRowTypes ==
    [restoreUser |-> Types("none", "AdminUserRead"),
     getUser |-> Types("none", "UserPrincipalOut"),
     updateUser |-> Types("UserUpdateIn", "UserPrincipalOut"),
     setUserStatus |-> Types("StatusUpdateIn", "UserPrincipalOut"),
     resetUserPassword |-> Types("PasswordResetIn", "ActionResult")]

UserSessionTypes ==
    [userSessions |-> Types("none", "PageResultSessionRead"),
     revokeUserSession |-> Types("none", "ActionResult"),
     revokeUserSessions |-> Types("none", "ActionResult")]

\* ... of administrators: the list, one of them, the rights of one.
AdminListTypes ==
    [admins |-> Types("none", "PageResultAdminRead"),
     createAdmin |-> Types("AdminCreateIn", "AdminRead"),
     setAdminStatusBulk |-> Types("AdminBulkStatusUpdateIn", "ListAdminRead")]

AdminRowTypes ==
    [getAdmin |-> Types("none", "AdminRead"),
     updateAdmin |-> Types("AdminUpdateIn", "AdminRead"),
     setAdminSuperuser |-> Types("AdminSuperuserUpdateIn", "AdminRead"),
     setAdminStatus |-> Types("StatusUpdateIn", "AdminRead"),
     resetAdminPassword |-> Types("PasswordResetIn", "ActionResult")]

AdminRightsTypes ==
    [assignAdminRoles |-> Types("AdminRoleAssignIn", "AdminRead"),
     adminSessions |-> Types("none", "PageResultSessionRead"),
     revokeAdminSessions |-> Types("none", "ActionResult")]

\* ... of roles: the list, one of them.
RoleListTypes ==
    [roles |-> Types("none", "PageResultRoleRead"),
     createRole |-> Types("RoleCreateIn", "RoleRead"),
     setRoleStatusBulk |-> Types("RoleBulkStatusUpdateIn", "BatchActionResult"),
     deleteRolesBulk |-> Types("RoleBulkDeleteIn", "BatchActionResult")]

RoleRowTypes ==
    [deleteRole |-> Types("none", "ActionResult"),
     getRole |-> Types("none", "RoleRead"),
     updateRole |-> Types("RoleUpdateIn", "RoleRead"),
     assignPermissions |-> Types("RolePermissionAssignIn", "RoleRead"),
     permissions |-> Types("none", "ListPermissionRead")]

\* ... of logs and the overview.
LogTypes ==
    [loginEvents |-> Types("none", "PageResultLoginEventRead"),
     auditEvents |-> Types("none", "PageResultAuditEventRead"),
     requestLogs |-> Types("none", "PageResultRequestLogRead"),
     systemOverview |-> Types("none", "SystemOverviewRead")]

\* ... of system settings.
SettingTypes ==
    [siteSetting |-> Types("none", "AdminSiteSettingRead"),
     updateSiteSetting |-> Types("SiteSettingPatchIn", "AdminSiteSettingRead"),
     deleteSiteLogo |-> Types("none", "AdminSiteSettingRead"),
     uploadSiteLogo |-> Types("BodyUpdateSiteLogo", "AdminSiteSettingRead"),
     registrationSetting |-> Types("none", "AdminRegistrationSettingRead"),
     updateRegistrationSetting |-> Types("RegistrationSettingPatchIn", "AdminRegistrationSettingRead")]

\* ... of articles: the list, several of them, one of them.
PostListTypes ==
    [posts |-> Types("none", "PageResultPostSummary"),
     createPost |-> Types("PostCreate", "PostRead"),
     preview |-> Types("MarkdownPreviewInput", "MarkdownPreview")]

PostBatchTypes ==
    [deletePosts |-> Types("PostBatch", "BlogBatchResult"),
     restorePosts |-> Types("PostBatch", "BlogBatchResult"),
     deletePost |-> Types("none", "BlogBatchResult")]

PostRowTypes ==
    [post |-> Types("none", "PostRead"),
     updatePost |-> Types("PostUpdate", "PostRead"),
     updatePostStatus |-> Types("PostStatusUpdate", "PostRead"),
     restorePost |-> Types("RevisionInput", "BlogBatchResult")]

\* ... of categories and tags.
CategoryTypes ==
    [categories |-> Types("none", "PageResultTaxonomyRead"),
     createCategory |-> Types("TaxonomyCreate", "TaxonomyRead"),
     updateCategory |-> Types("TaxonomyUpdate", "TaxonomyRead"),
     categoryImpact |-> Types("TaxonomyTargets", "TaxonomyImpact"),
     deleteCategories |-> Types("TaxonomyDelete", "BlogBatchResult")]

TagTypes ==
    [tags |-> Types("none", "PageResultTaxonomyRead"),
     createTag |-> Types("TaxonomyCreate", "TaxonomyRead"),
     updateTag |-> Types("TaxonomyUpdate", "TaxonomyRead"),
     tagImpact |-> Types("TaxonomyTargets", "TaxonomyImpact"),
     deleteTags |-> Types("TaxonomyDelete", "BlogBatchResult")]

\* ... of public reading, and probes.
PublicBlogTypes ==
    [publicPosts |-> Types("none", "PageResultPublicPostSummary"),
     publicPost |-> Types("none", "PublicPostRead"),
     publicTaxonomies |-> Types("none", "PageResultPublicTaxonomyCount"),
     publicTaxonomy |-> Types("none", "PublicTaxonomyCount")]

ProbeTypes ==
    [siteProfile |-> Types("none", "SiteProfileRead"),
     capabilities |-> Types("none", "SystemCapabilitiesRead"),
     systemStatus |-> Types("none", "SystemStatus"),
     live |-> Types("none", "LiveStatus"),
     ready |-> Types("none", "ReadinessStatus")]

\* Calls of the console about the administrator signed in (adminApi).
SessionCalls ==
    {Call("login", "POST", <<"admin", "auth", "login">>, "AdminLoginIn", "AdminAuthSessionOut"),
     Call("me", "GET", <<"admin", "auth", "me">>, "none", "AdminRead"),
     Call("updateProfile", "PATCH", <<"admin", "auth", "profile">>,
          "AdminProfileUpdateIn", "AdminRead"),
     Call("logout", "POST", <<"admin", "auth", "logout">>, "none", "boolean"),
     Call("changePassword", "POST", <<"admin", "auth", "password">>,
          "PasswordChangeIn", "RefreshSessionOut")}

\* Calls of the console about file assets.
AssetCalls ==
    {Call("uploadAsset", "POST", <<"assets", "upload">>, "BodyUploadAsset", "AssetRead"),
     Call("assets", "GET", <<"assets">>, "none", "PageResultAssetRead"),
     Call("deleteAsset", "DELETE", <<"assets", "id">>, "none", "boolean"),
     Call("deleteAssetsBulk", "DELETE", <<"assets", "batch">>,
          "AssetBulkDeleteIn", "AssetBulkDeleteResult")}

\* Calls of the console about readers.
UserCalls ==
    {Call("users", "GET", <<"admin", "users">>, "none", "PageResultAdminUserRead"),
     Call("createUser", "POST", <<"admin", "users">>, "AdminUserCreateIn", "AdminUserRead"),
     Call("updateUser", "PATCH", <<"admin", "users", "id">>,
          "UserUpdateIn", "UserPrincipalOut"),
     Call("setUserStatus", "PATCH", <<"admin", "users", "id", "status">>,
          "StatusUpdateIn", "UserPrincipalOut"),
     Call("setUserStatusBulk", "PATCH", <<"admin", "users", "status", "batch">>,
          "UserBulkStatusUpdateIn", "BatchActionResult"),
     Call("deleteUsersBulk", "DELETE", <<"admin", "users", "batch">>,
          "UserBulkDeleteIn", "BatchActionResult"),
     Call("restoreUser", "POST", <<"admin", "users", "id", "restore">>,
          "none", "AdminUserRead"),
     Call("restoreUsersBulk", "POST", <<"admin", "users", "restore", "batch">>,
          "UserRestoreBatchIn", "BatchActionResult"),
     Call("resetUserPassword", "PUT", <<"admin", "users", "id", "credentials", "password">>,
          "PasswordResetIn", "ActionResult"),
     Call("userSessions", "GET", <<"admin", "users", "id", "sessions">>,
          "none", "PageResultSessionRead"),
     Call("revokeUserSessions", "POST", <<"admin", "users", "id", "sessions", "revoke-all">>,
          "none", "ActionResult")}

\* Calls of the console about administrators.
AdminCalls ==
    {Call("admins", "GET", <<"admin", "admins">>, "none", "PageResultAdminRead"),
     Call("createAdmin", "POST", <<"admin", "admins">>, "AdminCreateIn", "AdminRead"),
     Call("updateAdmin", "PATCH", <<"admin", "admins", "id">>, "AdminUpdateIn", "AdminRead"),
     Call("setAdminSuperuser", "PATCH", <<"admin", "admins", "id", "superuser">>,
          "AdminSuperuserUpdateIn", "AdminRead"),
     Call("setAdminStatus", "PATCH", <<"admin", "admins", "id", "status">>,
          "StatusUpdateIn", "AdminRead"),
     Call("setAdminStatusBulk", "PATCH", <<"admin", "admins", "status", "batch">>,
          "AdminBulkStatusUpdateIn", "ListAdminRead"),
     Call("resetAdminPassword", "PUT", <<"admin", "admins", "id", "credentials", "password">>,
          "PasswordResetIn", "ActionResult"),
     Call("assignAdminRoles", "PUT", <<"admin", "admins", "id", "roles">>,
          "AdminRoleAssignIn", "AdminRead"),
     Call("adminSessions", "GET", <<"admin", "admins", "id", "sessions">>,
          "none", "PageResultSessionRead"),
     Call("revokeAdminSessions", "POST", <<"admin", "admins", "id", "sessions", "revoke-all">>,
          "none", "ActionResult")}

\* Calls of the console about roles and permissions.
RoleCalls ==
    {Call("roles", "GET", <<"admin", "roles">>, "none", "PageResultRoleRead"),
     Call("createRole", "POST", <<"admin", "roles">>, "RoleCreateIn", "RoleRead"),
     Call("updateRole", "PATCH", <<"admin", "roles", "id">>, "RoleUpdateIn", "RoleRead"),
     Call("deleteRole", "DELETE", <<"admin", "roles", "id">>, "none", "ActionResult"),
     Call("setRoleStatusBulk", "PATCH", <<"admin", "roles", "status", "batch">>,
          "RoleBulkStatusUpdateIn", "BatchActionResult"),
     Call("deleteRolesBulk", "DELETE", <<"admin", "roles", "batch">>,
          "RoleBulkDeleteIn", "BatchActionResult"),
     Call("assignPermissions", "PUT", <<"admin", "roles", "id", "permissions">>,
          "RolePermissionAssignIn", "RoleRead"),
     Call("permissions", "GET", <<"admin", "permissions">>, "none", "ListPermissionRead")}

\* Calls of the console about logs and the overview.
LogCalls ==
    {Call("loginEvents", "GET", <<"admin", "security", "login-events">>,
          "none", "PageResultLoginEventRead"),
     Call("auditEvents", "GET", <<"admin", "security", "audit-events">>,
          "none", "PageResultAuditEventRead"),
     Call("requestLogs", "GET", <<"admin", "system", "request-logs">>,
          "none", "PageResultRequestLogRead"),
     Call("systemOverview", "GET", <<"admin", "system", "overview">>,
          "none", "SystemOverviewRead")}

\* Calls of the console about settings.
SettingCalls ==
    {Call("siteSetting", "GET", <<"admin", "settings", "site">>,
          "none", "AdminSiteSettingRead"),
     Call("updateSiteSetting", "PATCH", <<"admin", "settings", "site">>,
          "SiteSettingPatchIn", "AdminSiteSettingRead"),
     Call("uploadSiteLogo", "PUT", <<"admin", "settings", "site", "logo">>,
          "BodyUpdateSiteLogo", "AdminSiteSettingRead"),
     Call("deleteSiteLogo", "DELETE", <<"admin", "settings", "site", "logo">>,
          "none", "AdminSiteSettingRead"),
     Call("registrationSetting", "GET", <<"admin", "settings", "registration">>,
          "none", "AdminRegistrationSettingRead"),
     Call("updateRegistrationSetting", "PATCH", <<"admin", "settings", "registration">>,
          "RegistrationSettingPatchIn", "AdminRegistrationSettingRead")}

\* Calls of the console about articles (blogApi).
PostCalls ==
    {Call("posts", "GET", <<"admin", "blog", "posts">>, "none", "PageResultPostSummary"),
     Call("post", "GET", <<"admin", "blog", "posts", "id">>, "none", "PostRead"),
     Call("createPost", "POST", <<"admin", "blog", "posts">>, "PostCreate", "PostRead"),
     Call("updatePost", "PUT", <<"admin", "blog", "posts", "id">>, "PostUpdate", "PostRead"),
     Call("updatePostStatus", "PATCH", <<"admin", "blog", "posts", "id", "status">>,
          "PostStatusUpdate", "PostRead"),
     Call("deletePosts", "POST", <<"admin", "blog", "posts", "delete-batch">>,
          "PostBatch", "BlogBatchResult"),
     Call("restorePosts", "POST", <<"admin", "blog", "posts", "restore-batch">>,
          "PostBatch", "BlogBatchResult"),
     Call("preview", "POST", <<"admin", "blog", "preview">>,
          "MarkdownPreviewInput", "MarkdownPreview")}

\* Calls of the console about categories and tags, one for each value of kind.
TaxonomyCalls ==
    {Call("categories", "GET", <<"admin", "blog", "categories">>,
          "none", "PageResultTaxonomyRead"),
     Call("createCategory", "POST", <<"admin", "blog", "categories">>,
          "TaxonomyCreate", "TaxonomyRead"),
     Call("updateCategory", "PUT", <<"admin", "blog", "categories", "id">>,
          "TaxonomyUpdate", "TaxonomyRead"),
     Call("categoryImpact", "POST", <<"admin", "blog", "categories", "delete-impact">>,
          "TaxonomyTargets", "TaxonomyImpact"),
     Call("deleteCategories", "POST", <<"admin", "blog", "categories", "delete-batch">>,
          "TaxonomyDelete", "BlogBatchResult"),
     Call("tags", "GET", <<"admin", "blog", "tags">>, "none", "PageResultTaxonomyRead"),
     Call("createTag", "POST", <<"admin", "blog", "tags">>, "TaxonomyCreate", "TaxonomyRead"),
     Call("updateTag", "PUT", <<"admin", "blog", "tags", "id">>,
          "TaxonomyUpdate", "TaxonomyRead"),
     Call("tagImpact", "POST", <<"admin", "blog", "tags", "delete-impact">>,
          "TaxonomyTargets", "TaxonomyImpact"),
     Call("deleteTags", "POST", <<"admin", "blog", "tags", "delete-batch">>,
          "TaxonomyDelete", "BlogBatchResult")}

Contract ==
    ReaderAuthOperations \o AssetOperations \o OwnAccountOperations
        \o AdminAuthOperations \o UserOperations \o AdminOperations
        \o RoleOperations \o LogOperations \o SettingOperations
        \o PostOperations \o TaxonomyOperations \o PublicOperations

\* "*" stands for a parameter of the path, "id" for the value of one.
Matches(op, call) ==
    /\ op.verb = call.verb
    /\ Len(op.path) = Len(call.path)
    /\ \A i \in DOMAIN op.path : op.path[i] \in {"*", call.path[i]}

\* The operation that answers a call.
Resolve(call) ==
    LET hits == {i \in DOMAIN Contract : Matches(Contract[i], call)}
    IN  IF hits = {} THEN "none"
        ELSE Contract[CHOOSE i \in hits : \A j \in hits : i <= j].name

ConsoleCalls ==
    SessionCalls \cup AssetCalls \cup UserCalls \cup AdminCalls \cup RoleCalls
        \cup LogCalls \cup SettingCalls \cup PostCalls \cup TaxonomyCalls

TypesOf(name) ==
    LET table == CHOOSE t \in
            {ReaderAuthTypes, AssetTypes, OwnAccountTypes, OwnSessionTypes, AdminAuthTypes,
             AdminProfileTypes, UserListTypes, UserRowTypes, UserSessionTypes, AdminListTypes,
             AdminRowTypes, AdminRightsTypes, RoleListTypes, RoleRowTypes, LogTypes, SettingTypes,
             PostListTypes, PostBatchTypes, PostRowTypes, CategoryTypes, TagTypes,
             PublicBlogTypes, ProbeTypes} : name \in DOMAIN t
    IN  table[name]

\* Calls that reach the operation they mean, send what it takes and read what
\* it answers with.
Reaching(calls) ==
    {c.name : c \in {d \in calls : Resolve(d) = d.name /\ TypesOf(d.name) = d.types}}

\* Types that name the version of each target: its revision, or the digest of
\* what the deletion was confirmed for.
Revisioned == {"PostBatch", "PostStatusUpdate", "PostUpdate", "RevisionInput",
               "TaxonomyUpdate", "TaxonomyDelete"}

\* The permission each operation of the management router declares.
ManagementNeeds ==
    [users |-> "users:read",
     createUser |-> "users:create",
     setUserStatusBulk |-> "users:update",
     deleteUsersBulk |-> "users:delete",
     restoreUsersBulk |-> "users:restore",
     restoreUser |-> "users:restore",
     updateUser |-> "users:update",
     setUserStatus |-> "users:update",
     resetUserPassword |-> "users:credentials:reset",
     userSessions |-> "users:sessions:read",
     revokeUserSessions |-> "users:sessions:revoke",
     admins |-> "admins:read",
     setAdminStatusBulk |-> "admins:update",
     createAdmin |-> "admins:create",
     updateAdmin |-> "admins:update",
     setAdminSuperuser |-> "admins:superuser:change",
     setAdminStatus |-> "admins:update",
     resetAdminPassword |-> "admins:credentials:reset",
     assignAdminRoles |-> "admins:roles:assign",
     adminSessions |-> "admins:sessions:read",
     revokeAdminSessions |-> "admins:sessions:revoke",
     roles |-> "roles:read",
     setRoleStatusBulk |-> "roles:update",
     deleteRolesBulk |-> "roles:delete",
     createRole |-> "roles:create",
     updateRole |-> "roles:update",
     deleteRole |-> "roles:delete",
     assignPermissions |-> "roles:permissions:assign",
     permissions |-> "permissions:read"]

\* ... of the router of file assets.
AssetNeeds ==
    [assets |-> "assets:read",
     deleteAssetsBulk |-> "assets:delete",
     deleteAsset |-> "assets:delete"]

\* ... of the router of the blog.
BlogNeeds ==
    [posts |-> "posts:read",
     createPost |-> "posts:create",
     preview |-> "posts:read",
     deletePosts |-> "posts:delete",
     restorePosts |-> "posts:restore",
     post |-> "posts:read",
     updatePost |-> "posts:update",
     updatePostStatus |-> "posts:update",
     categories |-> "categories:read",
     createCategory |-> "categories:create",
     updateCategory |-> "categories:update",
     categoryImpact |-> "categories:delete",
     deleteCategories |-> "categories:delete",
     tags |-> "tags:read",
     createTag |-> "tags:create",
     updateTag |-> "tags:update",
     tagImpact |-> "tags:delete",
     deleteTags |-> "tags:delete"]

Needs(op) ==
    CASE op \in DOMAIN ManagementNeeds -> ManagementNeeds[op]
      [] op \in DOMAIN AssetNeeds -> AssetNeeds[op]
      [] op \in DOMAIN BlogNeeds -> BlogNeeds[op]
      [] OTHER -> "none"
=============================================================================
