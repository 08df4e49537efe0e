SPECIFICATION Spec
CONSTANTS
  u1 = u1
  u2 = u2
  u3 = u3
  v1 = v1
  h1 = h1
  Requests <- FiveRequests
  Subjects = {"subject"}
  SubjectOf <- OneSubject
  RouteOf <- FiveRoutes
  Limits <- SmallLimits
  MaxTime = 3
INVARIANTS TypeOK InsideBounded AdmittedWithinQuota
PROPERTY RefusedOnlyWhenFull
SYMMETRY UploadSymmetry
CHECK_DEADLOCK FALSE
