SPECIFICATION Spec
CONSTANTS
  Null = Null
  Refused = Refused
  DefaultPageSize = 3
  MaxPageSize = 4
  StreakWindow = 5
  RecentDays = 3
  DefaultDays = 2
  SeatPriceCents = 9
  SlugLength = 4
  DrawAttempts = 3
  MaxBundleSize = 2
  SeedLessons = 2
  SeedSessions = 2
  SeedUsers <- MCSeedUsers
  SeedCategories <- MCSeedCategories
  SeedCourses <- MCSeedCourses
  FreeSeedCourses <- MCFreeSeedCourses
  SeedLearners <- MCSeedLearners
  ActivityRequests <- MCActivityRequests
  Checkouts <- MCCheckouts
  CourseViews <- MCCourseViews
  FaqEdits <- MCFaqEdits
  SlugWrites <- MCSlugWrites
  Backfills <- MCBackfills
  SeedRuns <- MCSeedRuns
  QuizWrites <- MCQuizWrites
  QuizSubmissions <- MCQuizSubmissions
  Grades <- MCGrades
  GradebookRequests <- MCGradebookRequests
  PageRequests <- MCPageRequests
  Reissues <- MCReissues
  StreakRequests <- MCStreakRequests
  OutlineRequests <- MCOutlines
  ScheduleEdits <- MCScheduleEdits
  RevenueRequests <- MCRevenueRequests
  DashboardRequests <- MCDashboardRequests
INVARIANTS GradesAreFair BatchesAreWhole ProgressIsTold FiguresAddUp StorefrontIsConsistent
CHECK_DEADLOCK FALSE
