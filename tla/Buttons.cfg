SPECIFICATION ButtonsSpec
CONSTANTS
  Button = {select, import, export}
PROPERTIES EventsAreClicks LoneClicksCount
